------------------------------ MODULE SegmentFile ------------------------------
(***************************************************************************)
(* The .log file of the active segment below the partition's RWMutex       *)
(* (internal/storage/segment.go, record.go): one open file whose cursor is *)
(* shared by Segment.Append and by every Segment.Read.                     *)
(*                                                                         *)
(* A record is two cells, its length prefix and its payload, because       *)
(* ReadRecord reads them with two calls.  All records have the same        *)
(* length.  A read that starts on the wrong cell is misaligned; what the   *)
(* decoder makes of such bytes is a nondeterministic choice between an     *)
(* error, a record nobody wrote and a length that reaches past the end of  *)
(* the file.  The index has an entry per record.                           *)
(***************************************************************************)
EXTENDS Integers, Sequences, SequencesExt

CONSTANTS Readers,      \* goroutines that call PartitionLog.Read
          MaxOffset,    \* bound: number of appends
          MaxTears,     \* bound: number of torn writes
          Garbage       \* a record nobody wrote

ASSUME ConstantsAssumption == MaxOffset \in Nat /\ MaxTears \in Nat

VARIABLES
    file,         \* the cells of the file
    cursor,       \* position of the open file, shared by readers and the writer
    nextOffset,   \* Segment.nextOffset; Segment.currentSize is twice that, in cells
    pc,           \* reader -> idle, len or body: the call of ReadRecord it is at
    from,         \* reader -> startOffset
    got,          \* reader -> the records it has decoded
    tears,        \* number of torn writes so far
    intact,       \* history: records acknowledged before the first torn write
    shared,       \* history: reader -> was another read in progress during its own
    misread       \* history: has a read that was not alone returned an error

vars == <<file, cursor, nextOffset, pc, from, got, tears, intact, shared, misread>>
seg  == <<file, nextOffset, tears, intact>>

Len4(o)  == [part |-> "len", offset |-> o]
Body(o)  == [part |-> "body", offset |-> o]
Cells(o) == <<Len4(o), Body(o)>>
Reading(r) == pc[r] # "idle"

\* A write at position p overwrites what is there and extends the file, with a
\* hole of zeros when p is behind its end.
Hole == [part |-> "hole", offset |-> 0]
WriteAt(f, p, cells) ==
    [i \in 1..(IF p + Len(cells) > Len(f) THEN p + Len(cells) ELSE Len(f)) |->
        IF i > p /\ i <= p + Len(cells) THEN cells[i - p]
        ELSE IF i <= Len(f) THEN f[i] ELSE Hole]

Init ==
    /\ file = <<>> /\ cursor = 0 /\ nextOffset = 0
    /\ pc = [r \in Readers |-> "idle"] /\ from = [r \in Readers |-> 0]
    /\ got = [r \in Readers |-> <<>>]
    /\ tears = 0 /\ intact = 0
    /\ shared = [r \in Readers |-> FALSE] /\ misread = FALSE

\* Segment.Append under p.mu.Lock: the write goes where the cursor is.
AppendRecord ==
    /\ \A r \in Readers : ~Reading(r)
    /\ nextOffset < MaxOffset
    /\ file' = WriteAt(file, cursor, Cells(nextOffset))
    /\ cursor' = cursor + 2
    /\ nextOffset' = nextOffset + 1
    /\ intact' = IF tears = 0 THEN nextOffset + 1 ELSE intact
    /\ UNCHANGED <<pc, from, got, tears, shared, misread>>

\* The write is cut short (disk full): Append returns the error before it
\* updates the segment, and the written part stays in the file.
AppendTorn ==
    /\ \A r \in Readers : ~Reading(r)
    /\ nextOffset < MaxOffset /\ tears < MaxTears
    /\ file' = WriteAt(file, cursor, <<Len4(nextOffset)>>)
    /\ cursor' = cursor + 1
    /\ tears' = tears + 1
    /\ UNCHANGED <<nextOffset, intact, pc, from, got, shared, misread>>

\* Segment.Read under p.mu.RLock, which shuts out the writer and no other read:
\* return at once above the end, else seek to where the index says the record
\* is, whoever else is reading.
LookupMutant(o) == 2 * o + 2
Lookup(o) == 2 * o
ReadBegin(r, o) ==
    /\ ~Reading(r)
    /\ o < nextOffset
    /\ cursor' = Lookup(o)
    /\ pc' = [pc EXCEPT ![r] = "len"]
    /\ from' = [from EXCEPT ![r] = o]
    /\ got' = [got EXCEPT ![r] = <<>>]
    /\ shared' = [s \in Readers |-> IF s = r THEN \E q \in Readers : Reading(q)
                                             ELSE shared[s] \/ Reading(s)]
    /\ UNCHANGED <<seg, misread>>

AtEnd == cursor >= Len(file)
Aligned(part) == ~AtEnd /\ file[cursor + 1].part = part

\* The end of the file ends the read: in the length, in the payload, or because
\* misaligned bytes ask for more than the file has.
ReadEndMutant(r) ==
    /\ pc[r] = "len" /\ AtEnd
    /\ pc' = [pc EXCEPT ![r] = "idle"]
    /\ UNCHANGED <<seg, cursor, from, got, shared, misread>>
ReadEnd(r) ==
    /\ Reading(r) /\ ~Aligned(pc[r])
    /\ pc' = [pc EXCEPT ![r] = "idle"]
    /\ cursor' = IF AtEnd THEN cursor ELSE Len(file)
    /\ UNCHANGED <<seg, from, got, shared, misread>>

\* ReadRecord reads the length prefix ...
ReadLen(r) ==
    /\ pc[r] = "len" /\ Aligned("len")
    /\ pc' = [pc EXCEPT ![r] = "body"]
    /\ cursor' = cursor + 1
    /\ UNCHANGED <<seg, from, got, shared, misread>>

\* ... then the payload; records below startOffset are skipped.
ReadBody(r) ==
    /\ pc[r] = "body" /\ Aligned("body")
    /\ got' = [got EXCEPT ![r] = IF file[cursor + 1].offset >= from[r]
                                 THEN Append(@, file[cursor + 1].offset) ELSE @]
    /\ pc' = [pc EXCEPT ![r] = "len"]
    /\ cursor' = cursor + 1
    /\ UNCHANGED <<seg, from, shared, misread>>

\* A misaligned call: ReadRecord fails and Segment.Read returns the error with
\* the cursor where it is ...
ReadError(r) ==
    /\ Reading(r) /\ ~AtEnd /\ ~Aligned(pc[r])
    /\ pc' = [pc EXCEPT ![r] = "idle"]
    /\ got' = [got EXCEPT ![r] = <<>>]
    /\ cursor' = cursor + 1
    /\ misread' = (misread \/ shared[r])
    /\ UNCHANGED <<seg, from, shared>>

\* ... or decodes bytes that happen to parse.
ReadGarbage(r) ==
    /\ Reading(r) /\ ~AtEnd /\ ~Aligned(pc[r])
    /\ got' = [got EXCEPT ![r] = Append(@, Garbage)]
    /\ pc' = [pc EXCEPT ![r] = "len"]
    /\ cursor' = cursor + 1
    /\ UNCHANGED <<seg, from, shared, misread>>

\* The process dies, in a read or between operations, and NewSegment opens the
\* file again: recoverState counts the whole records from the start and leaves
\* the cursor at the end of the file, behind a torn record if there is one.  A
\* file with bytes that do not parse before its end is not reopened here.
WholeRecords == Max({n \in 0..MaxOffset :
                        /\ 2 * n <= Len(file)
                        /\ \A i \in 1..n : /\ file[2 * i - 1].part = "len"
                                           /\ file[2 * i].part = "body"})
RecoveredCursorMutant == 0
RecoveredCursor == Len(file)
Reopen ==
    /\ Len(file) - 2 * WholeRecords <= 1
    /\ nextOffset' = WholeRecords
    /\ cursor' = RecoveredCursor
    /\ pc' = [r \in Readers |-> "idle"]
    /\ from' = [r \in Readers |-> 0]
    /\ got' = [r \in Readers |-> <<>>]
    /\ shared' = [r \in Readers |-> FALSE]
    /\ UNCHANGED <<file, tears, intact, misread>>

ReadStep(r) == ReadEnd(r) \/ ReadLen(r) \/ ReadBody(r) \/ ReadError(r) \/ ReadGarbage(r)

Next == \/ AppendRecord \/ AppendTorn \/ Reopen
        \/ \E r \in Readers : ReadStep(r) \/ \E o \in 0..MaxOffset : ReadBegin(r, o)

\* A reader that holds the read lock is scheduled until its read is over.
Spec == Init /\ [][Next]_vars /\ \A r \in Readers : WF_vars(ReadStep(r))
-------------------------------------------------------------------------------
\* The file is append-only: a record acknowledged before the first torn write
\* is never overwritten.  This is what the documentation promises; it fails when
\* reads overlap, because the next append goes where a failed read left the
\* shared cursor (Segment.Append, Segment.Read).
AppendOnly ==
    \A o \in 0..(intact - 1) : Len(file) >= 2 * o + 2 /\ SubSeq(file, 2 * o + 1, 2 * o + 2) = Cells(o)

\* Nothing else overwrites one: not reads that overlap and end without an error,
\* not the error of a read that was alone, not a torn write or a restart.  An
\* acknowledged record is lost only after a read that shared the cursor with
\* another has returned an error (Segment.Append writes at the cursor).
AcknowledgedIntact == ~misread => AppendOnly

\* A read that no other overlapped and that ends without an error has returned
\* the records from its start offset in order, up to the first torn write, and
\* all of them when there was none; reads that overlapped before do not matter
\* unless one of them failed (PartitionLog.Read).
Expected(r) == [i \in 1..(IF from[r] < intact THEN intact - from[r] ELSE 0) |-> from[r] + i - 1]
ReadReturnsLog ==
    [][\A r \in Readers : ReadEnd(r) /\ ~shared[r] /\ ~misread =>
            /\ IsPrefix(Expected(r), got[r])
            /\ tears = 0 => got[r] = Expected(r)]_vars

\* A read that no other overlaps gives the read lock back, so it never shuts an
\* append out (PartitionLog.Read, Segment.Read).  Reads that overlap again and
\* again may keep moving each other's cursor.
ReadsFinish == \A r \in Readers : Reading(r) ~> ~Reading(r) \/ shared[r]
===============================================================================
