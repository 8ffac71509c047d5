----------------------------- MODULE PartitionLog -----------------------------
(***************************************************************************)
(* One partition of the broker (internal/storage): PartitionLog and its    *)
(* segments, the index of each segment, and the CleanerWorker that removes *)
(* and compacts closed segments, with process crashes and restarts.        *)
(*                                                                         *)
(* A segment is identified by its base offset, the name of its files.  The *)
(* slice p.segments, sorted by base offset, is the set `segments`; it is   *)
(* also the set of .log files in the directory.  A .log file is the set of *)
(* records in it: they are always in offset order, so the position of a    *)
(* record is the number of records before it.  Every record has the same   *)
(* encoded length, one unit of size.                                       *)
(***************************************************************************)
EXTENDS Integers, FiniteSets, FiniteSetsExt

CONSTANTS Keys, NoKey, Values, Empty,
          MaxSegmentBytes,     \* maxSegmentBytes, in records
          IndexIntervalBytes,  \* indexIntervalBytes, in records
          RetentionMs,         \* CleanerConfig.RetentionMs, <= 0: disabled
          RetentionBytes,      \* CleanerConfig.RetentionBytes, <= 0: disabled
          CompactionEnabled,   \* CleanerConfig.CompactionEnabled
          MaxFetchBytes,       \* MaxBytes of a fetch request, in records
          MaxOffset,           \* bound: number of appends
          MaxClock,            \* bound: number of clock ticks
          Faults               \* which faults may happen, a subset of FaultPoints

\* crash: the process dies between two operations.  append: it dies in an
\* append, after the index entry and before the record.  swap: it dies, or the
\* second rename fails, between the two renames of replaceContents.
\* rename: the first rename fails.
FaultPoints == {"crash", "append", "swap", "rename"}

ASSUME ConstantsAssumption ==
    /\ NoKey \notin Keys /\ Empty \notin Values
    /\ MaxSegmentBytes \in Nat \ {0} /\ IndexIntervalBytes \in Nat
    /\ RetentionMs \in Int /\ RetentionBytes \in Int
    /\ CompactionEnabled \in BOOLEAN
    /\ MaxFetchBytes \in Nat \ {0}
    /\ MaxOffset \in Nat /\ MaxClock \in Nat
    /\ Faults \subseteq FaultPoints

VARIABLES
    alive,           \* is the broker process running
    now,             \* the wall clock
    segments,        \* base offsets of the segments: p.segments and the .log files
    activeSegment,   \* base offset of p.activeSegment
    logFile,         \* base offset -> the records in the .log file
    index,           \* base offset -> the entries of the .index file
    modTime,         \* base offset -> modification time of the .log file
    nextOffset,      \* base offset -> Segment.nextOffset
    currentSize,     \* base offset -> Segment.currentSize
    lastIndexBytes,  \* base offset -> Segment.lastIndexBytes
    opened,          \* base offset -> are the segment's file handles usable
    cleaner,         \* where the cleaner goroutine is in RunCleanCycle
    pending,         \* segments the cleaner's current loop has still to visit
    cycleTime,       \* `now` as read by cleanTimeRetention
    keyLatestOffset, \* CompactSegments' map, as a set of <<key, offset>>
    newest,          \* history: key -> the last record appended with it
    interrupted      \* history: segments whose log was replaced and index was not

disk  == <<segments, logFile, index, modTime>>
mem   == <<activeSegment, nextOffset, currentSize, lastIndexBytes, opened>>
clean == <<cleaner, pending, cycleTime, keyLatestOffset>>
history == <<newest, interrupted>>
vars  == <<alive, now, disk, mem, clean, history>>

Offsets == 0..MaxOffset
Record  == [offset : Offsets, key : Keys \cup {NoKey}, value : Values \cup {Empty}]
Entry   == [offset : Offsets, pos : Nat]
None    == [offset |-> -1, key |-> NoKey, value |-> Empty]
Rec(o, k, v) == [offset |-> o, key |-> k, value |-> v]

-------------------------------------------------------------------------------
(* Segments *)

\* Position of offset o in a file that holds the records R.
Position(o, R) == Cardinality({r \in R : r.offset < o})

\* Index.Lookup: position of the entry with the largest offset <= target, or 0.
Lookup(I, target) ==
    LET below == {e \in I : e.offset <= target}
    IN  IF below = {} THEN 0
        ELSE (CHOOSE e \in below : \A f \in below : f.offset <= e.offset).pos

\* Segment.Read: seek to the position the index gives, read to the end of the
\* file, keep what is not below o.
SegmentRead(b, o) ==
    IF o >= nextOffset[b] THEN {}
    ELSE {r \in logFile[b] : /\ Position(r.offset, logFile[b]) >= Lookup(index[b], o)
                             /\ r.offset >= o}

\* Segment.Read and Segment.ReadZeroCopy use closed file handles, and fail.
ReadFails(b, o) == o < nextOffset[b] /\ ~opened[b]

\* findSegmentIndex: the segments from the last one that starts at or before o.
FromSegmentMutant(o) == {b \in segments : b <= o /\ \A d \in segments : d <= o => d <= b}
FromSegment(o) ==
    {b \in segments : \E c \in segments : /\ c <= o /\ c <= b
                                          /\ \A d \in segments : d <= o => d <= c}

\* PartitionLog.Read.
Read(o)     == UNION {SegmentRead(b, o) : b \in FromSegment(o)}
ReadErr(o)  == \E b \in FromSegment(o) : ReadFails(b, o)

\* PartitionLog.ReadZeroCopy, what a fetch returns: raw bytes from the position
\* the index gives, so also records below o, over the segments until the limit.
Stream(o) ==
    UNION {{r \in logFile[b] : /\ o < nextOffset[b]
                               /\ Position(r.offset, logFile[b]) >= Lookup(index[b], o)} :
           b \in FromSegment(o)}

\* A segment with closed handles fails the fetch, unless the limit was reached
\* before it; then nothing is answered (ReadZeroCopy, handleFetch).
FetchErr(o) ==
    \E b \in FromSegment(o) : ReadFails(b, o) /\ Position(b, Stream(o)) < MaxFetchBytes
ReadZeroCopy(o) ==
    {r \in Stream(o) : ~FetchErr(o) /\ Position(r.offset, Stream(o)) < MaxFetchBytes}

\* PartitionLog.LEO, BaseOffset, Stats and GetNonActiveSegments.  The sum of
\* the segments' sizes is the number of records counted in them.
LEO == nextOffset[activeSegment]
IsOldest(b) == b \in segments /\ \A c \in segments : b <= c
CountedRecords == UNION {{b} \X (1..currentSize[b]) : b \in segments}
TotalSize == Cardinality(CountedRecords)
NonActiveSegments == segments \ {activeSegment}

\* CompactSegments holds p.mu from its first read to its last rename.
Locked == cleaner \in {"rewrite", "swap"}
-------------------------------------------------------------------------------
Init ==
    /\ alive = TRUE /\ now = 0
    /\ segments = {0} /\ activeSegment = 0
    /\ logFile = [b \in Offsets |-> {}]
    /\ index = [b \in Offsets |-> {}]
    /\ modTime = [b \in Offsets |-> 0]
    /\ nextOffset = [b \in Offsets |-> b]
    /\ currentSize = [b \in Offsets |-> 0]
    /\ lastIndexBytes = [b \in Offsets |-> 0]
    /\ opened = [b \in Offsets |-> TRUE]
    /\ cleaner = "idle" /\ pending = {} /\ cycleTime = 0 /\ keyLatestOffset = {}
    /\ newest = [k \in Keys |-> None] /\ interrupted = {}

Tick == now < MaxClock /\ now' = now + 1 /\ UNCHANGED <<alive, disk, mem, clean, history>>

\* IsFull.
IsFull(b) == currentSize[b] >= MaxSegmentBytes

\* The segment an append goes to: the active one, or the one roll() creates.
AppendTarget == IF IsFull(activeSegment) THEN LEO ELSE activeSegment

\* Segment.Append writes an index entry before the record, for the first record
\* and when an interval has passed since the last entry.
IndexDue(b) == \/ currentSize[b] = 0
               \/ currentSize[b] - lastIndexBytes[b] >= IndexIntervalBytes

IndexAfterAppendMutant(b) ==
    IF IndexDue(b) THEN index[b] \cup {[offset |-> LEO, pos |-> currentSize[b] + 1]}
    ELSE index[b]
IndexAfterAppend(b) ==
    IF IndexDue(b) THEN index[b] \cup {[offset |-> LEO, pos |-> currentSize[b]]}
    ELSE index[b]

\* PartitionLog.Append: roll when the active segment is full, then append.
Append(k, v) ==
    LET b == AppendTarget IN
    /\ alive /\ ~Locked /\ LEO < MaxOffset
    /\ segments' = segments \cup {b}
    /\ activeSegment' = b
    /\ index' = [index EXCEPT ![b] = IndexAfterAppend(b)]
    /\ lastIndexBytes' = [lastIndexBytes EXCEPT
                            ![b] = IF IndexDue(b) THEN currentSize[b] ELSE @]
    /\ logFile' = [logFile EXCEPT ![b] = @ \cup {Rec(LEO, k, v)}]
    /\ modTime' = [modTime EXCEPT ![b] = now]
    /\ currentSize' = [currentSize EXCEPT ![b] = @ + 1]
    /\ nextOffset' = [nextOffset EXCEPT ![b] = LEO + 1]
    /\ newest' = IF k = NoKey THEN newest ELSE [newest EXCEPT ![k] = Rec(LEO, k, v)]
    /\ UNCHANGED <<alive, now, opened, clean, interrupted>>
-------------------------------------------------------------------------------
(* CleanerWorker.RunCleanCycle *)

\* RemoveOldestSegment keeps the last segment.
CanRemoveMutant == Cardinality(segments) > 2
CanRemove == Cardinality(segments) > 1

\* RemoveFiles deletes both files.
RemoveFiles(b) ==
    /\ logFile' = [logFile EXCEPT ![b] = {}]
    /\ index' = [index EXCEPT ![b] = {}]
    /\ modTime' = [modTime EXCEPT ![b] = 0]

RemoveOldestSegment ==
    /\ \E b \in segments :
        /\ IsOldest(b)
        /\ segments' = segments \ {b}
        /\ RemoveFiles(b)
        /\ nextOffset' = [nextOffset EXCEPT ![b] = b]
        /\ currentSize' = [currentSize EXCEPT ![b] = 0]
        /\ lastIndexBytes' = [lastIndexBytes EXCEPT ![b] = 0]
        /\ opened' = [opened EXCEPT ![b] = TRUE]
        /\ interrupted' = interrupted \ {b}
    /\ UNCHANGED <<activeSegment, newest>>

AfterTimeRetention == "size"
AfterSizeRetention == IF CompactionEnabled THEN "compact" ELSE "idle"

\* The start of cleanTimeRetention: snapshot the closed segments, read the clock.
CycleBegin ==
    /\ alive /\ cleaner = "idle"
    /\ IF RetentionMs > 0 /\ NonActiveSegments # {}
         THEN cleaner' = "time" /\ pending' = NonActiveSegments /\ cycleTime' = now
         ELSE cleaner' = AfterTimeRetention /\ UNCHANGED <<pending, cycleTime>>
    /\ UNCHANGED <<alive, now, disk, mem, keyLatestOffset, history>>

\* The loop ends: leave nothing behind in the loop variables.
TimeDone == pending' = {} /\ cycleTime' = 0 /\ cleaner' = AfterTimeRetention

\* One iteration of cleanTimeRetention: when the segment of the snapshot has
\* expired, the oldest segment is removed.  A segment whose file is gone is
\* skipped.
ExpiredMutant(b) == b \in segments /\ modTime[b] - cycleTime > RetentionMs
Expired(b) == b \in segments /\ cycleTime - modTime[b] > RetentionMs
TimeRetention ==
    /\ alive /\ cleaner = "time"
    /\ \E b \in pending :
        /\ \A c \in pending : b <= c
        /\ IF Expired(b) /\ CanRemove
             THEN RemoveOldestSegment
             ELSE UNCHANGED <<disk, mem, history>>
        /\ IF pending = {b}
             THEN TimeDone
             ELSE pending' = pending \ {b} /\ UNCHANGED <<cleaner, cycleTime>>
    /\ UNCHANGED <<alive, now, keyLatestOffset>>

\* cleanSizeRetention reads the total size, and removes in a later step.
SizeCheck ==
    /\ alive /\ cleaner = "size"
    /\ cleaner' = IF RetentionBytes > 0 /\ TotalSize > RetentionBytes
                  THEN "sizeRemove" ELSE AfterSizeRetention
    /\ UNCHANGED <<alive, now, disk, mem, pending, cycleTime, keyLatestOffset, history>>

AfterSizeRemoveMutant == "sizeRemove"
AfterSizeRemove == "size"
SizeRemove ==
    /\ alive /\ cleaner = "sizeRemove"
    /\ IF CanRemove
         THEN RemoveOldestSegment /\ cleaner' = AfterSizeRemove
         ELSE cleaner' = AfterSizeRetention /\ UNCHANGED <<disk, mem, history>>
    /\ UNCHANGED <<alive, now, pending, cycleTime, keyLatestOffset>>

\* The first half of CompactSegments: take the lock, map each key to its
\* highest offset over all segments, the active one included.
LatestPairs(S) ==
    {<<r.key, r.offset>> : r \in {s \in S : /\ s.key # NoKey
                                            /\ \A q \in S : q.key = s.key => q.offset <= s.offset}}
ClosedSegmentsMutant == segments
ClosedSegments == segments \ {activeSegment}
CompactBegin ==
    /\ alive /\ cleaner = "compact"
    /\ IF Cardinality(segments) <= 1 \/ \E b \in segments : ReadFails(b, b)
         THEN cleaner' = "idle" /\ UNCHANGED <<pending, keyLatestOffset>>
         ELSE /\ cleaner' = "rewrite"
              /\ pending' = ClosedSegments
              /\ keyLatestOffset' = LatestPairs(UNION {SegmentRead(b, b) : b \in segments})
    /\ UNCHANGED <<alive, now, disk, mem, cycleTime, history>>

\* CompactLogSegments: what it keeps of a segment.
KeptMutant(R) == {r \in R : <<r.key, r.offset>> \in keyLatestOffset /\ r.value # Empty}
Kept(R) == {r \in R : r.key = NoKey \/ (<<r.key, r.offset>> \in keyLatestOffset /\ r.value # Empty)}

\* CompactSegments returns and releases the lock.
CompactDoneMutant == pending' = {} /\ keyLatestOffset' = {} /\ UNCHANGED cleaner
CompactDone == pending' = {} /\ keyLatestOffset' = {} /\ cleaner' = "idle"
Visited(b) == IF pending = {b} THEN CompactDone
              ELSE pending' = pending \ {b} /\ cleaner' = "rewrite" /\ UNCHANGED keyLatestOffset

\* The next segment CompactSegments visits, oldest first.
NextToCompactMutant(b) == b \in pending /\ \A c \in pending : b >= c
NextToCompact(b) == b \in pending /\ \A c \in pending : b <= c

\* Nothing to remove: the segment is left alone.
SkipSegment ==
    /\ alive /\ cleaner = "rewrite"
    /\ \E b \in pending :
        /\ NextToCompact(b)
        /\ Kept(SegmentRead(b, b)) = SegmentRead(b, b)
        /\ Visited(b)
    /\ UNCHANGED <<alive, now, disk, mem, cycleTime, history>>

\* replaceContents: write the survivors to temporary files, close the handles
\* and rename the log file into place.
ReplaceLog ==
    /\ alive /\ cleaner = "rewrite"
    /\ \E b \in pending :
        /\ NextToCompact(b)
        /\ Kept(SegmentRead(b, b)) # SegmentRead(b, b)
        /\ logFile' = [logFile EXCEPT ![b] = Kept(SegmentRead(b, b))]
        /\ modTime' = [modTime EXCEPT ![b] = now]
        /\ opened' = [opened EXCEPT ![b] = FALSE]
        /\ interrupted' = interrupted \cup {b}
    /\ cleaner' = "swap"
    /\ UNCHANGED <<alive, now, segments, index, activeSegment, nextOffset, currentSize,
                   lastIndexBytes, pending, cycleTime, keyLatestOffset, newest>>

\* The sparse index replaceContents builds: an entry for the first record,
\* then one whenever an interval has passed since the last entry.
IndexStep == IF IndexIntervalBytes = 0 THEN 1 ELSE IndexIntervalBytes
RebuiltIndexMutant(R) == {[offset |-> r.offset, pos |-> r.offset] : r \in R}
RebuiltIndex(R) ==
    {[offset |-> r.offset, pos |-> Position(r.offset, R)] :
        r \in {s \in R : Position(s.offset, R) % IndexStep = 0}}
RebuiltLastIndexBytes(R) ==
    IF R = {} THEN 0 ELSE ((Cardinality(R) - 1) \div IndexStep) * IndexStep

\* ... rename the index into place and reopen the files.
ReplaceIndex ==
    /\ alive /\ cleaner = "swap"
    /\ \E b \in pending :
        /\ NextToCompact(b)
        /\ index' = [index EXCEPT ![b] = RebuiltIndex(logFile[b])]
        /\ currentSize' = [currentSize EXCEPT ![b] = Cardinality(logFile[b])]
        /\ lastIndexBytes' = [lastIndexBytes EXCEPT ![b] = RebuiltLastIndexBytes(logFile[b])]
        /\ opened' = [opened EXCEPT ![b] = TRUE]
        /\ interrupted' = interrupted \ {b}
        /\ Visited(b)
    /\ UNCHANGED <<alive, now, segments, logFile, modTime, activeSegment, nextOffset,
                   cycleTime, newest>>

\* The first rename fails after the handles were closed: CompactSegments
\* returns the error and the segment stays closed.
RenameFails ==
    /\ "rename" \in Faults
    /\ alive /\ cleaner = "rewrite"
    /\ \E b \in pending :
        /\ NextToCompact(b)
        /\ Kept(SegmentRead(b, b)) # SegmentRead(b, b)
        /\ opened' = [opened EXCEPT ![b] = FALSE]
    /\ CompactDone
    /\ UNCHANGED <<alive, now, disk, activeSegment, nextOffset, currentSize, lastIndexBytes,
                   cycleTime, history>>

\* The second rename fails: the new log stays paired with the old index.
IndexRenameFails ==
    /\ "swap" \in Faults
    /\ alive /\ cleaner = "swap"
    /\ CompactDone
    /\ UNCHANGED <<alive, now, disk, mem, cycleTime, history>>
-------------------------------------------------------------------------------
(* Crashes of the process: what was written stays on disk.  The memory is   *)
(* lost; its last contents stay in the variables, which nothing reads until *)
(* Restart has set them again.                                              *)

LoseMemory ==
    /\ alive' = FALSE
    /\ cleaner' = "idle" /\ pending' = {} /\ cycleTime' = 0 /\ keyLatestOffset' = {}

Crash ==
    /\ alive
    /\ cleaner = "swap" => "swap" \in Faults
    /\ cleaner # "swap" => "crash" \in Faults
    /\ LoseMemory
    /\ UNCHANGED <<now, disk, mem, history>>

\* The process dies in an append: the segment may have been created and the
\* index entry written, the record is not.
CrashInAppend ==
    LET b == AppendTarget IN
    /\ "append" \in Faults
    /\ alive /\ ~Locked /\ LEO < MaxOffset
    /\ segments' = segments \cup {b}
    /\ modTime' = IF b = activeSegment THEN modTime ELSE [modTime EXCEPT ![b] = now]
    /\ \/ index' = [index EXCEPT ![b] = IndexAfterAppend(b)]
       \/ UNCHANGED index
    /\ LoseMemory
    /\ UNCHANGED <<now, logFile, mem, history>>

\* recoverState: the offset after the last record, found by counting.
RecoveredNextOffsetMutant(b) == b + Cardinality({r \in logFile[b] : r.offset # b})
RecoveredNextOffset(b) == b + Cardinality(logFile[b])

\* NewPartitionLog: loadSegments opens every .log file, recoverState counts
\* its records.
Restart ==
    /\ ~alive
    /\ alive' = TRUE
    /\ \E b \in segments : (\A c \in segments : c <= b) /\ activeSegment' = b
    /\ nextOffset' = [b \in Offsets |-> RecoveredNextOffset(b)]
    /\ currentSize' = [b \in Offsets |-> Cardinality(logFile[b])]
    /\ lastIndexBytes' = [b \in Offsets |-> 0]
    /\ opened' = [b \in Offsets |-> TRUE]
    /\ UNCHANGED <<now, disk, clean, history>>
-------------------------------------------------------------------------------
CleanerStep == \/ CycleBegin \/ TimeRetention \/ SizeCheck \/ SizeRemove
               \/ CompactBegin \/ SkipSegment \/ ReplaceLog \/ ReplaceIndex

Next == \/ \E k \in Keys \cup {NoKey}, v \in Values \cup {Empty} : Append(k, v)
        \/ Tick
        \/ CleanerStep
        \/ RenameFails \/ IndexRenameFails
        \/ Crash \/ CrashInAppend \/ Restart

\* The cleaner goroutine is scheduled whenever it can run, and a broker that
\* died is started again.
Fairness == WF_vars(CleanerStep) /\ WF_vars(Restart)

Spec == Init /\ [][Next]_vars /\ Fairness
-------------------------------------------------------------------------------
(* Properties *)

AllRecords == UNION {logFile[b] : b \in segments}

\* Every variable has its type, and a base offset that is not a segment has no
\* files and no state.
TypeOK ==
    /\ alive \in BOOLEAN /\ now \in Nat
    /\ segments \subseteq Offsets /\ activeSegment \in Offsets
    /\ logFile \in [Offsets -> SUBSET Record]
    /\ index \in [Offsets -> SUBSET Entry]
    /\ modTime \in [Offsets -> Nat]
    /\ nextOffset \in [Offsets -> Offsets]
    /\ currentSize \in [Offsets -> Nat] /\ lastIndexBytes \in [Offsets -> Nat]
    /\ opened \in [Offsets -> BOOLEAN]
    /\ cleaner \in {"idle", "time", "size", "sizeRemove", "compact", "rewrite", "swap"}
    /\ pending \subseteq Offsets /\ cycleTime \in Nat
    /\ keyLatestOffset \subseteq (Keys \X Offsets)
    /\ newest \in [Keys -> Record \cup {None}] /\ interrupted \subseteq segments
    /\ \A b \in Offsets \ segments :
        logFile[b] = {} /\ index[b] = {} /\ nextOffset[b] = b /\ currentSize[b] = 0

\* A segment holds only offsets between its base and the base of the next one,
\* and an offset names one record: over rolls, retention, compaction and
\* restarts no offset is ever given to a second record (Append, roll,
\* recoverState).
OffsetsUnique ==
    /\ \A b \in segments : \A r \in logFile[b] :
        /\ b <= r.offset /\ r.offset < LEO
        /\ \A c \in segments : b < c => r.offset < c
    /\ \A r, q \in AllRecords : r.offset = q.offset => r = q

\* The log end offset never goes back, over a crash and restart either: a
\* consumer's position stays valid and a new record is never hidden below it
\* (roll, recoverState).
LEOMonotone == [][LEO' >= LEO]_vars

\* Compaction keeps the last record of every key that has a value, and a
\* deleted key never comes back, even when the process dies half way through
\* CompactSegments: the latest record of a key on disk is the last one
\* appended, or the key is gone because that one was a tombstone or fell below
\* the log start.
KeyViewExact ==
    \A k \in Keys :
        LET onDisk == {r \in AllRecords : r.key = k} IN
        \/ /\ newest[k] \in onDisk
           /\ \A r \in onDisk : r.offset <= newest[k].offset
        \/ /\ onDisk = {}
           /\ \/ newest[k].value = Empty
              \/ \A b \in segments : newest[k].offset < b

\* For every offset in the range of segment b, the read returns all the
\* records of the segment from there on.
ReadsInRange(b) ==
    opened[b] => \A o \in b..(nextOffset[b] - 1) :
                    SegmentRead(b, o) = {r \in logFile[b] : r.offset >= o}

\* Only an interrupted replaceContents can leave an index that makes a read
\* skip records: appends, crashes in the middle of an append, restarts and
\* finished compactions never do (Index.Lookup, Segment.Append).
IndexSound == (alive /\ ~Locked) => \A b \in segments \ interrupted : ReadsInRange(b)

\* A read from any offset the log covers returns every record from there on,
\* whatever was rolled, removed or compacted before (PartitionLog.Read).
ReadComplete ==
    (alive /\ ~Locked) =>
        \A o \in Offsets : (\E b \in segments : b <= o) /\ ~ReadErr(o)
                            => Read(o) = {r \in AllRecords : r.offset >= o}

\* A consumer never gets stuck: from any offset the log covers, as long as there
\* is a record at or above it, a fetch whose limit exceeds the index interval
\* by a record returns one (ReadZeroCopy, Segment.Append, handleFetch).
FetchProgress ==
    (alive /\ ~Locked) =>
        \A o \in Offsets :
            (\E b \in segments : b <= o) /\ (\E r \in AllRecords : r.offset >= o)
            => \E r \in ReadZeroCopy(o) : r.offset >= o

\* When size retention removes a segment the partition is over its limit at
\* that moment, although the size was read in an earlier step
\* (cleanSizeRetention).
SizeRetentionJustified ==
    [][cleaner = "sizeRemove" /\ segments' # segments => TotalSize > RetentionBytes]_vars

\* A clean cycle always ends, so CompactSegments always releases the lock that
\* appends and reads wait for (RunCleanCycle).
CycleCompletes == cleaner # "idle" ~> cleaner = "idle"

\* Once producers stop, size retention brings the partition below its limit,
\* or down to the active segment (cleanSizeRetention).
SizeRetentionConverges ==
    RetentionBytes > 0 => <>[](TotalSize <= RetentionBytes \/ segments = {activeSegment})

\* Closed segments older than RetentionMs are removed at last, although every
\* segment that has expired removes the oldest one, which may be another
\* (cleanTimeRetention).
TimeRetentionConverges ==
    RetentionMs > 0 => <>[](\A b \in NonActiveSegments : now - modTime[b] <= RetentionMs)

\* The partition implements the abstract commit log, crashes and restarts
\* included: segments, indexes and the cleaner's steps are invisible.
DiskEnd == Max(segments) + Cardinality(logFile[Max(segments)])
Abstract == INSTANCE CommitLog WITH log <- AllRecords, start <- Min(segments), end <- DiskEnd
ImplementsCommitLog == Abstract!Spec
===============================================================================
