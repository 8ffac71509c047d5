-------------------------- MODULE PartitionLogProofs --------------------------
(***************************************************************************)
(* Proofs about PartitionLog, for any keys and values, segment size, index *)
(* interval, retention and compaction settings, bounds and faults.         *)
(*                                                                         *)
(* Neither TypeOK nor OffsetsUnique is inductive.  Both rest on Shape: the *)
(* last segment on disk always ends at the log end offset, in memory and   *)
(* over a crash; the active segment is that last one and no cleaner step   *)
(* touches it; and a segment stays below the base offset of the next.      *)
(*                                                                         *)
(* On Shape rest further invariants, one for each of the other properties: *)
(* Indexed for IndexSound, Keyed for KeyViewExact, Ended for ReadComplete, *)
(* Dense for FetchProgress and Justified for SizeRetentionJustified.       *)
(* Indexed, Keyed and Ended together give the refinement of CommitLog.     *)
(***************************************************************************)
EXTENDS PartitionLog, FiniteSetTheorems, WellFoundedInduction, TLAPS

\* The records of a segment lie between its base offset and the next one, below
\* the log end, and no two have the same offset.
Layout ==
    \A b \in segments :
        /\ \A r \in logFile[b] : b <= r.offset /\ r.offset < LEO
        /\ \A c \in segments : b < c => \A r \in logFile[b] : r.offset < c
        /\ \A r, q \in logFile[b] : r.offset = q.offset => r = q

\* Every log file holds finitely many records and ends within the bound.
Counted ==
    \A b \in Offsets : IsFiniteSet(logFile[b]) /\ b + Cardinality(logFile[b]) <= MaxOffset

\* Counting the records of the last log file gives the log end offset.
EndsAtLEO ==
    \A b \in segments : (\A c \in segments : c <= b) => b + Cardinality(logFile[b]) = LEO

\* A running broker appends to the last segment, and knows its size.
ActiveIsLast ==
    /\ activeSegment \in segments
    /\ alive => \A b \in segments : b <= activeSegment
    /\ alive => currentSize[activeSegment] = Cardinality(logFile[activeSegment])

\* The cleaner rewrites closed segments only, and only in a running broker.
CleanerClosed ==
    /\ Locked => pending \subseteq segments \ {activeSegment}
    /\ ~alive => cleaner = "idle"

Shape == Layout /\ Counted /\ EndsAtLEO /\ ActiveIsLast /\ CleanerClosed

IInv == TypeOK /\ Shape

\* An entry of the index never points behind the first record it is for, unless
\* the log was replaced under the index; a read from the base offset of a
\* segment always starts at the beginning of the file, and is never refused as
\* beyond the end.
EntriesBelow == \A b \in segments \ interrupted : \A e \in index[b] :
                    e.pos <= Position(e.offset, logFile[b])
FirstEntry   == \A b \in segments : \A e \in index[b] : e.offset <= b => e.pos = 0
EndKnown     == \A b \in segments : logFile[b] # {} => b < nextOffset[b]
Indexed == EntriesBelow /\ FirstEntry /\ EndKnown

\* The records of a segment that have a key are the last ones of their keys.
Latest(b) == \A r \in logFile[b] : r.key \in Keys => r = newest[r.key]

\* While CompactSegments runs, its map names the last record of every key on
\* disk and no other.
Mapped ==
    \A k \in Keys :
        /\ \A o \in Offsets : <<k, o>> \in keyLatestOffset => o = newest[k].offset
        /\ newest[k] \in AllRecords /\ newest[k].key = k => <<k, newest[k].offset>> \in keyLatestOffset

\* It goes from the oldest segment to the newest one, and those behind it hold
\* nothing that a later record replaces.
Compacted ==
    /\ \A b \in pending, c \in segments \ {activeSegment} : b < c => c \in pending
    /\ \A b \in segments \ (pending \cup {activeSegment}) : Latest(b)
    /\ cleaner = "swap" => \A b \in pending : NextToCompact(b) => Latest(b)

NewestBelow == \A k \in Keys : newest[k].offset < LEO
Keyed == KeyViewExact /\ NewestBelow /\ (Locked => Mapped /\ Compacted)

\* Without compaction, or without a fault that makes the broker count the
\* records of a compacted segment again or leaves an old index behind.
NeverRecounted == CompactionEnabled => Faults \subseteq {"rename"}

\* Then the next offset of a segment is above all its records, and an index is
\* old only between the two renames.
EndsAbove == \A b \in segments : \A r \in logFile[b] : r.offset < nextOffset[b]
OnlySwapping == \A b \in interrupted : cleaner = "swap" /\ NextToCompact(b)
ByCounting ==
    /\ CompactionEnabled => alive
    /\ ~CompactionEnabled =>
          /\ \A b \in segments : nextOffset[b] = b + Cardinality(logFile[b])
          /\ cleaner \notin {"compact", "rewrite", "swap"}
Ended == NeverRecounted => EndsAbove /\ OnlySwapping /\ ByCounting

\* Without compaction, or without a fault at all.
NeverFails == CompactionEnabled => Faults = {}

\* Then the handles of a segment are closed only between the two renames.
Handles == NeverFails => \A b \in Offsets : opened[b] \/ b \in interrupted

JInv == IInv /\ Indexed /\ Keyed /\ Ended

\* The entries of an index give exact positions, and any offset that has
\* records below it has an entry at most IndexStep records before it.
Located(I, R) == \A e \in I : e.pos = Position(e.offset, R)
Covers(I, R) ==
    \A o \in Offsets : Position(o, R) > 0 =>
        \E e \in I : e.offset <= o /\ Position(o, R) <= e.pos + IndexStep

\* So it is in every segment whose log was not replaced under its index; and the
\* active segment knows where its last entry is, or believes that it is further
\* back.
Exact == \A b \in segments \ interrupted :
             /\ Located(index[b], logFile[b]) /\ Covers(index[b], logFile[b])
             /\ \A e \in index[b] : e.offset <= LEO
LastEntry ==
    alive /\ activeSegment \notin interrupted /\ logFile[activeSegment] # {} =>
        \E e \in index[activeSegment] : lastIndexBytes[activeSegment] <= e.pos
Dense == Exact /\ LastEntry
-------------------------------------------------------------------------------
LEMMA OffsetsNat ==
    /\ \A o \in Offsets : o \in Nat /\ o <= MaxOffset
    /\ \A o \in Nat : o <= MaxOffset => o \in Offsets
  BY ConstantsAssumption DEF Offsets

LEMMA RecordFields ==
    ASSUME NEW o \in Offsets, NEW k \in Keys \cup {NoKey}, NEW v \in Values \cup {Empty}
    PROVE  Rec(o, k, v) \in Record /\ Rec(o, k, v).offset = o /\ Rec(o, k, v).key = k
  BY DEF Rec, Record

LEMMA RecordTyped ==
    ASSUME TypeOK, NEW b \in Offsets, NEW r \in logFile[b]
    PROVE  r \in Record /\ r.offset \in Offsets /\ r.offset \in Int
<1>1. r \in Record
  BY DEF TypeOK
<1> QED
  BY <1>1, OffsetsNat DEF Record

LEMMA LEOTyped ==
    ASSUME IInv
    PROVE  /\ LEO \in Offsets /\ LEO \in Nat /\ activeSegment \in Offsets
           /\ segments \subseteq Offsets /\ segments \subseteq Nat
  BY OffsetsNat DEF IInv, TypeOK, LEO

\* The number of records of a log file, and of any part of it, is a natural
\* number.
LEMMA CountedNat ==
    ASSUME Counted, NEW b \in Offsets, NEW R \in SUBSET logFile[b]
    PROVE  /\ IsFiniteSet(R) /\ Cardinality(R) \in Nat /\ (Cardinality(R) = 0 <=> R = {})
           /\ Cardinality(R) <= Cardinality(logFile[b]) /\ Cardinality(logFile[b]) \in Nat
<1>1. IsFiniteSet(logFile[b])
  BY DEF Counted
<1>2. IsFiniteSet(R) /\ Cardinality(R) <= Cardinality(logFile[b])
  BY <1>1, FS_Subset
<1> QED
  BY <1>1, <1>2, FS_CardinalityType, FS_EmptySet

\* The initial partition has one empty segment.
LEMMA InitInv == Init => IInv
<1> SUFFICES ASSUME Init PROVE IInv
  OBVIOUS
<1> USE ConstantsAssumption
<1>1. 0 \in Offsets /\ \A b \in Offsets : b \in Nat /\ b <= MaxOffset
  BY DEF Offsets
<1>2. IsFiniteSet({}) /\ Cardinality({}) = 0
  BY FS_EmptySet
<1>3. TypeOK
  BY <1>1 DEF Init, TypeOK
<1>4. Shape
  BY <1>1, <1>2 DEF Init, Shape, Layout, Counted, EndsAtLEO, ActiveIsLast, CleanerClosed, LEO, Locked
<1> QED
  BY <1>3, <1>4 DEF IInv

\* A step that leaves the files and the segments' state alone keeps Shape, as
\* long as the cleaner stays with closed segments.
LEMMA ShapeUnmoved ==
    ASSUME IInv, UNCHANGED <<alive, segments, activeSegment, logFile, nextOffset>>,
           UNCHANGED currentSize \/ (currentSize'[activeSegment] = currentSize[activeSegment]),
           CleanerClosed'
    PROVE  Shape'
  BY DEF IInv, Shape, Layout, Counted, EndsAtLEO, ActiveIsLast, LEO
-------------------------------------------------------------------------------
(* Append *)

\* An append goes to the active segment, or to a new one that starts at the
\* log end; either way its file ends there.
LEMMA AppendTargetFacts ==
    ASSUME IInv, alive, LEO < MaxOffset
    PROVE  /\ AppendTarget \in Offsets
           /\ AppendTarget + Cardinality(logFile[AppendTarget]) = LEO
           /\ currentSize[activeSegment] = Cardinality(logFile[activeSegment])
           /\ \A b \in segments : b <= AppendTarget
           /\ AppendTarget = activeSegment
                \/ (AppendTarget = LEO /\ AppendTarget \notin segments
                        /\ logFile[AppendTarget] = {} /\ index[AppendTarget] = {})
<1> DEFINE a == activeSegment
<1>1. /\ a \in segments /\ \A b \in segments : b <= a
      /\ currentSize[a] = Cardinality(logFile[a]) /\ a + Cardinality(logFile[a]) = LEO
  BY DEF IInv, Shape, ActiveIsLast, EndsAtLEO
<1>2. LEO \in Offsets /\ LEO \in Nat /\ a \in Offsets /\ a \in Nat /\ segments \subseteq Nat
  BY LEOTyped, OffsetsNat
<1>3. CASE ~IsFull(a)
  BY <1>1, <1>2, <1>3 DEF AppendTarget
<1>4. CASE IsFull(a)
  <2>1. Cardinality(logFile[a]) >= 1
    <3>1. Cardinality(logFile[a]) \in Nat /\ currentSize[a] >= MaxSegmentBytes
      BY <1>2, <1>4, CountedNat DEF IsFull, IInv, Shape
    <3> QED
      BY <1>1, <3>1, ConstantsAssumption
  <2>2. \A b \in segments : b < LEO
    BY <1>1, <1>2, <2>1, CountedNat DEF IInv, Shape
  <2>3. AppendTarget = LEO /\ LEO \notin segments
    BY <1>2, <1>4, <2>2 DEF AppendTarget
  <2>4. logFile[LEO] = {} /\ index[LEO] = {}
    BY <1>2, <2>3 DEF IInv, TypeOK
  <2>5. Cardinality(logFile[LEO]) = 0
    BY <2>4, FS_EmptySet
  <2> QED
    BY <1>1, <1>2, <2>2, <2>3, <2>4, <2>5
<1> QED
  BY <1>3, <1>4

\* The entry an append adds to the index is an index entry.
LEMMA IndexAfterAppendTyped ==
    ASSUME IInv, NEW b \in Offsets
    PROVE  IndexAfterAppend(b) \in SUBSET Entry
<1>1. LEO \in Offsets /\ currentSize[b] \in Nat /\ index[b] \in SUBSET Entry
  BY LEOTyped DEF IInv, TypeOK
<1>2. [offset |-> LEO, pos |-> currentSize[b]] \in Entry
  BY <1>1 DEF Entry
<1> QED
  BY <1>1, <1>2 DEF IndexAfterAppend

LEMMA AppendInv ==
    ASSUME IInv, NEW k \in Keys \cup {NoKey}, NEW v \in Values \cup {Empty}, Append(k, v)
    PROVE  IInv' /\ LEO' = LEO + 1
<1> DEFINE b == AppendTarget
           new == Rec(LEO, k, v)
<1>1. /\ b \in Offsets /\ b + Cardinality(logFile[b]) = LEO
      /\ currentSize[activeSegment] = Cardinality(logFile[activeSegment])
      /\ \A c \in segments : c <= b
      /\ b = activeSegment \/ (b = LEO /\ b \notin segments /\ logFile[b] = {})
  BY AppendTargetFacts DEF Append
<1>2. /\ LEO \in Offsets /\ LEO \in Nat /\ LEO + 1 \in Offsets /\ LEO < MaxOffset
      /\ segments \subseteq Nat /\ b \in Nat
  BY <1>1, LEOTyped, OffsetsNat, ConstantsAssumption DEF Append
<1>3. new \in Record /\ new.offset = LEO
  BY <1>2, RecordFields
<1>4. /\ alive /\ alive' = alive /\ UNCHANGED <<now, clean, interrupted, opened>> /\ ~Locked
      /\ segments' = segments \cup {b} /\ activeSegment' = b
      /\ logFile' = [logFile EXCEPT ![b] = logFile[b] \cup {new}]
      /\ nextOffset' = [nextOffset EXCEPT ![b] = LEO + 1]
      /\ currentSize' = [currentSize EXCEPT ![b] = currentSize[b] + 1]
      /\ index' = [index EXCEPT ![b] = IndexAfterAppend(b)]
      /\ modTime' = [modTime EXCEPT ![b] = now]
  BY DEF Append
<1>5. newest' \in [Keys -> Record \cup {None}]
  BY <1>3 DEF Append, IInv, TypeOK
<1>6. lastIndexBytes' \in [Offsets -> Nat]
  BY <1>1 DEF Append, IInv, TypeOK
<1> HIDE DEF b, new
<1>7. LEO' = LEO + 1
  BY <1>1, <1>4 DEF LEO, IInv, TypeOK
<1>8. /\ IsFiniteSet(logFile[b]) /\ new \notin logFile[b]
      /\ b \in segments \/ logFile[b] = {}
  <2>1. b \in segments \/ logFile[b] = {}
    BY <1>1 DEF IInv, Shape, ActiveIsLast
  <2>2. \A r \in logFile[b] : r.offset < LEO
    BY <2>1 DEF IInv, Shape, Layout
  <2> QED
    BY <1>1, <1>2, <1>3, <2>1, <2>2 DEF IInv, Shape, Counted
<1>9. Cardinality(logFile[b] \cup {new}) = Cardinality(logFile[b]) + 1 /\ IsFiniteSet(logFile[b] \cup {new})
  BY <1>8, FS_AddElement
<1>10. TypeOK'
  <2>1. (segments \subseteq Offsets /\ activeSegment \in Offsets /\ interrupted \subseteq segments)'
    BY <1>1, <1>4 DEF IInv, TypeOK
  <2>2. (logFile \in [Offsets -> SUBSET Record] /\ modTime \in [Offsets -> Nat])'
    BY <1>3, <1>4 DEF IInv, TypeOK
  <2>3. (index \in [Offsets -> SUBSET Entry])'
    <3>1. IndexAfterAppend(b) \in SUBSET Entry
      BY <1>1, IndexAfterAppendTyped
    <3> QED
      BY <1>4, <3>1 DEF IInv, TypeOK
  <2>4. (nextOffset \in [Offsets -> Offsets] /\ currentSize \in [Offsets -> Nat])'
    BY <1>1, <1>2, <1>4 DEF IInv, TypeOK
  <2>5. (\A c \in Offsets \ segments : /\ logFile[c] = {} /\ index[c] = {} /\ nextOffset[c] = c
                                       /\ currentSize[c] = 0)'
    BY <1>4 DEF IInv, TypeOK
  <2> QED
    BY <1>4, <1>5, <1>6, <2>1, <2>2, <2>3, <2>4, <2>5 DEF IInv, TypeOK, clean
<1>11. Layout'
  <2>1. \A c \in segments : c # b => logFile'[c] = logFile[c]
    BY <1>4, LEOTyped DEF IInv, TypeOK
  <2>2. logFile'[b] = logFile[b] \cup {new}
    BY <1>1, <1>4 DEF IInv, TypeOK
  <2>3. \A c \in segments : \A r \in logFile[c] :
            c <= r.offset /\ r.offset < LEO /\ r.offset \in Int
    BY LEOTyped, RecordTyped DEF IInv, Shape, Layout
  <2>4. \A r \in logFile[b] : r.offset < LEO /\ b <= r.offset /\ r.offset \in Int
    BY <1>8, <2>3
  <2>5. \A c \in segments : c # b => c < b /\ \A r \in logFile[c] : r.offset < b
    BY <1>1, <1>2, <2>3 DEF IInv, Shape, Layout, ActiveIsLast
  <2>6. b <= LEO
    BY <1>1, <1>2, <1>8, FS_CardinalityType
  <2>7. ASSUME NEW c \in segments' PROVE \A r \in logFile'[c] : c <= r.offset /\ r.offset < LEO'
    BY <1>2, <1>3, <1>4, <1>7, <2>1, <2>2, <2>3, <2>4, <2>6
  <2>8. ASSUME NEW c \in segments', NEW d \in segments', c < d
        PROVE  \A r \in logFile'[c] : r.offset < d
    <3>1. c # b /\ c \in segments
      BY <1>1, <1>2, <1>4, <2>8
    <3>2. CASE d = b
      BY <2>1, <2>5, <3>1, <3>2
    <3>3. CASE d # b
      BY <1>4, <2>1, <2>8, <3>1, <3>3 DEF IInv, Shape, Layout
    <3> QED
      BY <3>2, <3>3
  <2>9. ASSUME NEW c \in segments', NEW r \in logFile'[c], NEW q \in logFile'[c], r.offset = q.offset
        PROVE  r = q
    <3>1. CASE c # b
      BY <1>4, <2>1, <2>9, <3>1 DEF IInv, Shape, Layout
    <3>2. CASE c = b
      BY <1>2, <1>3, <1>8, <2>2, <2>4, <2>9, <3>2 DEF IInv, Shape, Layout
    <3> QED
      BY <3>1, <3>2
  <2> QED
    BY <2>7, <2>8, <2>9 DEF Layout
<1>12. Counted'
  <2>1. ASSUME NEW c \in Offsets PROVE (IsFiniteSet(logFile[c]) /\ c + Cardinality(logFile[c]) <= MaxOffset)'
    <3>1. CASE c = b
      <4>1. Cardinality(logFile[b]) \in Nat
        BY <1>8, FS_CardinalityType
      <4>2. logFile'[c] = logFile[b] \cup {new}
        BY <1>1, <1>4, <3>1 DEF IInv, TypeOK
      <4> QED
        BY <1>1, <1>2, <1>9, <3>1, <4>1, <4>2, ConstantsAssumption
    <3>2. CASE c # b
      BY <1>4, <3>2 DEF IInv, TypeOK, Shape, Counted
    <3> QED
      BY <3>1, <3>2
  <2> QED
    BY <2>1 DEF Counted
<1>13. EndsAtLEO' /\ ActiveIsLast'
  <2>1. \A c \in segments' : c <= b
    BY <1>1, <1>2, <1>4
  <2>2. \A c \in segments' : (\A d \in segments' : d <= c) => c = b
    BY <1>2, <1>4, <2>1
  <2>3. Cardinality(logFile[b]) \in Nat /\ Cardinality(logFile'[b]) = Cardinality(logFile[b]) + 1
    BY <1>1, <1>4, <1>8, <1>9, FS_CardinalityType DEF IInv, TypeOK
  <2>4. currentSize[b] = Cardinality(logFile[b])
    <3>1. CASE b = activeSegment
      BY <1>1, <3>1
    <3>2. CASE b # activeSegment
      <4>1. b \notin segments
        BY <1>1, <3>2
      <4>2. currentSize[b] = 0 /\ Cardinality(logFile[b]) = 0
        BY <1>1, <4>1, <1>8, FS_EmptySet DEF IInv, TypeOK
      <4> QED
        BY <4>2
    <3> QED
      BY <3>1, <3>2
  <2>5. currentSize'[b] = Cardinality(logFile'[b])
    BY <1>1, <1>4, <2>3, <2>4 DEF IInv, TypeOK
  <2>6. EndsAtLEO'
    BY <1>1, <1>2, <1>7, <2>2, <2>3 DEF EndsAtLEO
  <2> QED
    BY <1>4, <2>1, <2>5, <2>6 DEF ActiveIsLast
<1>14. CleanerClosed'
  BY <1>4 DEF CleanerClosed, Locked, clean
<1> QED
  BY <1>7, <1>10, <1>11, <1>12, <1>13, <1>14 DEF IInv, Shape
-------------------------------------------------------------------------------
(* RemoveOldestSegment *)

\* The segment removed is not the active one.
LEMMA OldestIsClosed ==
    ASSUME IInv, alive, CanRemove, NEW b \in segments, IsOldest(b)
    PROVE  b # activeSegment /\ \E c \in segments : b < c
<1>1. segments # {b}
  BY FS_Singleton DEF CanRemove
<1>2. PICK c \in segments : c # b
  BY <1>1
<1>3. b < c /\ c <= activeSegment
  BY <1>2, LEOTyped DEF IsOldest, IInv, Shape, ActiveIsLast
<1> QED
  BY <1>3, LEOTyped

LEMMA RemoveInv ==
    ASSUME IInv, alive, ~Locked, CanRemove, RemoveOldestSegment,
           UNCHANGED <<alive, now, keyLatestOffset>>, cycleTime' \in Nat, pending' \subseteq Offsets,
           cleaner' \in {"idle", "time", "size", "sizeRemove", "compact"}
    PROVE  IInv' /\ LEO' = LEO
<1>1. PICK b \in segments :
        /\ IsOldest(b)
        /\ segments' = segments \ {b}
        /\ RemoveFiles(b)
        /\ nextOffset' = [nextOffset EXCEPT ![b] = b]
        /\ currentSize' = [currentSize EXCEPT ![b] = 0]
        /\ lastIndexBytes' = [lastIndexBytes EXCEPT ![b] = 0]
        /\ opened' = [opened EXCEPT ![b] = TRUE]
        /\ interrupted' = interrupted \ {b}
  BY DEF RemoveOldestSegment
<1>2. UNCHANGED <<activeSegment, newest>>
  BY DEF RemoveOldestSegment
<1>3. b # activeSegment /\ \E c \in segments : b < c
  BY <1>1, OldestIsClosed
<1>4. /\ logFile' = [logFile EXCEPT ![b] = {}] /\ index' = [index EXCEPT ![b] = {}]
      /\ modTime' = [modTime EXCEPT ![b] = 0] /\ b \in Offsets
  BY <1>1, LEOTyped DEF RemoveFiles
<1>5. /\ \A c \in segments' : c \in segments /\ c # b
      /\ \A c \in Offsets : c # b => logFile'[c] = logFile[c] /\ currentSize'[c] = currentSize[c]
      /\ logFile'[b] = {} /\ activeSegment \in segments'
  BY <1>1, <1>3, <1>4 DEF IInv, TypeOK, Shape, ActiveIsLast
<1>6. LEO' = LEO
  BY <1>1, <1>2, <1>3, LEOTyped DEF LEO, IInv, TypeOK
<1>7. TypeOK'
  <2>1. (segments \subseteq Offsets /\ activeSegment \in Offsets /\ interrupted \subseteq segments)'
    BY <1>1, <1>2 DEF IInv, TypeOK
  <2>2. (logFile \in [Offsets -> SUBSET Record] /\ index \in [Offsets -> SUBSET Entry]
            /\ modTime \in [Offsets -> Nat])'
    BY <1>4 DEF IInv, TypeOK
  <2>3. (nextOffset \in [Offsets -> Offsets] /\ currentSize \in [Offsets -> Nat]
            /\ lastIndexBytes \in [Offsets -> Nat] /\ opened \in [Offsets -> BOOLEAN])'
    BY <1>1, <1>4 DEF IInv, TypeOK
  <2>4. (\A c \in Offsets \ segments : /\ logFile[c] = {} /\ index[c] = {} /\ nextOffset[c] = c
                                       /\ currentSize[c] = 0)'
    BY <1>1, <1>4 DEF IInv, TypeOK
  <2> QED
    BY <1>2, <2>1, <2>2, <2>3, <2>4 DEF IInv, TypeOK
<1>8. Layout'
  BY <1>5, <1>6, LEOTyped DEF IInv, Shape, Layout
<1>9. Counted'
  <2>1. IsFiniteSet({}) /\ Cardinality({}) = 0
    BY FS_EmptySet
  <2> QED
    <3>1. ASSUME NEW c \in Offsets, c # b
          PROVE  IsFiniteSet(logFile'[c]) /\ c + Cardinality(logFile'[c]) <= MaxOffset
      BY <1>5, <3>1 DEF IInv, Shape, Counted
    <3>2. IsFiniteSet(logFile'[b]) /\ b + Cardinality(logFile'[b]) <= MaxOffset
      <4>1. IsFiniteSet(logFile'[b]) /\ Cardinality(logFile'[b]) = 0
        BY <1>5, <2>1
      <4>2. b \in Nat /\ b <= MaxOffset
        BY <1>4, OffsetsNat
      <4> QED
        BY <4>1, <4>2
    <3> QED
      BY <3>1, <3>2 DEF Counted
<1>10. EndsAtLEO'
  <2>1. ASSUME NEW c \in segments', \A d \in segments' : d <= c PROVE \A d \in segments : d <= c
    <3>1. c \in segments /\ b <= c
      BY <1>1, <1>5 DEF IsOldest
    <3>2. \A d \in segments : d = b \/ d \in segments'
      BY <1>1
    <3> QED
      BY <2>1, <3>1, <3>2
  <2> QED
    BY <1>5, <1>6, <2>1, LEOTyped DEF IInv, Shape, EndsAtLEO
<1>11. ActiveIsLast'
  BY <1>2, <1>3, <1>5, LEOTyped DEF IInv, Shape, ActiveIsLast
<1>12. CleanerClosed'
  BY DEF CleanerClosed, Locked
<1> QED
  BY <1>6, <1>7, <1>8, <1>9, <1>10, <1>11, <1>12 DEF IInv, Shape
-------------------------------------------------------------------------------
(* The cleaner cycle *)

\* The positions replaceContents computes are natural numbers.
LEMMA RebuiltTyped ==
    ASSUME IInv, NEW b \in Offsets
    PROVE  /\ RebuiltIndex(logFile[b]) \in SUBSET Entry
           /\ RebuiltLastIndexBytes(logFile[b]) \in Nat
           /\ Cardinality(logFile[b]) \in Nat
<1> DEFINE R == logFile[b]
<1>1. \A S \in SUBSET R : Cardinality(S) \in Nat /\ (Cardinality(S) = 0 <=> S = {})
  BY CountedNat DEF IInv, Shape
<1>2. \A r \in R : Position(r.offset, R) \in Nat /\ r.offset \in Offsets
  BY <1>1, RecordTyped DEF Position, IInv
<1>3. RebuiltIndex(R) \in SUBSET Entry
  BY <1>2 DEF RebuiltIndex, Entry
<1>4. IndexStep \in Nat \ {0} /\ Cardinality(R) \in Nat /\ (R # {} => Cardinality(R) - 1 \in Nat)
  BY <1>1, ConstantsAssumption DEF IndexStep
<1>5. R # {} => (Cardinality(R) - 1) \div IndexStep \in Nat
  BY <1>4
<1>6. RebuiltLastIndexBytes(R) \in Nat
  BY <1>4, <1>5 DEF RebuiltLastIndexBytes
<1> QED
  BY <1>1, <1>3, <1>6

\* A step of the cleaner that only decides where to go next.
LEMMA DecideInv ==
    ASSUME IInv, CycleBegin \/ SizeCheck \/ CompactBegin \/ SkipSegment \/ IndexRenameFails
    PROVE  IInv' /\ LEO' = LEO
<1>1. /\ alive /\ alive' = alive /\ UNCHANGED <<now, disk, mem, history>>
      /\ pending' \subseteq pending \cup (segments \ {activeSegment})
      /\ cycleTime' \in {cycleTime, now, 0}
  BY DEF CycleBegin, SizeCheck, CompactBegin, SkipSegment, IndexRenameFails, Visited, CompactDone,
         NonActiveSegments, ClosedSegments
<1>2. cleaner' \in {"idle", "time", "size", "sizeRemove", "compact", "rewrite"}
  BY DEF CycleBegin, SizeCheck, CompactBegin, SkipSegment, IndexRenameFails, Visited, CompactDone,
         AfterTimeRetention, AfterSizeRetention
<1>3. keyLatestOffset' \subseteq (Keys \X Offsets)
  <2>1. CASE CompactBegin
    <3> DEFINE S == UNION {SegmentRead(b, b) : b \in segments}
    <3>1. \A r \in S : r \in Record
      BY DEF SegmentRead, IInv, TypeOK
    <3>2. LatestPairs(S) \subseteq (Keys \X Offsets)
      BY <3>1 DEF LatestPairs, Record
    <3> QED
      BY <2>1, <3>2 DEF CompactBegin, IInv, TypeOK
  <2>2. CASE ~CompactBegin
    BY <2>2 DEF CycleBegin, SizeCheck, SkipSegment, IndexRenameFails, Visited, CompactDone,
                IInv, TypeOK
  <2> QED
    BY <2>1, <2>2
<1>4. CleanerClosed'
  <2>1. CASE CompactBegin
    BY <1>1, <2>1 DEF CompactBegin, ClosedSegments, CleanerClosed, Locked, disk, mem
  <2>2. CASE SkipSegment
    <3>1. pending \subseteq segments \ {activeSegment}
      BY <2>2 DEF SkipSegment, IInv, Shape, CleanerClosed, Locked
    <3> QED
      BY <1>1, <3>1 DEF CleanerClosed, disk, mem
  <2>3. CASE CycleBegin \/ SizeCheck \/ IndexRenameFails
    <3>1. ~Locked'
      BY <2>3 DEF CycleBegin, SizeCheck, IndexRenameFails, CompactDone, Locked, AfterTimeRetention,
                  AfterSizeRetention
    <3> QED
      BY <1>1, <3>1 DEF CleanerClosed
  <2> QED
    BY <2>1, <2>2, <2>3
<1>5. TypeOK'
  BY <1>1, <1>2, <1>3 DEF IInv, TypeOK, disk, mem, history
<1>6. Shape' /\ LEO' = LEO
  BY <1>1, <1>4, ShapeUnmoved DEF disk, mem, LEO
<1> QED
  BY <1>5, <1>6 DEF IInv

LEMMA TimeRetentionInv == ASSUME IInv, TimeRetention PROVE IInv' /\ LEO' = LEO
<1>1. PICK b \in pending :
        /\ IF Expired(b) /\ CanRemove
             THEN RemoveOldestSegment ELSE UNCHANGED <<disk, mem, history>>
        /\ IF pending = {b}
             THEN TimeDone ELSE pending' = pending \ {b} /\ UNCHANGED <<cleaner, cycleTime>>
  BY DEF TimeRetention
<1>2. /\ alive /\ cleaner = "time" /\ ~Locked /\ UNCHANGED <<alive, now, keyLatestOffset>>
  BY DEF TimeRetention, Locked
<1>3. /\ cycleTime' \in Nat /\ pending' \subseteq Offsets /\ cleaner' \in {"time", "size"}
  BY <1>1, <1>2 DEF TimeDone, AfterTimeRetention, IInv, TypeOK
<1>4. CASE Expired(b) /\ CanRemove
  BY <1>1, <1>2, <1>3, <1>4, RemoveInv
<1>5. CASE ~(Expired(b) /\ CanRemove)
  <2>1. UNCHANGED <<disk, mem, history>>
    BY <1>1, <1>5
  <2>2. CleanerClosed'
    BY <1>2, <1>3 DEF CleanerClosed, Locked
  <2>3. TypeOK'
    BY <1>2, <1>3, <2>1 DEF IInv, TypeOK, disk, mem, history
  <2>4. Shape' /\ LEO' = LEO
    BY <1>2, <2>1, <2>2, ShapeUnmoved DEF disk, mem, LEO
  <2> QED
    BY <2>3, <2>4 DEF IInv
<1> QED
  BY <1>4, <1>5

LEMMA SizeRemoveInv == ASSUME IInv, SizeRemove PROVE IInv' /\ LEO' = LEO
<1>1. /\ alive /\ cleaner = "sizeRemove" /\ ~Locked
      /\ UNCHANGED <<alive, now, pending, cycleTime, keyLatestOffset>>
  BY DEF SizeRemove, Locked
<1>2. cleaner' \in {"size", "compact", "idle"}
  BY DEF SizeRemove, AfterSizeRemove, AfterSizeRetention
<1>3. cycleTime' \in Nat /\ pending' \subseteq Offsets
  BY <1>1 DEF IInv, TypeOK
<1>4. CASE CanRemove
  BY <1>1, <1>2, <1>3, <1>4, RemoveInv DEF SizeRemove
<1>5. CASE ~CanRemove
  <2>1. UNCHANGED <<disk, mem, history>>
    BY <1>5 DEF SizeRemove
  <2>2. CleanerClosed'
    BY <1>1, <1>2 DEF CleanerClosed, Locked
  <2>3. TypeOK'
    BY <1>1, <1>2, <2>1 DEF IInv, TypeOK, disk, mem, history
  <2>4. Shape' /\ LEO' = LEO
    BY <1>1, <2>1, <2>2, ShapeUnmoved DEF disk, mem, LEO
  <2> QED
    BY <2>3, <2>4 DEF IInv
<1> QED
  BY <1>4, <1>5

LEMMA ReplaceLogInv == ASSUME IInv, ReplaceLog PROVE IInv' /\ LEO' = LEO
<1>1. PICK b \in pending :
        /\ logFile' = [logFile EXCEPT ![b] = Kept(SegmentRead(b, b))]
        /\ modTime' = [modTime EXCEPT ![b] = now]
        /\ opened' = [opened EXCEPT ![b] = FALSE]
        /\ interrupted' = interrupted \cup {b}
  BY DEF ReplaceLog
<1>2. /\ alive /\ alive' = alive /\ cleaner = "rewrite" /\ cleaner' = "swap"
      /\ UNCHANGED <<now, segments, index, activeSegment, nextOffset, currentSize,
                     lastIndexBytes, pending, cycleTime, keyLatestOffset, newest>>
  BY DEF ReplaceLog
<1>3. pending \subseteq segments \ {activeSegment} /\ b \in segments /\ b # activeSegment /\ b \in Offsets
  BY <1>2, LEOTyped DEF IInv, Shape, CleanerClosed, Locked
<1>4. Kept(SegmentRead(b, b)) \in SUBSET logFile[b]
  BY DEF Kept, SegmentRead
<1>5. /\ \A c \in Offsets : logFile'[c] \subseteq logFile[c]
      /\ \A c \in Offsets : c # b => logFile'[c] = logFile[c]
  BY <1>1, <1>4 DEF IInv, TypeOK
<1>6. TypeOK'
  <2>1. logFile' \in [Offsets -> SUBSET Record]
    BY <1>1, <1>4 DEF IInv, TypeOK
  <2>2. (\A c \in Offsets \ segments : /\ logFile[c] = {} /\ index[c] = {} /\ nextOffset[c] = c
                                       /\ currentSize[c] = 0)'
    BY <1>2, <1>5 DEF IInv, TypeOK
  <2> QED
    BY <1>1, <1>2, <1>3, <2>1, <2>2 DEF IInv, TypeOK
<1>7. LEO' = LEO
  BY <1>2 DEF LEO
<1>8. Layout'
  BY <1>2, <1>5, <1>7, LEOTyped DEF IInv, Shape, Layout
<1>9. Counted'
  <2> SUFFICES ASSUME NEW c \in Offsets
               PROVE  IsFiniteSet(logFile'[c]) /\ c + Cardinality(logFile'[c]) <= MaxOffset
    BY DEF Counted
  <2>1. /\ IsFiniteSet(logFile'[c]) /\ Cardinality(logFile'[c]) \in Nat
        /\ Cardinality(logFile'[c]) <= Cardinality(logFile[c]) /\ Cardinality(logFile[c]) \in Nat
    BY <1>5, CountedNat DEF IInv, Shape
  <2>2. c + Cardinality(logFile[c]) <= MaxOffset
    BY DEF IInv, Shape, Counted
  <2> QED
    BY <2>1, <2>2, OffsetsNat, ConstantsAssumption
<1>10. EndsAtLEO'
  <2>1. ASSUME NEW c \in segments, \A d \in segments : d <= c PROVE c # b
    BY <1>3, <2>1, LEOTyped, <1>2 DEF IInv, Shape, ActiveIsLast
  <2> QED
    BY <1>2, <1>5, <1>7, <2>1, LEOTyped DEF IInv, Shape, EndsAtLEO
<1>11. ActiveIsLast'
  BY <1>2, <1>3, <1>5, LEOTyped DEF IInv, Shape, ActiveIsLast
<1>12. CleanerClosed'
  BY <1>2, <1>3 DEF CleanerClosed
<1> QED
  BY <1>6, <1>7, <1>8, <1>9, <1>10, <1>11, <1>12 DEF IInv, Shape

LEMMA ReplaceIndexInv == ASSUME IInv, ReplaceIndex PROVE IInv' /\ LEO' = LEO
<1>1. PICK b \in pending :
        /\ index' = [index EXCEPT ![b] = RebuiltIndex(logFile[b])]
        /\ currentSize' = [currentSize EXCEPT ![b] = Cardinality(logFile[b])]
        /\ lastIndexBytes' = [lastIndexBytes EXCEPT ![b] = RebuiltLastIndexBytes(logFile[b])]
        /\ opened' = [opened EXCEPT ![b] = TRUE]
        /\ interrupted' = interrupted \ {b}
        /\ Visited(b)
  BY DEF ReplaceIndex
<1>2. /\ alive /\ alive' = alive /\ cleaner = "swap"
      /\ UNCHANGED <<now, segments, logFile, modTime, activeSegment, nextOffset, cycleTime, newest>>
  BY DEF ReplaceIndex
<1>3. pending \subseteq segments \ {activeSegment} /\ b \in segments /\ b # activeSegment /\ b \in Offsets
  BY <1>2, LEOTyped DEF IInv, Shape, CleanerClosed, Locked
<1>4. /\ pending' \subseteq pending /\ cleaner' \in {"idle", "rewrite"}
      /\ keyLatestOffset' \subseteq (Keys \X Offsets)
  BY <1>1 DEF Visited, CompactDone, IInv, TypeOK
<1>5. TypeOK'
  <2>1. (index \in [Offsets -> SUBSET Entry] /\ currentSize \in [Offsets -> Nat]
            /\ lastIndexBytes \in [Offsets -> Nat] /\ opened \in [Offsets -> BOOLEAN])'
    <3>1. /\ RebuiltIndex(logFile[b]) \in SUBSET Entry
          /\ RebuiltLastIndexBytes(logFile[b]) \in Nat /\ Cardinality(logFile[b]) \in Nat
      BY <1>3, RebuiltTyped
    <3> QED
      BY <1>1, <3>1 DEF IInv, TypeOK
  <2>2. (\A c \in Offsets \ segments : /\ logFile[c] = {} /\ index[c] = {} /\ nextOffset[c] = c
                                       /\ currentSize[c] = 0)'
    BY <1>1, <1>2, <1>3 DEF IInv, TypeOK
  <2> QED
    BY <1>1, <1>2, <1>4, <2>1, <2>2 DEF IInv, TypeOK
<1>6. CleanerClosed'
  BY <1>2, <1>3, <1>4 DEF CleanerClosed
<1>7. currentSize'[activeSegment] = currentSize[activeSegment]
  BY <1>1, <1>3, LEOTyped DEF IInv, TypeOK
<1>8. Shape' /\ LEO' = LEO
  BY <1>2, <1>6, <1>7, ShapeUnmoved DEF LEO
<1> QED
  BY <1>5, <1>8 DEF IInv

LEMMA RenameFailsInv == ASSUME IInv, RenameFails PROVE IInv' /\ LEO' = LEO
<1>1. PICK b \in pending : opened' = [opened EXCEPT ![b] = FALSE]
  BY DEF RenameFails
<1>2. /\ alive /\ alive' = alive /\ cleaner' = "idle" /\ pending' = {} /\ keyLatestOffset' = {}
      /\ UNCHANGED <<now, disk, activeSegment, nextOffset, currentSize, lastIndexBytes,
                     cycleTime, history>>
  BY DEF RenameFails, CompactDone
<1>3. TypeOK'
  BY <1>1, <1>2 DEF IInv, TypeOK, disk, history
<1>4. CleanerClosed'
  BY <1>2 DEF CleanerClosed, Locked
<1>5. Shape' /\ LEO' = LEO
  BY <1>2, <1>4, ShapeUnmoved DEF disk, LEO
<1> QED
  BY <1>3, <1>5 DEF IInv
-------------------------------------------------------------------------------
(* Crashes and restarts *)

LEMMA CrashInv == ASSUME IInv, Crash PROVE IInv' /\ LEO' = LEO
<1>1. /\ alive' = FALSE /\ cleaner' = "idle" /\ pending' = {} /\ cycleTime' = 0
      /\ keyLatestOffset' = {} /\ UNCHANGED <<now, disk, mem, history>>
  BY DEF Crash, LoseMemory
<1>2. TypeOK'
  BY <1>1 DEF IInv, TypeOK, disk, mem, history
<1>3. Shape' /\ LEO' = LEO
  BY <1>1 DEF IInv, Shape, Layout, Counted, EndsAtLEO, ActiveIsLast, CleanerClosed, Locked,
              disk, mem, LEO
<1> QED
  BY <1>2, <1>3 DEF IInv

LEMMA CrashInAppendInv == ASSUME IInv, CrashInAppend PROVE IInv' /\ LEO' = LEO
<1> DEFINE b == AppendTarget
<1>1. /\ b \in Offsets /\ b + Cardinality(logFile[b]) = LEO
      /\ \A c \in segments : c <= b
      /\ b = activeSegment \/ (b = LEO /\ b \notin segments /\ logFile[b] = {})
  BY AppendTargetFacts DEF CrashInAppend
<1>2. /\ alive' = FALSE /\ cleaner' = "idle" /\ pending' = {} /\ cycleTime' = 0
      /\ keyLatestOffset' = {} /\ UNCHANGED <<now, logFile, mem, history>>
      /\ segments' = segments \cup {b}
      /\ modTime' = (IF b = activeSegment THEN modTime ELSE [modTime EXCEPT ![b] = now])
      /\ index' = [index EXCEPT ![b] = IndexAfterAppend(b)] \/ index' = index
  BY DEF CrashInAppend, LoseMemory
<1>3. IndexAfterAppend(b) \in SUBSET Entry
  BY <1>1, IndexAfterAppendTyped
<1> HIDE DEF b
<1>4. TypeOK'
  <2>1. index' \in [Offsets -> SUBSET Entry] /\ \A c \in Offsets : c # b => index'[c] = index[c]
    BY <1>2, <1>3 DEF IInv, TypeOK
  <2>2. modTime' \in [Offsets -> Nat]
    BY <1>2 DEF IInv, TypeOK
  <2>3. (\A c \in Offsets \ segments : /\ logFile[c] = {} /\ index[c] = {} /\ nextOffset[c] = c
                                       /\ currentSize[c] = 0)'
    BY <1>2, <2>1 DEF IInv, TypeOK, mem
  <2> QED
    BY <1>1, <1>2, <2>1, <2>2, <2>3 DEF IInv, TypeOK, mem, history
<1>5. LEO' = LEO
  BY <1>2 DEF LEO, mem
<1>6. Layout'
  <2>1. b \in segments \/ (b = LEO /\ logFile[b] = {})
    BY <1>1 DEF IInv, Shape, ActiveIsLast
  <2>2. CASE b \in segments
    BY <1>2, <1>5, <2>2 DEF IInv, Shape, Layout
  <2>3. CASE b = LEO /\ logFile[b] = {}
    BY <1>1, <1>2, <1>5, <2>3, LEOTyped DEF IInv, Shape, Layout
  <2> QED
    BY <2>1, <2>2, <2>3
<1>7. Counted' /\ CleanerClosed' /\ ActiveIsLast'
  BY <1>2 DEF IInv, Shape, Counted, CleanerClosed, ActiveIsLast, Locked, mem
<1>8. EndsAtLEO'
  <2>1. \A c \in segments' : (\A d \in segments' : d <= c) => c = b
    BY <1>1, <1>2, OffsetsNat, LEOTyped
  <2> QED
    BY <1>1, <1>2, <1>5, <2>1 DEF EndsAtLEO
<1> QED
  BY <1>4, <1>5, <1>6, <1>7, <1>8 DEF IInv, Shape

\* Counting the records of the last file finds the log end offset again.
LEMMA RestartInv == ASSUME IInv, Restart PROVE IInv' /\ LEO' = LEO
<1>1. PICK b \in segments : (\A c \in segments : c <= b) /\ activeSegment' = b
  BY DEF Restart
<1>2. /\ ~alive /\ alive' = TRUE /\ UNCHANGED <<now, disk, clean, history>>
      /\ nextOffset' = [c \in Offsets |-> RecoveredNextOffset(c)]
      /\ currentSize' = [c \in Offsets |-> Cardinality(logFile[c])]
      /\ lastIndexBytes' = [c \in Offsets |-> 0]
      /\ opened' = [c \in Offsets |-> TRUE]
  BY DEF Restart
<1>3. ASSUME NEW c \in Offsets
      PROVE  /\ Cardinality(logFile[c]) \in Nat /\ RecoveredNextOffset(c) \in Offsets
             /\ logFile[c] = {} => Cardinality(logFile[c]) = 0 /\ RecoveredNextOffset(c) = c
  <2>1. /\ Cardinality(logFile[c]) \in Nat /\ (Cardinality(logFile[c]) = 0 <=> logFile[c] = {})
        /\ c + Cardinality(logFile[c]) <= MaxOffset
    BY CountedNat DEF IInv, Shape, Counted
  <2> QED
    BY <2>1, OffsetsNat DEF RecoveredNextOffset
<1>4. b \in Offsets /\ LEO' = b + Cardinality(logFile[b])
  BY <1>1, <1>2, LEOTyped DEF LEO, RecoveredNextOffset
<1>5. LEO' = LEO
  BY <1>1, <1>4 DEF IInv, Shape, EndsAtLEO
<1>6. TypeOK'
  <2>1. (nextOffset \in [Offsets -> Offsets] /\ currentSize \in [Offsets -> Nat]
            /\ lastIndexBytes \in [Offsets -> Nat] /\ opened \in [Offsets -> BOOLEAN]
            /\ activeSegment \in Offsets)'
    BY <1>1, <1>2, <1>3, <1>4
  <2>2. (\A c \in Offsets \ segments : /\ logFile[c] = {} /\ index[c] = {} /\ nextOffset[c] = c
                                       /\ currentSize[c] = 0)'
    BY <1>2, <1>3 DEF IInv, TypeOK, disk
  <2> QED
    BY <1>2, <2>1, <2>2 DEF IInv, TypeOK, disk, clean, history
<1>7. Layout' /\ Counted' /\ EndsAtLEO'
  BY <1>2, <1>5 DEF IInv, Shape, Layout, Counted, EndsAtLEO, disk
<1>8. ActiveIsLast'
  BY <1>1, <1>2, <1>4 DEF ActiveIsLast, disk
<1>9. CleanerClosed'
  BY <1>2 DEF IInv, Shape, CleanerClosed, Locked, clean
<1> QED
  BY <1>5, <1>6, <1>7, <1>8, <1>9 DEF IInv, Shape
-------------------------------------------------------------------------------
\* Every step keeps the invariant and does not move the log end back.
LEMMA NextInv == IInv /\ [Next]_vars => IInv' /\ LEO' >= LEO
<1> SUFFICES ASSUME IInv, [Next]_vars PROVE IInv' /\ LEO' >= LEO
  OBVIOUS
<1>n. LEO \in Nat
  BY LEOTyped
<1>1. ASSUME NEW k \in Keys \cup {NoKey}, NEW v \in Values \cup {Empty}, Append(k, v)
      PROVE  IInv' /\ LEO' >= LEO
  BY <1>1, <1>n, AppendInv
<1>2. CASE Tick
  <2>1. TypeOK'
    BY <1>2 DEF Tick, IInv, TypeOK, disk, mem, clean, history
  <2>2. CleanerClosed'
    BY <1>2 DEF Tick, IInv, Shape, CleanerClosed, Locked, disk, mem, clean
  <2>3. Shape' /\ LEO' = LEO
    BY <1>2, <2>2, ShapeUnmoved DEF Tick, disk, mem, LEO
  <2> QED
    BY <1>n, <2>1, <2>3 DEF IInv
<1>3. CASE CleanerStep
  BY <1>3, <1>n, DecideInv, TimeRetentionInv, SizeRemoveInv, ReplaceLogInv, ReplaceIndexInv
     DEF CleanerStep
<1>4. CASE RenameFails \/ IndexRenameFails
  BY <1>4, <1>n, RenameFailsInv, DecideInv
<1>5. CASE Crash \/ CrashInAppend \/ Restart
  BY <1>5, <1>n, CrashInv, CrashInAppendInv, RestartInv
<1>6. CASE UNCHANGED vars
  <2>1. UNCHANGED <<alive, now, disk, mem, clean, history>>
    BY <1>6 DEF vars
  <2>2. TypeOK'
    BY <2>1 DEF IInv, TypeOK, disk, mem, clean, history
  <2>3. CleanerClosed'
    BY <2>1 DEF IInv, Shape, CleanerClosed, Locked, disk, mem, clean
  <2>4. Shape' /\ LEO' = LEO
    BY <2>1, <2>3, ShapeUnmoved DEF disk, mem, LEO
  <2> QED
    BY <1>n, <2>2, <2>4 DEF IInv
<1> QED
  BY <1>1, <1>2, <1>3, <1>4, <1>5, <1>6 DEF Next

LEMMA AlwaysInv == Spec => []IInv
<1>1. IInv /\ [Next]_vars => IInv'
  BY NextInv
<1> QED
  BY <1>1, InitInv, PTL DEF Spec

\* Every variable of a partition keeps its type, and a base offset that is not
\* a segment has no files and no state, whatever the cleaner and crashes do.
THEOREM TypeCorrect == Spec => []TypeOK
<1>1. IInv => TypeOK
  BY DEF IInv
<1> QED
  BY <1>1, AlwaysInv, PTL

\* Two records with the same offset are one, in whichever segments they are.
LEMMA OneRecord == ASSUME IInv PROVE OffsetsUnique
<1>1. \A b \in segments : \A r \in logFile[b] :
          /\ b <= r.offset /\ r.offset < LEO
          /\ \A c \in segments : b < c => r.offset < c
  BY DEF IInv, Shape, Layout
<1>2. ASSUME NEW b \in segments, NEW c \in segments, NEW r \in logFile[b], NEW q \in logFile[c],
             r.offset = q.offset
      PROVE  r = q
  <2>1. b \in Nat /\ c \in Nat /\ b \in Offsets /\ c \in Offsets
    BY LEOTyped
  <2>2. r.offset \in Int /\ q.offset \in Int
    BY <2>1, RecordTyped DEF IInv
  <2>3. b = c
    BY <1>1, <1>2, <2>1, <2>2
  <2> QED
    BY <1>2, <2>3 DEF IInv, Shape, Layout
<1> QED
  BY <1>1, <1>2 DEF OffsetsUnique, AllRecords

\* No offset is ever given to a second record, over rolls, retention,
\* compaction, crashes and restarts.
THEOREM OffsetsNeverReused == Spec => []OffsetsUnique
  BY OneRecord, AlwaysInv, PTL

\* The log end offset never goes back, over a crash and restart either.
THEOREM LogEndMonotone == Spec => LEOMonotone
<1>1. IInv /\ [Next]_vars => [LEO' >= LEO]_vars
  BY NextInv
<1> QED
  BY <1>1, AlwaysInv, PTL DEF Spec, LEOMonotone
-------------------------------------------------------------------------------
(* What the steps do to the files *)

\* Nothing on disk or in the segments' state changes.
Quiet == UNCHANGED <<segments, logFile, index, newest, interrupted, activeSegment, nextOffset,
                     lastIndexBytes>>

\* The segment an append goes to ends at the log end.
AtEnd(b) ==
    /\ b \in Offsets /\ b + Cardinality(logFile[b]) = LEO /\ currentSize[b] = Cardinality(logFile[b])
    /\ \A c \in segments : c <= b
    /\ b = activeSegment \/ (b = LEO /\ b \notin segments /\ logFile[b] = {} /\ index[b] = {})

Appended(b, k, v) ==
    /\ AtEnd(b) /\ ~Locked /\ alive
    /\ segments' = segments \cup {b} /\ activeSegment' = b
    /\ logFile'[b] = logFile[b] \cup {Rec(LEO, k, v)} /\ index'[b] = IndexAfterAppend(b)
    /\ nextOffset'[b] = LEO + 1
    /\ lastIndexBytes'[b] = (IF IndexDue(b) THEN currentSize[b] ELSE lastIndexBytes[b])
    /\ \A c \in Offsets \ {b} : /\ logFile'[c] = logFile[c] /\ index'[c] = index[c]
                                /\ nextOffset'[c] = nextOffset[c]
    /\ newest' = IF k = NoKey THEN newest ELSE [newest EXCEPT ![k] = Rec(LEO, k, v)]
    /\ UNCHANGED <<alive, interrupted, clean>>

\* The process died in an append.
Torn(b) ==
    /\ AtEnd(b) /\ alive /\ ~alive' /\ cleaner' = "idle" /\ "append" \in Faults /\ ~Locked
    /\ segments' = segments \cup {b}
    /\ index'[b] \in {index[b], IndexAfterAppend(b)}
    /\ \A c \in Offsets \ {b} : index'[c] = index[c]
    /\ UNCHANGED <<logFile, newest, interrupted, activeSegment, nextOffset>>

Removed(b) ==
    /\ b \in segments \ {activeSegment} /\ IsOldest(b) /\ ~Locked
    /\ segments' = segments \ {b} /\ interrupted' = interrupted \ {b}
    /\ \A c \in Offsets \ {b} : /\ logFile'[c] = logFile[c] /\ index'[c] = index[c]
                                /\ nextOffset'[c] = nextOffset[c]
    /\ cleaner' \in {"time", "size", AfterSizeRetention}
    /\ lastIndexBytes'[activeSegment] = lastIndexBytes[activeSegment]
    /\ UNCHANGED <<alive, newest, activeSegment>>

Rewritten(b) ==
    /\ alive /\ cleaner = "rewrite" /\ cleaner' = "swap"
    /\ b \in segments \ {activeSegment} /\ NextToCompact(b)
    /\ logFile'[b] = Kept(SegmentRead(b, b)) /\ interrupted' = interrupted \cup {b}
    /\ \A c \in Offsets \ {b} : logFile'[c] = logFile[c]
    /\ lastIndexBytes'[activeSegment] = lastIndexBytes[activeSegment]
    /\ UNCHANGED <<alive, segments, index, activeSegment, nextOffset, newest, pending,
                   keyLatestOffset>>

Reindexed(b) ==
    /\ alive /\ cleaner = "swap"
    /\ b \in segments \ {activeSegment} /\ NextToCompact(b) /\ Visited(b)
    /\ index'[b] = RebuiltIndex(logFile[b]) /\ interrupted' = interrupted \ {b}
    /\ \A c \in Offsets \ {b} : index'[c] = index[c]
    /\ lastIndexBytes'[activeSegment] = lastIndexBytes[activeSegment]
    /\ UNCHANGED <<alive, segments, logFile, activeSegment, nextOffset, newest>>

LEMMA AtEndFacts == ASSUME IInv, alive, LEO < MaxOffset PROVE AtEnd(AppendTarget)
<1> DEFINE b == AppendTarget
<1>1. /\ b \in Offsets /\ b + Cardinality(logFile[b]) = LEO
      /\ currentSize[activeSegment] = Cardinality(logFile[activeSegment])
      /\ \A c \in segments : c <= b
      /\ b = activeSegment \/ (b = LEO /\ b \notin segments /\ logFile[b] = {} /\ index[b] = {})
  BY AppendTargetFacts
<1>2. b \notin segments => currentSize[b] = 0
  BY <1>1 DEF IInv, TypeOK
<1>3. Cardinality({}) = 0
  BY FS_EmptySet
<1> HIDE DEF b
<1>4. currentSize[b] = Cardinality(logFile[b])
  BY <1>1, <1>2, <1>3
<1> QED
  BY <1>1, <1>4 DEF AtEnd, b

LEMMA AppendIs ==
    ASSUME IInv, NEW k \in Keys \cup {NoKey}, NEW v \in Values \cup {Empty}, Append(k, v)
    PROVE  \E b \in Offsets : Appended(b, k, v)
<1>1. alive /\ ~Locked /\ LEO < MaxOffset
  BY DEF Append
<1>2. PICK b \in Offsets : b = AppendTarget /\ AtEnd(b)
  BY <1>1, AtEndFacts DEF AtEnd
<1>3. /\ segments' = segments \cup {b} /\ activeSegment' = b
      /\ logFile' = [logFile EXCEPT ![b] = logFile[b] \cup {Rec(LEO, k, v)}]
      /\ index' = [index EXCEPT ![b] = IndexAfterAppend(b)]
      /\ nextOffset' = [nextOffset EXCEPT ![b] = LEO + 1]
      /\ lastIndexBytes' = [lastIndexBytes EXCEPT
                              ![b] = IF IndexDue(b) THEN currentSize[b] ELSE lastIndexBytes[b]]
      /\ newest' = IF k = NoKey THEN newest ELSE [newest EXCEPT ![k] = Rec(LEO, k, v)]
      /\ UNCHANGED <<alive, interrupted, clean>>
  BY <1>2 DEF Append
<1>4. /\ logFile'[b] = logFile[b] \cup {Rec(LEO, k, v)} /\ index'[b] = IndexAfterAppend(b)
      /\ nextOffset'[b] = LEO + 1
      /\ lastIndexBytes'[b] = (IF IndexDue(b) THEN currentSize[b] ELSE lastIndexBytes[b])
      /\ \A c \in Offsets \ {b} : /\ logFile'[c] = logFile[c] /\ index'[c] = index[c]
                                  /\ nextOffset'[c] = nextOffset[c]
  BY <1>3 DEF IInv, TypeOK
<1> QED
  BY <1>1, <1>2, <1>3, <1>4 DEF Appended

LEMMA CrashInAppendIs == ASSUME IInv, CrashInAppend PROVE \E b \in Offsets : Torn(b)
<1>1. alive /\ ~Locked /\ LEO < MaxOffset /\ "append" \in Faults
  BY DEF CrashInAppend
<1>2. PICK b \in Offsets : b = AppendTarget /\ AtEnd(b)
  BY <1>1, AtEndFacts DEF AtEnd
<1>3. /\ segments' = segments \cup {b} /\ ~alive' /\ cleaner' = "idle"
      /\ index' = [index EXCEPT ![b] = IndexAfterAppend(b)] \/ index' = index
      /\ UNCHANGED <<logFile, newest, interrupted, activeSegment, nextOffset>>
  BY <1>2 DEF CrashInAppend, LoseMemory, mem, history
<1>4. /\ index'[b] \in {index[b], IndexAfterAppend(b)}
      /\ \A c \in Offsets \ {b} : index'[c] = index[c]
  BY <1>3 DEF IInv, TypeOK
<1> QED
  BY <1>1, <1>2, <1>3, <1>4 DEF Torn

LEMMA RemoveIs ==
    ASSUME IInv, alive, CanRemove, RemoveOldestSegment, ~Locked, UNCHANGED alive,
           cleaner' \in {"time", "size", AfterSizeRetention}
    PROVE  \E b \in Offsets : Removed(b)
<1>1. PICK b \in segments :
        /\ IsOldest(b)
        /\ segments' = segments \ {b}
        /\ RemoveFiles(b)
        /\ nextOffset' = [nextOffset EXCEPT ![b] = b]
        /\ lastIndexBytes' = [lastIndexBytes EXCEPT ![b] = 0]
        /\ interrupted' = interrupted \ {b}
  BY DEF RemoveOldestSegment
<1>2. UNCHANGED <<activeSegment, newest>>
  BY DEF RemoveOldestSegment
<1>3. b # activeSegment /\ b \in Offsets
  BY <1>1, OldestIsClosed, LEOTyped
<1>4. \A c \in Offsets \ {b} : /\ logFile'[c] = logFile[c] /\ index'[c] = index[c]
                              /\ nextOffset'[c] = nextOffset[c]
  BY <1>1 DEF RemoveFiles, IInv, TypeOK
<1>5. lastIndexBytes'[activeSegment] = lastIndexBytes[activeSegment]
  BY <1>1, <1>3, LEOTyped DEF IInv, TypeOK
<1> QED
  BY <1>1, <1>2, <1>3, <1>4, <1>5 DEF Removed

LEMMA RetentionIs ==
    ASSUME IInv, TimeRetention \/ SizeRemove
    PROVE  (Quiet /\ UNCHANGED alive /\ cleaner' \in {"time", "size", AfterSizeRetention})
           \/ \E b \in Offsets : Removed(b)
<1>1. alive /\ ~Locked /\ UNCHANGED alive
  BY DEF TimeRetention, SizeRemove, Locked
<1>2. cleaner' \in {"time", "size", AfterSizeRetention}
  BY DEF TimeRetention, TimeDone, AfterTimeRetention, SizeRemove, AfterSizeRemove
<1>3. (CanRemove /\ RemoveOldestSegment) \/ UNCHANGED <<disk, mem, history>>
  BY DEF TimeRetention, SizeRemove
<1> QED
  BY <1>1, <1>2, <1>3, RemoveIs DEF Quiet, disk, mem, history

LEMMA ReplaceLogIs == ASSUME IInv, ReplaceLog PROVE \E b \in Offsets : Rewritten(b)
<1>1. PICK b \in pending :
        /\ NextToCompact(b)
        /\ logFile' = [logFile EXCEPT ![b] = Kept(SegmentRead(b, b))]
        /\ interrupted' = interrupted \cup {b}
  BY DEF ReplaceLog
<1>2. /\ alive /\ cleaner = "rewrite" /\ cleaner' = "swap"
      /\ UNCHANGED <<alive, segments, index, activeSegment, nextOffset, newest, pending,
                     keyLatestOffset, lastIndexBytes>>
  BY DEF ReplaceLog
<1>3. b \in segments \ {activeSegment} /\ b \in Offsets
  BY <1>2, LEOTyped DEF IInv, Shape, CleanerClosed, Locked
<1>4. /\ logFile'[b] = Kept(SegmentRead(b, b))
      /\ \A c \in Offsets \ {b} : logFile'[c] = logFile[c]
  BY <1>1, <1>3 DEF IInv, TypeOK
<1> QED
  BY <1>1, <1>2, <1>3, <1>4 DEF Rewritten

LEMMA ReplaceIndexIs == ASSUME IInv, ReplaceIndex PROVE \E b \in Offsets : Reindexed(b)
<1>1. PICK b \in pending :
        /\ NextToCompact(b)
        /\ index' = [index EXCEPT ![b] = RebuiltIndex(logFile[b])]
        /\ lastIndexBytes' = [lastIndexBytes EXCEPT ![b] = RebuiltLastIndexBytes(logFile[b])]
        /\ interrupted' = interrupted \ {b}
        /\ Visited(b)
  BY DEF ReplaceIndex
<1>2. /\ alive /\ cleaner = "swap"
      /\ UNCHANGED <<alive, segments, logFile, activeSegment, nextOffset, newest>>
  BY DEF ReplaceIndex
<1>3. b \in segments \ {activeSegment} /\ b \in Offsets
  BY <1>2, LEOTyped DEF IInv, Shape, CleanerClosed, Locked
<1>4. /\ index'[b] = RebuiltIndex(logFile[b])
      /\ \A c \in Offsets \ {b} : index'[c] = index[c]
      /\ lastIndexBytes'[activeSegment] = lastIndexBytes[activeSegment]
  BY <1>1, <1>3, LEOTyped DEF IInv, TypeOK
<1> QED
  BY <1>1, <1>2, <1>3, <1>4 DEF Reindexed

\* The steps that leave the files alone, and what they do to the cleaner.
Moves ==
    /\ Quiet
    /\ \/ ~Locked' /\ UNCHANGED alive /\ (cleaner' = "compact" => CompactionEnabled)
          /\ (cleaner = "swap" => "swap" \in Faults)
       \/ UNCHANGED <<alive, clean>>
       \/ CompactBegin \/ SkipSegment \/ Crash

LEMMA StepIs ==
    ASSUME IInv, [Next]_vars
    PROVE  \/ Moves \/ Restart
           \/ \E b \in Offsets, k \in Keys \cup {NoKey}, v \in Values \cup {Empty} : Appended(b, k, v)
           \/ \E b \in Offsets : Torn(b) \/ Removed(b) \/ Rewritten(b) \/ Reindexed(b)
<1>1. CASE \E k \in Keys \cup {NoKey}, v \in Values \cup {Empty} : Append(k, v)
  BY <1>1, AppendIs
<1>2. CASE Tick \/ UNCHANGED vars
  BY <1>2 DEF Tick, vars, Moves, Quiet, disk, mem, history
<1>3. CASE CycleBegin \/ SizeCheck
  BY <1>3 DEF CycleBegin, SizeCheck, AfterTimeRetention, AfterSizeRetention, Moves, Quiet, Locked,
              disk, mem, history
<1>4. CASE CompactBegin \/ SkipSegment \/ Crash
  BY <1>4 DEF CompactBegin, SkipSegment, Crash, Moves, Quiet, disk, mem, history
<1>5. CASE RenameFails \/ IndexRenameFails
  BY <1>5 DEF RenameFails, IndexRenameFails, CompactDone, Moves, Quiet, Locked, disk, mem, history
<1>6. CASE TimeRetention \/ SizeRemove
  <2>1. cleaner # "swap"
    BY <1>6 DEF TimeRetention, SizeRemove
  <2>2. ~Locked' \/ cleaner' \notin {"time", "size", AfterSizeRetention}
    BY DEF Locked, AfterSizeRetention
  <2>3. cleaner' \in {"time", "size", AfterSizeRetention} => (cleaner' = "compact" => CompactionEnabled)
    BY DEF AfterSizeRetention
  <2> QED
    BY <1>6, <2>1, <2>2, <2>3, RetentionIs DEF Moves
<1>7. CASE ReplaceLog \/ ReplaceIndex
  BY <1>7, ReplaceLogIs, ReplaceIndexIs
<1>8. CASE CrashInAppend
  BY <1>8, CrashInAppendIs
<1>9. CASE Restart
  BY <1>9
<1> QED
  BY <1>1, <1>2, <1>3, <1>4, <1>5, <1>6, <1>7, <1>8, <1>9 DEF Next, CleanerStep
-------------------------------------------------------------------------------
(* The index *)

\* The position of an offset grows with the offset and with the file.
LEMMA PositionMonotone ==
    ASSUME NEW R, IsFiniteSet(R), \A r \in R : r.offset \in Int, NEW S \in SUBSET R,
           NEW o \in Int, NEW p \in Int, o <= p
    PROVE  /\ Position(o, S) \in Nat /\ Position(p, R) \in Nat
           /\ Position(o, S) <= Position(p, R)
<1> DEFINE P == {r \in R : r.offset < p}
           O == {r \in S : r.offset < o}
<1>1. P \in SUBSET R /\ O \in SUBSET P
  OBVIOUS
<1>2. IsFiniteSet(P)
  BY <1>1, FS_Subset
<1>3. IsFiniteSet(O) /\ Cardinality(O) <= Cardinality(P)
  BY <1>1, <1>2, FS_Subset
<1> QED
  BY <1>2, <1>3, FS_CardinalityType DEF Position

\* All records of a file are before an offset above them.
LEMMA PositionAtEnd ==
    ASSUME NEW R, NEW o, \A r \in R : r.offset < o
    PROVE  Position(o, R) = Cardinality(R)
<1>1. {r \in R : r.offset < o} = R
  OBVIOUS
<1> QED
  BY <1>1 DEF Position

LEMMA FileFacts ==
    ASSUME IInv, NEW b \in segments
    PROVE  /\ b \in Offsets /\ b \in Nat /\ IsFiniteSet(logFile[b])
           /\ Cardinality(logFile[b]) \in Nat /\ (Cardinality(logFile[b]) = 0 <=> logFile[b] = {})
           /\ \A r \in logFile[b] : /\ r.offset \in Int /\ r.offset \in Offsets /\ b <= r.offset
                                    /\ r.offset < LEO
           /\ \A e \in index[b] : e.offset \in Offsets /\ e.offset \in Int /\ e.pos \in Nat
<1>1. b \in Offsets /\ b \in Nat
  BY LEOTyped
<1>2. /\ IsFiniteSet(logFile[b]) /\ Cardinality(logFile[b]) \in Nat
      /\ (Cardinality(logFile[b]) = 0 <=> logFile[b] = {})
  BY <1>1, CountedNat DEF IInv, Shape
<1>3. \A r \in logFile[b] : /\ r.offset \in Int /\ r.offset \in Offsets /\ b <= r.offset
                            /\ r.offset < LEO
  BY <1>1, RecordTyped DEF IInv, Shape, Layout
<1>4. \A e \in index[b] : e \in Entry
  BY <1>1 DEF IInv, TypeOK
<1>5. \A e \in index[b] : e.offset \in Offsets /\ e.offset \in Int /\ e.pos \in Nat
  BY <1>4, OffsetsNat DEF Entry
<1> QED
  BY <1>1, <1>2, <1>3, <1>5

\* The entry of an append is for its record and points to the end of the file.
LEMMA NewEntry ==
    ASSUME IInv, Indexed, NEW b, AtEnd(b), NEW e \in IndexAfterAppend(b)
    PROVE  /\ e.offset \in Int /\ e.pos \in Nat
           /\ b \notin interrupted => e.pos <= Position(e.offset, logFile[b])
           /\ e.offset <= b => e.pos = 0
<1>1. b \in segments \/ (b = LEO /\ logFile[b] = {} /\ index[b] = {})
  BY DEF AtEnd, IInv, Shape, ActiveIsLast
<1>2. /\ b \in Offsets /\ b \in Nat /\ LEO \in Nat
      /\ b + Cardinality(logFile[b]) = LEO /\ currentSize[b] = Cardinality(logFile[b])
  BY LEOTyped, OffsetsNat DEF AtEnd
<1>3. Cardinality(logFile[b]) \in Nat
  BY <1>2, CountedNat DEF IInv, Shape
<1>4. CASE e \in index[b]
  BY <1>1, <1>4, FileFacts DEF Indexed, EntriesBelow, FirstEntry
<1>5. CASE e = [offset |-> LEO, pos |-> currentSize[b]]
  <2>1. \A r \in logFile[b] : r.offset < LEO
    BY <1>1, FileFacts
  <2>2. Position(LEO, logFile[b]) = Cardinality(logFile[b])
    BY <2>1, PositionAtEnd
  <2>3. e.offset = LEO /\ e.pos = Cardinality(logFile[b])
    BY <1>2, <1>5
  <2> QED
    BY <1>2, <1>3, <2>2, <2>3
<1> QED
  BY <1>4, <1>5 DEF IndexAfterAppend

\* The entries replaceContents writes give exact positions.
LEMMA RebuiltEntries ==
    ASSUME IInv, NEW b \in segments, NEW e \in RebuiltIndex(logFile[b])
    PROVE  /\ e.pos <= Position(e.offset, logFile[b])
           /\ e.offset <= b => e.pos = 0
<1> DEFINE R == logFile[b]
<1>1. PICK r \in R : e = [offset |-> r.offset, pos |-> Position(r.offset, R)]
  BY DEF RebuiltIndex
<1>2. /\ IsFiniteSet(R) /\ b \in Nat /\ Cardinality({}) = 0
      /\ \A q \in R : q.offset \in Int /\ b <= q.offset
  BY FileFacts, FS_EmptySet
<1> HIDE DEF R
<1>3. e.offset = r.offset /\ e.pos = Position(r.offset, R)
  BY <1>1
<1>4. Position(r.offset, R) \in Nat
  BY <1>2, PositionMonotone
<1>5. ASSUME r.offset <= b PROVE Position(r.offset, R) = 0
  <2>1. {q \in R : q.offset < r.offset} = {}
    BY <1>2, <1>5
  <2> QED
    BY <1>2, <2>1 DEF Position
<1> QED
  BY <1>3, <1>4, <1>5 DEF R

LEMMA IndexedKept ==
    ASSUME IInv, Indexed, [Next]_vars
    PROVE  Indexed'
<1>i. IInv'
  BY NextInv
<1>1. CASE Moves
  BY <1>1 DEF Moves, Quiet, Indexed, EntriesBelow, FirstEntry, EndKnown
<1>2. CASE Restart
  <2>1. /\ UNCHANGED <<segments, logFile, index, interrupted>>
        /\ nextOffset' = [b \in Offsets |-> RecoveredNextOffset(b)]
    BY <1>2 DEF Restart, disk, history
  <2>2. EndKnown'
    <3> SUFFICES ASSUME NEW b \in segments, logFile[b] # {} PROVE b < nextOffset'[b]
      BY <2>1 DEF EndKnown
    <3>1. /\ b \in Offsets /\ b \in Nat /\ Cardinality(logFile[b]) \in Nat
          /\ Cardinality(logFile[b]) # 0
      BY FileFacts
    <3>2. nextOffset'[b] = b + Cardinality(logFile[b])
      BY <2>1, <3>1 DEF RecoveredNextOffset
    <3> QED
      BY <3>1, <3>2
  <2> QED
    BY <2>1, <2>2 DEF Indexed, EntriesBelow, FirstEntry
<1>3. ASSUME NEW b \in Offsets, NEW k \in Keys \cup {NoKey}, NEW v \in Values \cup {Empty},
             Appended(b, k, v)
      PROVE  Indexed'
  <2>1. /\ AtEnd(b) /\ segments' = segments \cup {b} /\ interrupted' = interrupted
        /\ logFile[b] \in SUBSET logFile'[b] /\ index'[b] = IndexAfterAppend(b)
        /\ nextOffset'[b] = LEO + 1
    BY <1>3 DEF Appended
  <2>2. \A c \in segments' : c # b => /\ c \in segments /\ logFile'[c] = logFile[c]
                                     /\ index'[c] = index[c] /\ nextOffset'[c] = nextOffset[c]
    BY <1>3, LEOTyped DEF Appended
  <2>3. ASSUME NEW e \in index'[b]
        PROVE  /\ b \notin interrupted => e.pos <= Position(e.offset, logFile'[b])
               /\ e.offset <= b => e.pos = 0
    <3>1. /\ e.offset \in Int /\ e.pos \in Nat
          /\ b \notin interrupted => e.pos <= Position(e.offset, logFile[b])
          /\ e.offset <= b => e.pos = 0
      BY <2>1, <2>3, NewEntry
    <3>2. IsFiniteSet(logFile'[b]) /\ \A r \in logFile'[b] : r.offset \in Int
      <4>1. IsFiniteSet(logFile'[b]) /\ logFile'[b] \in SUBSET Record
        BY <1>i DEF IInv, Shape, Counted, TypeOK
      <4>2. \A r \in Record : r.offset \in Int
        BY OffsetsNat DEF Record
      <4> QED
        BY <4>1, <4>2
    <3>3. /\ Position(e.offset, logFile[b]) \in Nat /\ Position(e.offset, logFile'[b]) \in Nat
          /\ Position(e.offset, logFile[b]) <= Position(e.offset, logFile'[b])
      BY <2>1, <3>1, <3>2, PositionMonotone
    <3> QED
      BY <3>1, <3>3
  <2>4. b < LEO + 1
    <3>1. /\ b \in Nat /\ LEO \in Nat /\ Cardinality(logFile[b]) \in Nat
          /\ b + Cardinality(logFile[b]) = LEO
      BY <2>1, LEOTyped, OffsetsNat, CountedNat DEF AtEnd, IInv, Shape
    <3> QED
      BY <3>1
  <2>5. EntriesBelow'
    BY <2>1, <2>2, <2>3 DEF Indexed, EntriesBelow
  <2>6. FirstEntry'
    BY <2>1, <2>2, <2>3 DEF Indexed, FirstEntry
  <2>7. EndKnown'
    BY <2>1, <2>2, <2>4 DEF Indexed, EndKnown
  <2> QED
    BY <2>5, <2>6, <2>7 DEF Indexed
<1>4. ASSUME NEW b \in Offsets, Torn(b) PROVE Indexed'
  <2>1. /\ AtEnd(b) /\ segments' = segments \cup {b}
        /\ UNCHANGED <<interrupted, logFile, nextOffset>>
        /\ index'[b] \subseteq IndexAfterAppend(b)
    BY <1>4 DEF Torn, IndexAfterAppend
  <2>2. \A c \in segments' : c # b => c \in segments /\ index'[c] = index[c]
    BY <1>4, LEOTyped DEF Torn
  <2>3. ASSUME NEW e \in index'[b]
        PROVE  /\ b \notin interrupted => e.pos <= Position(e.offset, logFile[b])
               /\ e.offset <= b => e.pos = 0
    BY <2>1, <2>3, NewEntry
  <2>4. b \in segments \/ logFile[b] = {}
    BY <2>1 DEF AtEnd, IInv, Shape, ActiveIsLast
  <2>5. EntriesBelow'
    BY <2>1, <2>2, <2>3 DEF Indexed, EntriesBelow
  <2>6. FirstEntry'
    BY <2>1, <2>2, <2>3 DEF Indexed, FirstEntry
  <2>7. EndKnown'
    BY <2>1, <2>4 DEF Indexed, EndKnown
  <2> QED
    BY <2>5, <2>6, <2>7 DEF Indexed
<1>5. ASSUME NEW b \in Offsets, Removed(b) PROVE Indexed'
  <2>1. /\ segments' = segments \ {b} /\ interrupted' = interrupted \ {b}
        /\ \A c \in segments' : /\ logFile'[c] = logFile[c] /\ index'[c] = index[c]
                               /\ nextOffset'[c] = nextOffset[c]
    BY <1>5, LEOTyped DEF Removed
  <2> QED
    BY <2>1 DEF Indexed, EntriesBelow, FirstEntry, EndKnown
<1>6. ASSUME NEW b \in Offsets, Rewritten(b) PROVE Indexed'
  <2>1. /\ interrupted' = interrupted \cup {b} /\ logFile'[b] \subseteq logFile[b]
        /\ UNCHANGED <<segments, index, nextOffset>>
        /\ \A c \in segments : c # b => logFile'[c] = logFile[c]
    BY <1>6, LEOTyped DEF Rewritten, Kept, SegmentRead
  <2>2. EntriesBelow' /\ FirstEntry'
    BY <2>1 DEF Indexed, EntriesBelow, FirstEntry
  <2>3. EndKnown'
    BY <2>1 DEF Indexed, EndKnown
  <2> QED
    BY <2>2, <2>3 DEF Indexed
<1>7. ASSUME NEW b \in Offsets, Reindexed(b) PROVE Indexed'
  <2>1. /\ b \in segments /\ index'[b] = RebuiltIndex(logFile[b])
        /\ interrupted' = interrupted \ {b} /\ UNCHANGED <<segments, logFile, nextOffset>>
        /\ \A c \in segments : c # b => index'[c] = index[c]
    BY <1>7, LEOTyped DEF Reindexed
  <2>2. EntriesBelow' /\ FirstEntry'
    BY <2>1, RebuiltEntries DEF Indexed, EntriesBelow, FirstEntry
  <2>3. EndKnown'
    BY <2>1 DEF Indexed, EndKnown
  <2> QED
    BY <2>2, <2>3 DEF Indexed
<1> QED
  BY <1>1, <1>2, <1>3, <1>4, <1>5, <1>6, <1>7, StepIs

LEMMA IndexedInit == ASSUME Init PROVE Indexed
<1>1. index = [b \in Offsets |-> {}] /\ logFile = [b \in Offsets |-> {}] /\ segments = {0} /\ 0 \in Offsets
  BY OffsetsNat, ConstantsAssumption DEF Init
<1> QED
  BY <1>1 DEF Indexed, EntriesBelow, FirstEntry, EndKnown

\* A non-empty set of natural numbers has a least element, and a greatest one
\* when it is bounded.
LEMMA LeastOf ==
    ASSUME NEW T \in SUBSET Nat, T # {}
    PROVE  \E x \in T : \A y \in T : x <= y
<1> DEFINE R == OpToRel(<, Nat)
<1>1. IsWellFoundedOn(R, Nat)
  BY NatLessThanWellFounded
<1>2. \A x, y \in Nat : <<x, y>> \in R <=> x < y
  BY DEF OpToRel
<1> HIDE DEF R
<1>3. PICK x \in T : \A y \in T : ~ (<<y, x>> \in R)
  BY <1>1, WFMin
<1>4. x \in Nat /\ \A y \in T : y \in Nat /\ ~(y < x)
  BY <1>2, <1>3
<1> QED
  BY <1>4

LEMMA GreatestOf ==
    ASSUME NEW T \in SUBSET Nat, T # {}, NEW m \in Nat, \A x \in T : x <= m
    PROVE  \E x \in T : \A y \in T : y <= x
<1> DEFINE U == {n \in Nat : \A x \in T : x <= n}
<1>1. U \in SUBSET Nat /\ m \in U
  OBVIOUS
<1>2. PICK n \in U : \A y \in U : n <= y
  BY <1>1, LeastOf
<1>3. n \in Nat /\ \A x \in T : x \in Nat /\ x <= n
  BY <1>2
<1>4. n \in T
  <2> SUFFICES ASSUME n \notin T PROVE FALSE
    OBVIOUS
  <2>1. PICK t \in T : TRUE
    OBVIOUS
  <2>2. \A x \in T : x \in Nat /\ x < n
    BY <1>3
  <2>3. n - 1 \in Nat /\ \A x \in T : x <= n - 1
    BY <1>3, <2>1, <2>2
  <2> QED
    BY <1>2, <1>3, <2>3
<1> QED
  BY <1>3, <1>4

\* Index.Lookup never skips a record at or above the offset it looks for.
LEMMA LookupSound ==
    ASSUME IInv, Indexed, NEW b \in segments \ interrupted, NEW o \in Offsets,
           NEW r \in logFile[b], r.offset >= o
    PROVE  Position(r.offset, logFile[b]) >= Lookup(index[b], o)
<1> DEFINE below == {e \in index[b] : e.offset <= o}
           offs == {e.offset : e \in below}
<1>1. /\ IsFiniteSet(logFile[b]) /\ \A q \in logFile[b] : q.offset \in Int
      /\ \A e \in index[b] : e.offset \in Offsets /\ e.offset \in Int /\ e.pos \in Nat
  BY FileFacts
<1>2. o \in Nat /\ Position(r.offset, logFile[b]) \in Nat
  BY <1>1, OffsetsNat, PositionMonotone
<1>3. CASE below = {}
  BY <1>2, <1>3 DEF Lookup
<1>4. CASE below # {}
  <2>1. offs \in SUBSET Nat /\ offs # {} /\ \A x \in offs : x <= o
    BY <1>1, <1>4, OffsetsNat
  <2>2. \E x \in offs : \A y \in offs : y <= x
    BY <1>2, <2>1, GreatestOf
  <2>3. \E e \in below : \A f \in below : f.offset <= e.offset
    BY <2>2
  <2>4. PICK e \in below : e = CHOOSE g \in below : \A f \in below : f.offset <= g.offset
    BY <2>3
  <2>5. Lookup(index[b], o) = e.pos
    BY <1>4, <2>4 DEF Lookup
  <2>6. e.pos <= Position(e.offset, logFile[b]) /\ e.pos \in Nat /\ e.offset \in Int /\ e.offset <= r.offset
    BY <1>1, <1>2 DEF Indexed, EntriesBelow
  <2>7. Position(e.offset, logFile[b]) <= Position(r.offset, logFile[b])
        /\ Position(e.offset, logFile[b]) \in Nat
    BY <1>1, <2>6, PositionMonotone
  <2> QED
    BY <1>2, <2>5, <2>6, <2>7
<1> QED
  BY <1>3, <1>4

\* CompactSegments reads whole segments, interrupted ones too.
LEMMA ReadFromBase ==
    ASSUME IInv, Indexed, NEW b \in segments
    PROVE  SegmentRead(b, b) = logFile[b]
<1>1. /\ b \in Nat /\ IsFiniteSet(logFile[b])
      /\ \A r \in logFile[b] : r.offset \in Int /\ b <= r.offset
  BY FileFacts
<1>2. \A r \in logFile[b] : Position(r.offset, logFile[b]) \in Nat
  BY <1>1, PositionMonotone
<1>3. nextOffset[b] \in Nat
  BY LEOTyped, OffsetsNat DEF IInv, TypeOK
<1>4. Lookup(index[b], b) = 0
  <2> DEFINE below == {e \in index[b] : e.offset <= b}
             offs == {e.offset : e \in below}
  <2>1. CASE below = {}
    BY <2>1 DEF Lookup
  <2>2. CASE below # {}
    <3>1. offs \in SUBSET Nat /\ offs # {} /\ \A x \in offs : x <= b
      BY <2>2, FileFacts, OffsetsNat
    <3>2. \E x \in offs : \A y \in offs : y <= x
      BY <1>1, <3>1, GreatestOf
    <3>3. PICK e \in below : e = CHOOSE g \in below : \A f \in below : f.offset <= g.offset
      BY <3>2
    <3>4. e.pos = 0
      BY DEF Indexed, FirstEntry
    <3> QED
      BY <2>2, <3>3, <3>4 DEF Lookup
  <2> QED
    BY <2>1, <2>2
<1>5. CASE logFile[b] = {}
  BY <1>5 DEF SegmentRead
<1>6. CASE logFile[b] # {}
  <2>1. ~(b >= nextOffset[b])
    BY <1>1, <1>3, <1>6 DEF Indexed, EndKnown
  <2> QED
    BY <1>1, <1>2, <1>4, <2>1 DEF SegmentRead
<1> QED
  BY <1>5, <1>6
-------------------------------------------------------------------------------
(* Keys *)

\* KeyViewExact for one key.
KeyView(k) ==
    \/ /\ newest[k] \in AllRecords /\ newest[k].key = k
       /\ \A r \in AllRecords : r.key = k => r.offset <= newest[k].offset
    \/ /\ \A r \in AllRecords : r.key # k
       /\ newest[k].value = Empty \/ \A b \in segments : newest[k].offset < b

LEMMA KeyViewIs == KeyViewExact <=> \A k \in Keys : KeyView(k)
  BY DEF KeyViewExact, KeyView

\* What the steps do to the records on disk.
LEMMA AppendedRecords ==
    ASSUME IInv, NEW b \in Offsets, NEW k \in Keys \cup {NoKey}, NEW v \in Values \cup {Empty},
           Appended(b, k, v)
    PROVE  AllRecords' = AllRecords \cup {Rec(LEO, k, v)}
<1>1. b \in segments \/ logFile[b] = {}
  BY DEF Appended, AtEnd, IInv, Shape, ActiveIsLast
<1>2. /\ segments' = segments \cup {b} /\ logFile'[b] = logFile[b] \cup {Rec(LEO, k, v)}
      /\ \A c \in segments : c # b => logFile'[c] = logFile[c]
  BY LEOTyped DEF Appended
<1> QED
  BY <1>1, <1>2 DEF AllRecords

LEMMA TornRecords == ASSUME IInv, NEW b \in Offsets, Torn(b) PROVE AllRecords' = AllRecords
<1>1. b \in segments \/ logFile[b] = {}
  BY DEF Torn, AtEnd, IInv, Shape, ActiveIsLast
<1>2. segments' = segments \cup {b} /\ logFile' = logFile
  BY DEF Torn
<1> QED
  BY <1>1, <1>2 DEF AllRecords

LEMMA RewrittenRecords ==
    ASSUME IInv, Indexed, NEW b \in Offsets, Rewritten(b)
    PROVE  /\ logFile'[b] = Kept(logFile[b])
           /\ \A c \in segments : c # b => logFile'[c] = logFile[c]
           /\ AllRecords' \subseteq AllRecords
           /\ \A r \in AllRecords \ AllRecords' : r \in logFile[b] /\ r \notin logFile'[b]
<1>1. b \in segments /\ segments' = segments /\ logFile'[b] = Kept(logFile[b])
  BY ReadFromBase DEF Rewritten
<1>2. \A c \in segments : c # b => logFile'[c] = logFile[c]
  BY LEOTyped DEF Rewritten
<1>3. Kept(logFile[b]) \subseteq logFile[b]
  BY DEF Kept
<1> QED
  BY <1>1, <1>2, <1>3 DEF AllRecords

\* Of the records with a key, compaction keeps the last ones only.
LEMMA KeptIsLatest ==
    ASSUME IInv, KeyViewExact, Mapped, NEW b \in segments, NEW r \in Kept(logFile[b]), r.key \in Keys
    PROVE  r = newest[r.key] /\ r.value # Empty
<1>1. r \in logFile[b] /\ <<r.key, r.offset>> \in keyLatestOffset /\ r.value # Empty
  BY ConstantsAssumption DEF Kept
<1>2. r \in AllRecords
  BY <1>1 DEF AllRecords
<1>3. r.offset = newest[r.key].offset
  BY <1>1, FileFacts DEF Mapped
<1>4. newest[r.key] \in AllRecords
  BY <1>2, KeyViewIs DEF KeyView
<1> QED
  BY <1>1, <1>2, <1>3, <1>4, OneRecord DEF OffsetsUnique

LEMMA KeyedInit == ASSUME Init PROVE Keyed
<1>1. /\ segments = {0} /\ 0 \in Offsets /\ logFile = [b \in Offsets |-> {}] /\ cleaner = "idle"
      /\ newest = [k \in Keys |-> None] /\ LEO = 0
  BY OffsetsNat, ConstantsAssumption DEF Init, LEO
<1>2. AllRecords = {}
  BY <1>1 DEF AllRecords
<1>3. KeyViewExact /\ NewestBelow
  BY <1>1, <1>2, KeyViewIs DEF KeyView, NewestBelow, None
<1> QED
  BY <1>1, <1>3 DEF Keyed, Locked

\* The newest record of a key is below the base of a segment an append creates.
LEMMA TailAboveNewest ==
    ASSUME IInv, Keyed, NEW b, AtEnd(b), NEW k \in Keys,
           \A c \in segments : newest[k].offset < c
    PROVE  \A c \in segments \cup {b} : newest[k].offset < c
<1>1. b \in segments \/ b = LEO
  BY DEF AtEnd, IInv, Shape, ActiveIsLast
<1> QED
  BY <1>1 DEF Keyed, NewestBelow

\* CompactSegments goes on to the next segment; the one it leaves holds the last
\* records of keys only.
LEMMA VisitedKeyed ==
    ASSUME IInv, Mapped, Compacted, KeyViewExact', NewestBelow', NEW b \in segments, NextToCompact(b),
           Latest(b), Visited(b), UNCHANGED <<segments, logFile, newest, activeSegment>>
    PROVE  Keyed'
<1>1. CASE ~Locked'
  BY <1>1 DEF Keyed
<1>2. CASE Locked'
  <2>1. pending' = pending \ {b} /\ cleaner' = "rewrite" /\ UNCHANGED keyLatestOffset
    BY <1>2 DEF Visited, CompactDone, Locked
  <2>2. Mapped'
    BY <2>1 DEF Mapped, AllRecords
  <2>3. ASSUME NEW d \in pending', NEW c \in segments \ {activeSegment}, d < c PROVE c \in pending'
    <3>1. d \in pending /\ b <= d /\ c \in pending
      BY <2>1, <2>3 DEF NextToCompact, Compacted
    <3>2. b \in Nat /\ c \in Nat /\ d \in Nat
      BY <3>1, LEOTyped, OffsetsNat DEF IInv, TypeOK
    <3> QED
      BY <2>1, <2>3, <3>1, <3>2
  <2>4. \A c \in segments \ (pending' \cup {activeSegment}) : Latest(c)
    BY <2>1 DEF Compacted
  <2>5. Compacted'
    BY <2>1, <2>3, <2>4 DEF Compacted, Latest
  <2> QED
    BY <2>2, <2>5 DEF Keyed
<1> QED
  BY <1>1, <1>2

LEMMA MovesKeyed == ASSUME IInv, Indexed, Keyed, Moves PROVE Keyed'
<1>1. /\ UNCHANGED <<segments, logFile, newest, activeSegment, nextOffset>>
      /\ AllRecords' = AllRecords /\ LEO' = LEO
  BY DEF Moves, Quiet, AllRecords, LEO
<1>2. KeyViewExact' /\ NewestBelow'
  BY <1>1 DEF Keyed, KeyViewExact, NewestBelow
<1>3. CASE ~Locked'
  BY <1>2, <1>3 DEF Keyed
<1>4. CASE UNCHANGED clean
  <2>1. UNCHANGED <<cleaner, pending, keyLatestOffset>> /\ (Locked' <=> Locked)
    BY <1>4 DEF clean, Locked
  <2>2. Locked' => Mapped'
    BY <1>1, <2>1 DEF Keyed, Mapped
  <2>3. Locked' => Compacted'
    BY <1>1, <2>1 DEF Keyed, Compacted, Latest, NextToCompact
  <2> QED
    BY <1>2, <2>2, <2>3 DEF Keyed
<1>5. CASE CompactBegin /\ Locked'
  <2>1. /\ cleaner' = "rewrite" /\ pending' = segments \ {activeSegment}
        /\ keyLatestOffset' = LatestPairs(UNION {SegmentRead(b, b) : b \in segments})
    BY <1>5 DEF CompactBegin, ClosedSegments, Locked
  <2>2. keyLatestOffset' = LatestPairs(AllRecords)
    <3>1. {SegmentRead(b, b) : b \in segments} = {logFile[b] : b \in segments}
      BY ReadFromBase
    <3> QED
      BY <2>1, <3>1 DEF AllRecords
  <2>3. Compacted'
    BY <1>1, <2>1 DEF Compacted
  <2>4. ASSUME NEW k \in Keys, NEW o \in Offsets, <<k, o>> \in LatestPairs(AllRecords)
        PROVE  o = newest[k].offset
    <3>1. PICK r \in AllRecords : /\ r.key = k /\ r.offset = o
                                  /\ \A q \in AllRecords : q.key = k => q.offset <= o
      BY <2>4 DEF LatestPairs
    <3>2. /\ newest[k] \in AllRecords /\ newest[k].key = k /\ o <= newest[k].offset
      BY <3>1, KeyViewIs DEF Keyed, KeyView
    <3>3. newest[k].offset \in Int /\ o \in Int
      BY <3>2, FileFacts, OffsetsNat DEF AllRecords
    <3> QED
      BY <3>1, <3>2, <3>3
  <2>5. ASSUME NEW k \in Keys, newest[k] \in AllRecords, newest[k].key = k
        PROVE  <<k, newest[k].offset>> \in LatestPairs(AllRecords)
    <3>1. /\ newest[k].key # NoKey
          /\ \A r \in AllRecords : r.key = k => r.offset <= newest[k].offset
      BY <2>5, KeyViewIs, ConstantsAssumption DEF Keyed, KeyView
    <3> QED
      BY <2>5, <3>1 DEF LatestPairs
  <2>6. Mapped'
    BY <1>1, <2>2, <2>4, <2>5 DEF Mapped
  <2> QED
    BY <1>2, <2>3, <2>6 DEF Keyed
<1>6. CASE SkipSegment /\ Locked'
  <2>1. PICK b \in pending : /\ NextToCompact(b) /\ Kept(SegmentRead(b, b)) = SegmentRead(b, b)
                             /\ Visited(b)
    BY <1>6 DEF SkipSegment
  <2>2. cleaner = "rewrite" /\ Locked /\ b \in segments
    BY <1>6 DEF SkipSegment, Locked, IInv, Shape, CleanerClosed
  <2>3. Mapped /\ Compacted /\ KeyViewExact
    BY <2>2 DEF Keyed
  <2>4. Latest(b)
    <3>1. Kept(logFile[b]) = logFile[b]
      BY <2>1, <2>2, ReadFromBase
    <3> QED
      BY <2>2, <2>3, <3>1, KeptIsLatest DEF Latest
  <2> QED
    BY <1>1, <1>2, <1>6, <2>1, <2>2, <2>3, <2>4, VisitedKeyed
<1>7. CASE Crash
  BY <1>2, <1>7 DEF Crash, LoseMemory, Keyed, Locked
<1> QED
  BY <1>3, <1>4, <1>5, <1>6, <1>7 DEF Moves

LEMMA AppendedKeyed ==
    ASSUME IInv, Keyed, NEW b \in Offsets, NEW k \in Keys \cup {NoKey}, NEW v \in Values \cup {Empty},
           Appended(b, k, v), LEO' = LEO + 1
    PROVE  Keyed'
<1> DEFINE new == Rec(LEO, k, v)
<1>1. AllRecords' = AllRecords \cup {new} /\ segments' = segments \cup {b} /\ AtEnd(b)
  BY AppendedRecords DEF Appended
<1>2. new.offset = LEO /\ new.key = k /\ LEO \in Nat
  BY LEOTyped DEF Rec
<1>3. \A r \in AllRecords : r.offset \in Int /\ r.offset < LEO
  BY FileFacts DEF AllRecords
<1>4. \A c \in Keys : newest'[c] = IF c = k THEN new ELSE newest[c]
  BY ConstantsAssumption DEF Appended, IInv, TypeOK
<1>5. ~Locked'
  BY DEF Appended, Locked, clean
<1> HIDE DEF new
<1>6. ASSUME NEW c \in Keys PROVE KeyView(c)'
  <2>1. CASE c = k
    BY <1>1, <1>2, <1>3, <1>4, <2>1 DEF KeyView
  <2>2. CASE c # k
    <3>1. newest'[c] = newest[c] /\ new.key # c /\ KeyView(c)
      BY <1>2, <1>4, <2>2, KeyViewIs DEF Keyed
    <3>2. (\A d \in segments : newest[c].offset < d) => (\A d \in segments' : newest[c].offset < d)
      BY <1>1, TailAboveNewest
    <3> QED
      BY <1>1, <3>1, <3>2 DEF KeyView
  <2> QED
    BY <2>1, <2>2
<1>7. KeyViewExact'
  BY <1>6 DEF KeyView, KeyViewExact
<1>8. NewestBelow'
  <2>1. \A c \in Keys : newest[c].offset \in Int
    BY OffsetsNat DEF IInv, TypeOK, Record, None
  <2> QED
    BY <1>2, <1>4, <2>1 DEF Keyed, NewestBelow
<1> QED
  BY <1>5, <1>7, <1>8 DEF Keyed

LEMMA TornKeyed == ASSUME IInv, Keyed, NEW b \in Offsets, Torn(b) PROVE Keyed'
<1>1. /\ AllRecords' = AllRecords /\ segments' = segments \cup {b} /\ AtEnd(b) /\ LEO' = LEO
      /\ newest' = newest /\ ~Locked'
  BY TornRecords DEF Torn, LEO, Locked
<1>2. \A c \in Keys : (\A d \in segments : newest[c].offset < d)
                          => (\A d \in segments' : newest[c].offset < d)
  BY <1>1, TailAboveNewest
<1>3. \A c \in Keys : KeyView(c)'
  BY <1>1, <1>2, KeyViewIs DEF Keyed, KeyView
<1>4. KeyViewExact'
  BY <1>3 DEF KeyView, KeyViewExact
<1> QED
  BY <1>1, <1>4 DEF Keyed, NewestBelow

\* When the last record of a key goes with the oldest segment, so do all its
\* others, and the key is below the log start.
LEMMA RemovedKeyed == ASSUME IInv, Keyed, NEW b \in Offsets, Removed(b), LEO' = LEO PROVE Keyed'
<1>1. /\ b \in segments /\ segments' = segments \ {b} /\ newest' = newest
      /\ \A c \in segments : b <= c
      /\ \A c \in segments' : logFile'[c] = logFile[c]
  BY LEOTyped DEF Removed, IsOldest
<1>2. ~Locked'
  BY DEF Removed, Locked, AfterSizeRetention
<1>3. \A r : r \in AllRecords' <=> \E c \in segments : c # b /\ r \in logFile[c]
  BY <1>1 DEF AllRecords
<1>4. AllRecords' \subseteq AllRecords
  BY <1>3 DEF AllRecords
<1>5. \A r \in AllRecords' : \A q \in logFile[b] : q.offset < r.offset
  <2> SUFFICES ASSUME NEW c \in segments, c # b, NEW r \in logFile[c], NEW q \in logFile[b]
               PROVE  q.offset < r.offset
    BY <1>3
  <2>1. b < c /\ c <= r.offset /\ q.offset < c
    BY <1>1, FileFacts DEF IInv, Shape, Layout
  <2>2. c \in Int /\ r.offset \in Int /\ q.offset \in Int
    BY <1>1, FileFacts
  <2> QED
    BY <2>1, <2>2
<1>6. \A c \in segments' : \A q \in logFile[b] : q.offset < c
  BY <1>1, FileFacts DEF IInv, Shape, Layout
<1>7. ASSUME NEW k \in Keys PROVE KeyView(k)'
  <2>1. KeyView(k)
    BY KeyViewIs DEF Keyed
  <2>2. CASE newest[k] \in AllRecords' /\ newest[k].key = k
    BY <1>1, <1>4, <2>1, <2>2 DEF KeyView
  <2>3. CASE newest[k] \in logFile[b] /\ newest[k].key = k
    <3>1. \A r \in AllRecords' : r.key # k
      <4> SUFFICES ASSUME NEW r \in AllRecords', r.key = k PROVE FALSE
        OBVIOUS
      <4>1. newest[k].offset < r.offset
        BY <1>5, <2>3
      <4>2. r \in AllRecords /\ r.offset <= newest[k].offset
        BY <1>4, <2>1 DEF KeyView
      <4>3. r.offset \in Int /\ newest[k].offset \in Int
        BY <1>1, <2>3, <4>2, FileFacts DEF AllRecords
      <4> QED
        BY <4>1, <4>2, <4>3
    <3>2. \A c \in segments' : newest[k].offset < c
      BY <1>6, <2>3
    <3> QED
      BY <1>1, <3>1, <3>2 DEF KeyView
  <2>4. CASE \A r \in AllRecords : r.key # k
    <3>1. newest[k].value = Empty \/ \A c \in segments : newest[k].offset < c
      BY <2>1, <2>4 DEF KeyView
    <3> QED
      BY <1>1, <1>4, <2>4, <3>1 DEF KeyView
  <2>5. newest[k] \in AllRecords => newest[k] \in AllRecords' \/ newest[k] \in logFile[b]
    BY <1>3 DEF AllRecords
  <2> QED
    BY <2>1, <2>2, <2>3, <2>4, <2>5 DEF KeyView
<1>8. KeyViewExact'
  BY <1>7 DEF KeyView, KeyViewExact
<1> QED
  BY <1>1, <1>2, <1>8 DEF Keyed, NewestBelow

\* A tombstone is dropped after every older record of its key: those are in the
\* same segment or in segments CompactSegments has visited.
LEMMA RewrittenKeyed == ASSUME IInv, Indexed, Keyed, NEW b \in Offsets, Rewritten(b) PROVE Keyed'
<1>1. /\ alive /\ Locked /\ cleaner' = "swap" /\ b \in segments \ {activeSegment} /\ NextToCompact(b)
      /\ UNCHANGED <<segments, activeSegment, nextOffset, newest, pending, keyLatestOffset>>
  BY DEF Rewritten, Locked
<1>2. Mapped /\ Compacted /\ KeyViewExact /\ LEO' = LEO
  BY <1>1 DEF Keyed, LEO
<1>3. /\ logFile'[b] = Kept(logFile[b])
      /\ \A c \in segments : c # b => logFile'[c] = logFile[c]
      /\ AllRecords' \subseteq AllRecords
      /\ \A r \in AllRecords \ AllRecords' : r \in logFile[b] /\ r \notin logFile'[b]
  BY RewrittenRecords
<1>4. \A r \in logFile'[b] : r.key \in Keys => r = newest[r.key]
  BY <1>1, <1>2, <1>3, KeptIsLatest
<1>5. ASSUME NEW k \in Keys PROVE KeyView(k)'
  <2>1. KeyView(k)
    BY <1>2, KeyViewIs
  <2>2. CASE newest[k] \in AllRecords' /\ newest[k].key = k
    BY <1>1, <1>3, <2>1, <2>2 DEF KeyView
  <2>3. CASE newest[k] \in AllRecords \ AllRecords' /\ newest[k].key = k
    <3>1. newest[k] \in logFile[b] /\ newest[k] \notin logFile'[b]
      BY <1>3, <2>3
    <3>2. newest[k].value = Empty
      BY <1>2, <1>3, <2>3, <3>1 DEF Mapped, Kept
    <3>3. \A r \in AllRecords' : r.key # k
      <4> SUFFICES ASSUME NEW r \in AllRecords', r.key = k PROVE FALSE
        OBVIOUS
      <4>1. PICK c \in segments : r \in logFile'[c]
        BY <1>1 DEF AllRecords
      <4>2. c # b
        BY <1>4, <3>1, <4>1
      <4>3. r \in logFile[c] /\ r \in AllRecords /\ r.offset <= newest[k].offset
        BY <1>3, <2>1, <4>1, <4>2 DEF KeyView
      <4>4. /\ b \in Int /\ c \in Int /\ activeSegment \in Int
            /\ r.offset \in Int /\ newest[k].offset \in Int
            /\ c <= r.offset /\ b <= newest[k].offset /\ b <= activeSegment
        BY <1>1, <3>1, <4>3, FileFacts, LEOTyped, OffsetsNat DEF IInv, Shape, ActiveIsLast
      <4>5. CASE b < c
        <5>1. newest[k].offset < c
          BY <1>1, <3>1, <4>5 DEF IInv, Shape, Layout
        <5> QED
          BY <4>3, <4>4, <5>1
      <4>6. CASE c < b
        <5>1. c \notin pending /\ c # activeSegment
          BY <1>1, <4>4, <4>6 DEF NextToCompact
        <5>2. r = newest[k]
          BY <1>2, <4>3, <5>1 DEF Compacted, Latest
        <5>3. r.offset < b
          BY <1>1, <4>3, <4>6 DEF IInv, Shape, Layout
        <5> QED
          BY <4>4, <5>2, <5>3
      <4> QED
        BY <4>2, <4>4, <4>5, <4>6
    <3> QED
      BY <1>1, <3>2, <3>3 DEF KeyView
  <2>4. CASE \A r \in AllRecords : r.key # k
    <3>1. newest[k].value = Empty \/ \A c \in segments : newest[k].offset < c
      BY <2>1, <2>4 DEF KeyView
    <3> QED
      BY <1>1, <1>3, <2>4, <3>1 DEF KeyView
  <2> QED
    BY <2>1, <2>2, <2>3, <2>4 DEF KeyView
<1>6. KeyViewExact'
  BY <1>5 DEF KeyView, KeyViewExact
<1>7. NewestBelow'
  BY <1>1, <1>2 DEF Keyed, NewestBelow
<1>8. Mapped'
  BY <1>1, <1>2, <1>3 DEF Mapped
<1>9. Compacted'
  <2>1. \A c \in segments \ (pending \cup {activeSegment}) : Latest(c)'
    BY <1>1, <1>2, <1>3 DEF Compacted, Latest, NextToCompact
  <2>2. ASSUME NEW c \in pending, NextToCompact(c) PROVE c = b
    BY <1>1, <2>2, OffsetsNat, SMTT(30) DEF NextToCompact, IInv, TypeOK
  <2>3. Latest(b)'
    BY <1>1, <1>4 DEF Latest
  <2>4. \A c \in pending : NextToCompact(c)' => Latest(c)'
    BY <1>1, <2>2, <2>3 DEF NextToCompact
  <2> QED
    BY <1>1, <1>2, <2>1, <2>4 DEF Compacted
<1> QED
  BY <1>6, <1>7, <1>8, <1>9 DEF Keyed

LEMMA KeyedKept == ASSUME IInv, Indexed, Keyed, [Next]_vars PROVE Keyed'
<1>1. CASE Moves
  BY <1>1, MovesKeyed
<1>2. CASE Restart
  <2>1. /\ UNCHANGED <<segments, logFile, newest, cleaner>> /\ cleaner = "idle" /\ LEO' = LEO
    BY <1>2, RestartInv DEF Restart, disk, clean, history, IInv, Shape, CleanerClosed
  <2> QED
    BY <2>1 DEF Keyed, KeyViewExact, AllRecords, NewestBelow, Locked
<1>3. ASSUME NEW b \in Offsets, NEW k \in Keys \cup {NoKey}, NEW v \in Values \cup {Empty},
             Appended(b, k, v)
      PROVE  Keyed'
  <2>1. LEO' = LEO + 1
    BY <1>3 DEF Appended, LEO
  <2> QED
    BY <1>3, <2>1, AppendedKeyed
<1>4. ASSUME NEW b \in Offsets, Torn(b) PROVE Keyed'
  BY <1>4, TornKeyed
<1>5. ASSUME NEW b \in Offsets, Removed(b) PROVE Keyed'
  <2>1. LEO' = LEO
    BY <1>5, LEOTyped DEF Removed, LEO
  <2> QED
    BY <1>5, <2>1, RemovedKeyed
<1>6. ASSUME NEW b \in Offsets, Rewritten(b) PROVE Keyed'
  BY <1>6, RewrittenKeyed
<1>7. ASSUME NEW b \in Offsets, Reindexed(b) PROVE Keyed'
  <2>1. /\ Locked /\ cleaner = "swap" /\ b \in segments /\ NextToCompact(b) /\ Visited(b)
        /\ UNCHANGED <<segments, logFile, newest, activeSegment>> /\ LEO' = LEO
    BY <1>7 DEF Reindexed, Locked, LEO
  <2>2. Mapped /\ Compacted /\ Latest(b)
    BY <2>1 DEF Keyed, Compacted, NextToCompact
  <2>3. KeyViewExact' /\ NewestBelow'
    BY <2>1 DEF Keyed, KeyViewExact, AllRecords, NewestBelow
  <2> QED
    BY <2>1, <2>2, <2>3, VisitedKeyed
<1> QED
  BY <1>1, <1>2, <1>3, <1>4, <1>5, <1>6, <1>7, StepIs
-------------------------------------------------------------------------------
(* The ends of the segments *)

LEMMA EndedInit == ASSUME Init PROVE Ended
<1>1. /\ segments = {0} /\ 0 \in Offsets /\ logFile = [b \in Offsets |-> {}] /\ cleaner = "idle"
      /\ nextOffset = [b \in Offsets |-> b] /\ interrupted = {} /\ alive
  BY OffsetsNat, ConstantsAssumption DEF Init
<1>2. logFile[0] = {} /\ Cardinality({}) = 0 /\ nextOffset[0] = 0
  BY <1>1, FS_EmptySet
<1> QED
  BY <1>1, <1>2 DEF Ended, EndsAbove, OnlySwapping, ByCounting

\* While the cleaner is not between the renames, every index belongs to its log.
LEMMA NoneInterrupted ==
    ASSUME NeverRecounted, Ended, cleaner # "swap" \/ ~CompactionEnabled
    PROVE  interrupted = {}
  BY DEF Ended, OnlySwapping, ByCounting

LEMMA MovesEnded == ASSUME IInv, Ended, Moves, NeverRecounted PROVE Ended'
<1>1. /\ UNCHANGED <<segments, logFile, interrupted, nextOffset>> /\ EndsAbove'
      /\ EndsAbove /\ OnlySwapping /\ ByCounting
  BY DEF Moves, Quiet, Ended, EndsAbove
<1>2. ASSUME ~Locked', UNCHANGED alive, cleaner' = "compact" => CompactionEnabled,
             cleaner = "swap" => "swap" \in Faults
      PROVE  Ended'
  <2>1. cleaner # "swap" \/ ~CompactionEnabled
    BY <1>2 DEF NeverRecounted
  <2>2. interrupted' = {}
    BY <1>1, <2>1, NoneInterrupted
  <2>3. ByCounting'
    BY <1>1, <1>2 DEF ByCounting, Locked
  <2> QED
    BY <1>1, <2>2, <2>3 DEF Ended, OnlySwapping
<1>3. CASE UNCHANGED <<alive, clean>>
  BY <1>1, <1>3 DEF Ended, OnlySwapping, ByCounting, NextToCompact, clean
<1>4. CASE CompactBegin \/ SkipSegment
  <2>1. cleaner \in {"compact", "rewrite"} /\ alive' = alive
    BY <1>4 DEF CompactBegin, SkipSegment
  <2>2. CompactionEnabled /\ interrupted' = {}
    BY <1>1, <2>1, NoneInterrupted DEF ByCounting
  <2> QED
    BY <1>1, <2>1, <2>2 DEF Ended, OnlySwapping, ByCounting
<1>5. CASE Crash
  <2>1. cleaner' = "idle" /\ ~CompactionEnabled
    BY <1>5 DEF Crash, LoseMemory, NeverRecounted
  <2>2. interrupted' = {}
    BY <1>1, <2>1, NoneInterrupted
  <2> QED
    BY <1>1, <2>1, <2>2 DEF Ended, OnlySwapping, ByCounting
<1> QED
  BY <1>2, <1>3, <1>4, <1>5 DEF Moves

LEMMA EndedKept == ASSUME IInv, Indexed, Ended, [Next]_vars PROVE Ended'
<1> SUFFICES ASSUME NeverRecounted PROVE Ended'
  BY DEF Ended
<1>i. IInv' /\ EndsAbove /\ OnlySwapping /\ ByCounting
  BY NextInv DEF Ended
<1>1. CASE Moves
  BY <1>1, MovesEnded
<1>2. CASE Restart
  <2>1. /\ UNCHANGED <<segments, logFile, interrupted, cleaner>> /\ ~alive
        /\ nextOffset' = [b \in Offsets |-> RecoveredNextOffset(b)]
    BY <1>2 DEF Restart, disk, clean, history
  <2>2. ~CompactionEnabled
    BY <1>i, <2>1 DEF ByCounting
  <2>3. interrupted' = {}
    BY <2>1, <2>2, NoneInterrupted
  <2>4. \A b \in segments : nextOffset'[b] = b + Cardinality(logFile[b]) /\ nextOffset'[b] = nextOffset[b]
    BY <1>i, <2>1, <2>2, LEOTyped DEF RecoveredNextOffset, ByCounting
  <2> QED
    BY <1>i, <2>1, <2>2, <2>3, <2>4 DEF Ended, EndsAbove, OnlySwapping, ByCounting
<1>3. ASSUME NEW b \in Offsets, NEW k \in Keys \cup {NoKey}, NEW v \in Values \cup {Empty},
             Appended(b, k, v)
      PROVE  Ended'
  <2>1. /\ AtEnd(b) /\ segments' = segments \cup {b} /\ activeSegment' = b
        /\ UNCHANGED <<alive, interrupted, cleaner, pending>> /\ alive /\ ~Locked
        /\ nextOffset'[b] = LEO + 1
        /\ logFile'[b] = logFile[b] \cup {Rec(LEO, k, v)}
    BY <1>3 DEF Appended, clean
  <2>2. \A c \in segments : c # b => logFile'[c] = logFile[c] /\ nextOffset'[c] = nextOffset[c]
    BY <1>3, LEOTyped DEF Appended
  <2>3. interrupted' = {}
    BY <2>1, NoneInterrupted DEF Locked
  <2>4. LEO' = LEO + 1 /\ LEO \in Nat
    BY <2>1, LEOTyped DEF LEO
  <2>5. \A r \in logFile'[b] : r.offset < LEO'
    BY <1>i, <2>1 DEF IInv, Shape, Layout
  <2>6. EndsAbove'
    BY <1>i, <2>1, <2>2, <2>4, <2>5 DEF EndsAbove
  <2>7. b + Cardinality(logFile'[b]) = LEO'
    BY <1>i, <2>1 DEF IInv, Shape, ActiveIsLast, EndsAtLEO
  <2>8. ByCounting'
    BY <1>i, <2>1, <2>2, <2>4, <2>7 DEF ByCounting
  <2> QED
    BY <2>3, <2>6, <2>8 DEF Ended, OnlySwapping
<1>4. ASSUME NEW b \in Offsets, Torn(b) PROVE Ended'
  <2>1. /\ AtEnd(b) /\ segments' = segments \cup {b} /\ cleaner' = "idle"
        /\ UNCHANGED <<logFile, interrupted, nextOffset>> /\ ~CompactionEnabled
    BY <1>4 DEF Torn, NeverRecounted
  <2>2. b \in segments \/ (logFile[b] = {} /\ nextOffset[b] = b)
    BY <2>1 DEF AtEnd, IInv, TypeOK, Shape, ActiveIsLast
  <2>3. interrupted' = {}
    BY <2>1, NoneInterrupted
  <2>4. EndsAbove'
    BY <1>i, <2>1, <2>2 DEF EndsAbove
  <2>5. Cardinality({}) = 0 /\ b \in Nat
    BY FS_EmptySet, OffsetsNat
  <2>6. ByCounting'
    BY <1>i, <2>1, <2>2, <2>5 DEF ByCounting
  <2> QED
    BY <2>3, <2>4, <2>6 DEF Ended, OnlySwapping
<1>5. ASSUME NEW b \in Offsets, Removed(b) PROVE Ended'
  <2>1. /\ segments' = segments \ {b} /\ interrupted' = interrupted \ {b} /\ ~Locked
        /\ \A c \in segments' : logFile'[c] = logFile[c] /\ nextOffset'[c] = nextOffset[c]
        /\ cleaner' \in {"time", "size", AfterSizeRetention} /\ alive' = alive
    BY <1>5, LEOTyped DEF Removed
  <2>2. interrupted' = {}
    BY <2>1, NoneInterrupted DEF Locked
  <2> QED
    BY <1>i, <2>1, <2>2 DEF Ended, EndsAbove, OnlySwapping, ByCounting, AfterSizeRetention
<1>6. ASSUME NEW b \in Offsets, Rewritten(b) PROVE Ended'
  <2>1. /\ cleaner = "rewrite" /\ cleaner' = "swap" /\ NextToCompact(b)
        /\ UNCHANGED <<alive, segments, nextOffset, pending>> /\ interrupted' = interrupted \cup {b}
    BY <1>6 DEF Rewritten
  <2>2. CompactionEnabled /\ interrupted' = {b}
    BY <1>i, <2>1, NoneInterrupted DEF ByCounting
  <2>3. \A c \in segments : logFile'[c] \subseteq logFile[c]
    BY <1>6, RewrittenRecords DEF Kept
  <2>4. EndsAbove'
    BY <1>i, <2>1, <2>3 DEF EndsAbove
  <2> QED
    BY <1>i, <2>1, <2>2, <2>4 DEF Ended, OnlySwapping, ByCounting, NextToCompact
<1>7. ASSUME NEW b \in Offsets, Reindexed(b) PROVE Ended'
  <2>1. /\ cleaner = "swap" /\ NextToCompact(b) /\ interrupted' = interrupted \ {b}
        /\ UNCHANGED <<alive, segments, logFile, nextOffset>>
    BY <1>7 DEF Reindexed
  <2>2. CompactionEnabled
    BY <1>i, <2>1 DEF ByCounting
  <2>3. interrupted' = {}
    <3>1. \A c \in interrupted : c \in pending /\ c <= b /\ b <= c
      BY <1>i, <2>1 DEF OnlySwapping, NextToCompact
    <3>2. \A c \in interrupted : c = b
      BY <3>1, OffsetsNat DEF IInv, TypeOK
    <3> QED
      BY <2>1, <3>2
  <2> QED
    BY <1>i, <2>1, <2>2, <2>3 DEF Ended, EndsAbove, OnlySwapping, ByCounting
<1> QED
  BY <1>1, <1>2, <1>3, <1>4, <1>5, <1>6, <1>7, StepIs
-------------------------------------------------------------------------------
(* The theorems that rest on these invariants *)

LEMMA AlwaysJInv == Spec => []JInv
<1>1. Init => JInv
  BY InitInv, IndexedInit, KeyedInit, EndedInit DEF JInv
<1>2. JInv /\ [Next]_vars => JInv'
  BY NextInv, IndexedKept, KeyedKept, EndedKept DEF JInv
<1> QED
  BY <1>1, <1>2, PTL DEF Spec

\* Whatever keys, segment size and index interval, and wherever the process
\* dies: only an interrupted replaceContents leaves an index that makes a read
\* skip records (Index.Lookup, Segment.Append, replaceContents).
THEOREM IndexNeverSkips == Spec => []IndexSound
<1>1. ASSUME JInv PROVE IndexSound
  <2> SUFFICES ASSUME NEW b \in segments \ interrupted, NEW o \in b..(nextOffset[b] - 1)
               PROVE  SegmentRead(b, o) = {r \in logFile[b] : r.offset >= o}
    BY DEF IndexSound, ReadsInRange
  <2>1. nextOffset[b] \in Nat /\ nextOffset[b] <= MaxOffset /\ b \in Nat
    BY <1>1, LEOTyped, OffsetsNat DEF JInv, IInv, TypeOK
  <2>2. o < nextOffset[b] /\ o \in Offsets /\ o \in Nat
    BY <2>1, OffsetsNat, ConstantsAssumption
  <2>3. \A r \in logFile[b] : r.offset >= o => Position(r.offset, logFile[b]) >= Lookup(index[b], o)
    BY <1>1, <2>2, LookupSound DEF JInv
  <2> QED
    BY <2>1, <2>2, <2>3 DEF SegmentRead
<1> QED
  BY <1>1, AlwaysJInv, PTL

\* The last record of every key survives compaction, retention and crashes half
\* way through either, and a deleted key never comes back (CompactSegments,
\* CompactLogSegments, RemoveOldestSegment).
THEOREM KeysSurvive == Spec => []KeyViewExact
<1>1. JInv => KeyViewExact
  BY DEF JInv, Keyed
<1> QED
  BY <1>1, AlwaysJInv, PTL

\* A read returns every record from its offset on, if compaction is off or the
\* process neither dies nor fails between the two renames.  Both conditions
\* together are what breaks it: the segment's end is then recovered by counting
\* records that are no longer dense (PartitionLog.Read, recoverState).
THEOREM ReadsComplete == Spec => [](NeverRecounted => ReadComplete)
<1>1. ASSUME JInv, NeverRecounted PROVE ReadComplete
  <2> SUFFICES ASSUME alive, ~Locked, NEW o \in Offsets, \E b \in segments : b <= o
               PROVE  Read(o) = {r \in AllRecords : r.offset >= o}
    BY DEF ReadComplete
  <2>1. IInv /\ Indexed /\ EndsAbove /\ interrupted = {}
    BY <1>1, NoneInterrupted DEF JInv, Ended, Locked
  <2>2. o \in Nat /\ segments \subseteq Nat
    BY <2>1, LEOTyped, OffsetsNat
  <2>3. PICK c \in segments : c <= o /\ \A d \in segments : d <= o => d <= c
    <3> DEFINE T == {d \in segments : d <= o}
    <3>1. T \in SUBSET Nat /\ T # {} /\ \A x \in T : x <= o
      BY <2>2
    <3>2. \E x \in T : \A y \in T : y <= x
      BY <2>2, <3>1, GreatestOf
    <3> QED
      BY <3>2
  <2>4. ASSUME NEW b \in segments, NEW r \in logFile[b], r.offset >= o
        PROVE  b \in FromSegment(o) /\ r \in SegmentRead(b, o)
    <3>1. /\ b \in Nat /\ c \in Nat /\ r.offset \in Int /\ r.offset < nextOffset[b]
          /\ b < c => r.offset < c
      BY <2>1, <2>2, FileFacts DEF EndsAbove, IInv, Shape, Layout
    <3>2. nextOffset[b] \in Nat
      BY <2>1, LEOTyped, OffsetsNat DEF IInv, TypeOK
    <3>3. c <= b
      BY <2>2, <2>3, <2>4, <3>1
    <3>4. Position(r.offset, logFile[b]) >= Lookup(index[b], o)
      BY <2>1, <2>4, LookupSound
    <3>5. ~(o >= nextOffset[b])
      BY <2>2, <2>4, <3>1, <3>2
    <3>6. r \in SegmentRead(b, o)
      BY <2>4, <3>4, <3>5 DEF SegmentRead
    <3> QED
      BY <2>3, <3>3, <3>6 DEF FromSegment
  <2>5. \A b \in FromSegment(o) : b \in segments
    BY DEF FromSegment
  <2>6. \A b \in segments : \A r \in SegmentRead(b, o) : r \in logFile[b] /\ r.offset >= o
    BY DEF SegmentRead
  <2> QED
    BY <2>4, <2>5, <2>6 DEF Read, AllRecords
<1>2. JInv => (NeverRecounted => ReadComplete)
  BY <1>1
<1> QED
  BY <1>2, AlwaysJInv, PTL
-------------------------------------------------------------------------------
(* The distance between index entries *)

LEMMA IndexStepPositive ==
    IndexStep \in Nat /\ IndexStep >= 1 /\ (IndexIntervalBytes > 0 => IndexStep = IndexIntervalBytes)
  BY ConstantsAssumption DEF IndexStep

\* The record before an offset is one position below it.
LEMMA Predecessor ==
    ASSUME NEW R, IsFiniteSet(R), \A r \in R : r.offset \in Nat,
           \A r, q \in R : r.offset = q.offset => r = q,
           NEW o \in Nat, Position(o, R) > 0
    PROVE  \E r \in R : r.offset < o /\ Position(o, R) = Position(r.offset, R) + 1
<1> DEFINE below == {r \in R : r.offset < o}
           offs == {r.offset : r \in below}
<1>1. IsFiniteSet({}) /\ Cardinality({}) = 0
  BY FS_EmptySet
<1>2. below # {}
  BY <1>1 DEF Position
<1>3. offs \in SUBSET Nat /\ offs # {} /\ \A x \in offs : x <= o
  BY <1>2
<1>4. \E x \in offs : \A y \in offs : y <= x
  BY <1>3, GreatestOf
<1>5. PICK p \in below : \A q \in below : q.offset <= p.offset
  BY <1>4
<1> DEFINE first == {r \in R : r.offset < p.offset}
<1>6. p \in R /\ p.offset \in Nat /\ p.offset < o
  OBVIOUS
<1>7. below = first \cup {p} /\ p \notin first
  BY <1>5, <1>6
<1>8. IsFiniteSet(first)
  BY FS_Subset
<1>9. Cardinality(below) = Cardinality(first) + 1
  BY <1>7, <1>8, FS_AddElement
<1> QED
  BY <1>6, <1>9 DEF Position

\* The positions of the records of a file are all the numbers below its length.
LEMMA RecordAt ==
    ASSUME NEW R, IsFiniteSet(R), \A r \in R : r.offset \in Nat,
           \A r, q \in R : r.offset = q.offset => r = q,
           NEW o \in Nat, NEW n \in Nat, n < Position(o, R)
    PROVE  \E r \in R : r.offset < o /\ Position(r.offset, R) = n
<1> DEFINE T == {m \in Nat : n <= m /\ \E r \in R : r.offset < o /\ Position(r.offset, R) = m}
<1>1. \A p \in Nat : Position(p, R) \in Nat
  BY PositionMonotone
<1>2. T # {}
  <2>1. PICK r \in R : r.offset < o /\ Position(o, R) = Position(r.offset, R) + 1
    BY <1>1, Predecessor
  <2>2. Position(r.offset, R) \in T
    BY <1>1, <2>1
  <2> QED
    BY <2>2
<1>3. PICK m \in T : \A y \in T : m <= y
  BY <1>2, LeastOf
<1>4. PICK r \in R : r.offset < o /\ Position(r.offset, R) = m
  BY <1>3
<1>5. m \in Nat /\ n <= m
  BY <1>3
<1>6. ASSUME n < m PROVE FALSE
  <2>1. r.offset \in Nat /\ Position(r.offset, R) > 0
    BY <1>4, <1>5, <1>6
  <2>2. PICK q \in R : q.offset < r.offset /\ Position(r.offset, R) = Position(q.offset, R) + 1
    BY <2>1, Predecessor
  <2>3. q.offset \in Nat /\ Position(q.offset, R) \in Nat /\ Position(q.offset, R) = m - 1
    BY <1>1, <1>4, <1>5, <2>2
  <2>4. q.offset < o
    BY <1>4, <2>1, <2>2, <2>3
  <2>5. Position(q.offset, R) \in T
    BY <1>5, <1>6, <2>3, <2>4
  <2> QED
    BY <1>3, <1>5, <2>3, <2>5
<1> QED
  BY <1>4, <1>5, <1>6

LEMMA MultipleOf == ASSUME NEW n \in Nat, NEW s \in Nat, s >= 1 PROVE (n * s) % s = 0
  OBVIOUS

LEMMA LastMultiple ==
    ASSUME NEW n \in Nat, NEW s \in Nat, s >= 1
    PROVE  \E m \in Nat : m <= n /\ n < m + s /\ m % s = 0
<1> DEFINE K == {k \in Nat : k * s <= n}
<1>1. \A k \in Nat : k <= k * s /\ k * s \in Nat /\ (k + 1) * s = k * s + s
  OBVIOUS
<1>2. 0 \in K /\ \A k \in K : k <= n
  BY <1>1
<1>3. PICK k \in K : \A j \in K : j <= k
  BY <1>2, GreatestOf
<1>4. k \in Nat /\ k * s <= n /\ k + 1 \notin K
  BY <1>3
<1>5. n < k * s + s
  BY <1>1, <1>4
<1> QED
  BY <1>1, <1>4, <1>5, MultipleOf

\* The index replaceContents builds has an entry every IndexStep records.
LEMMA RebuiltCovers ==
    ASSUME NEW R, IsFiniteSet(R), \A r \in R : r.offset \in Nat,
           \A r, q \in R : r.offset = q.offset => r = q
    PROVE  Located(RebuiltIndex(R), R) /\ Covers(RebuiltIndex(R), R)
<1>1. Located(RebuiltIndex(R), R)
  BY DEF Located, RebuiltIndex
<1>2. ASSUME NEW o \in Offsets, Position(o, R) > 0
      PROVE  \E e \in RebuiltIndex(R) : e.offset <= o /\ Position(o, R) <= e.pos + IndexStep
  <2>1. o \in Nat /\ Position(o, R) \in Nat
    BY OffsetsNat, PositionMonotone
  <2>2. PICK m \in Nat : m < Position(o, R) /\ m % IndexStep = 0 /\ Position(o, R) <= m + IndexStep
    <3>1. Position(o, R) - 1 \in Nat
      BY <1>2, <2>1
    <3>2. PICK m \in Nat : /\ m <= Position(o, R) - 1 /\ Position(o, R) - 1 < m + IndexStep
                           /\ m % IndexStep = 0
      BY <3>1, IndexStepPositive, LastMultiple
    <3> QED
      BY <2>1, <3>2, IndexStepPositive
  <2>3. PICK r \in R : r.offset < o /\ Position(r.offset, R) = m
    BY <2>1, <2>2, RecordAt
  <2> DEFINE e == [offset |-> r.offset, pos |-> Position(r.offset, R)]
  <2>4. e \in RebuiltIndex(R)
    BY <2>2, <2>3 DEF RebuiltIndex
  <2> QED
    BY <2>1, <2>2, <2>3, <2>4
<1> QED
  BY <1>1, <1>2 DEF Covers

\* An append at offset L leaves an entry close enough, whether it added one or
\* the last one is less than an interval away.
IndexAtAppend(R, L, x, I, J) ==
    /\ IsFiniteSet(R) /\ L \in Offsets /\ \A r \in R : r.offset \in Nat /\ r.offset < L
    /\ x.offset = L
    /\ Located(I, R) /\ Covers(I, R) /\ \A e \in I : e.offset \in Nat /\ e.offset <= L
    /\ \/ J = I \cup {[offset |-> L, pos |-> Cardinality(R)]}
       \/ J = I /\ \E e \in I : Cardinality(R) < e.pos + IndexStep
LEMMA AppendCovers ==
    ASSUME NEW R, NEW L, NEW x, NEW I, NEW J, IndexAtAppend(R, L, x, I, J)
    PROVE  /\ Located(J, R \cup {x}) /\ Covers(J, R \cup {x})
           /\ \A e \in J : e.offset \in Nat /\ e.offset <= L
<1> USE DEF IndexAtAppend
<1> DEFINE S == R \cup {x}
           new == [offset |-> L, pos |-> Cardinality(R)]
<1>1. L \in Nat /\ Cardinality(R) \in Nat /\ x \notin R
  BY OffsetsNat, FS_CardinalityType
<1>2. Cardinality(S) = Cardinality(R) + 1
  BY <1>1, FS_AddElement
<1>3. \A o \in Nat : o <= L => Position(o, S) = Position(o, R)
  <2> SUFFICES ASSUME NEW o \in Nat, o <= L PROVE Position(o, S) = Position(o, R)
    OBVIOUS
  <2>1. {r \in S : r.offset < o} = {r \in R : r.offset < o}
    BY <1>1
  <2> QED
    BY <2>1 DEF Position
<1>4. Position(L, R) = Cardinality(R)
  BY PositionAtEnd
<1>5. \A e \in J : e.offset \in Nat /\ e.offset <= L
  BY <1>1
<1>6. Located(J, S)
  <2> SUFFICES ASSUME NEW e \in J PROVE e.pos = Position(e.offset, S)
    BY DEF Located
  <2>1. e.pos = Position(e.offset, R)
    <3>1. CASE e \in I
      BY <3>1 DEF Located
    <3>2. CASE e = new
      BY <1>4, <3>2
    <3> QED
      BY <3>1, <3>2
  <2> QED
    BY <1>3, <1>5, <2>1
<1>7. Covers(J, S)
  <2> SUFFICES ASSUME NEW o \in Offsets, Position(o, S) > 0
               PROVE  \E e \in J : e.offset <= o /\ Position(o, S) <= e.pos + IndexStep
    BY DEF Covers
  <2>1. o \in Nat
    BY OffsetsNat
  <2>2. CASE o <= L
    BY <1>3, <2>1, <2>2 DEF Covers
  <2>3. CASE ~(o <= L)
    <3>1. \A r \in S : r.offset < o
      BY <1>1, <2>1, <2>3
    <3>2. Position(o, S) = Cardinality(R) + 1
      BY <1>2, <3>1, PositionAtEnd
    <3>3. \A e \in J : e.offset <= o
      BY <1>1, <1>5, <2>1, <2>3
    <3>4. CASE J = I \cup {new}
      <4>1. new \in J /\ new.pos = Cardinality(R)
        BY <3>4
      <4> QED
        BY <1>1, <3>2, <3>3, <4>1, IndexStepPositive
    <3>5. CASE J = I /\ \E e \in I : Cardinality(R) < e.pos + IndexStep
      <4>1. PICK e \in I : Cardinality(R) < e.pos + IndexStep
        BY <3>5
      <4>2. e.pos \in Nat
        <5>1. e.pos = Position(e.offset, R) /\ e.offset \in Nat
          BY DEF Located
        <5> QED
          BY <5>1, PositionMonotone
      <4> QED
        BY <1>1, <3>2, <3>3, <3>5, <4>1, <4>2, IndexStepPositive
    <3> QED
      BY <3>4, <3>5
  <2> QED
    BY <2>2, <2>3
<1> QED
  BY <1>5, <1>6, <1>7

LEMMA DenseInit == ASSUME Init PROVE Dense
<1>1. /\ index = [b \in Offsets |-> {}] /\ logFile = [b \in Offsets |-> {}] /\ segments = {0}
      /\ activeSegment = 0 /\ 0 \in Offsets
  BY OffsetsNat, ConstantsAssumption DEF Init
<1>2. index[0] = {} /\ logFile[0] = {}
  BY <1>1
<1>3. Covers({}, {}) /\ Located({}, {})
  <2>1. \A o : Position(o, {}) = 0
    BY FS_EmptySet DEF Position
  <2> QED
    BY <2>1 DEF Covers, Located
<1> QED
  BY <1>1, <1>2, <1>3 DEF Dense, Exact, LastEntry

\* A segment that a step leaves alone stays as it is.
LEMMA ExactElsewhere ==
    ASSUME IInv, IInv', Exact, LEO' >= LEO,
           NEW c \in segments \ interrupted, logFile'[c] = logFile[c], index'[c] = index[c]
    PROVE  /\ Located(index'[c], logFile'[c]) /\ Covers(index'[c], logFile'[c])
           /\ \A e \in index'[c] : e.offset <= LEO'
<1>1. LEO \in Nat /\ LEO' \in Nat
  BY LEOTyped, OffsetsNat DEF IInv, TypeOK, LEO
<1>2. \A e \in index[c] : e.offset \in Int /\ e.offset <= LEO
  BY FileFacts DEF Exact
<1> QED
  BY <1>1, <1>2 DEF Exact

LEMMA AppendedDense ==
    ASSUME IInv, IInv', Dense, NEW b \in Offsets, NEW k \in Keys \cup {NoKey},
           NEW v \in Values \cup {Empty}, Appended(b, k, v)
    PROVE  Dense'
<1>1. /\ AtEnd(b) /\ segments' = segments \cup {b} /\ activeSegment' = b /\ interrupted' = interrupted
      /\ logFile'[b] = logFile[b] \cup {Rec(LEO, k, v)} /\ index'[b] = IndexAfterAppend(b)
      /\ nextOffset'[b] = LEO + 1 /\ alive
      /\ lastIndexBytes'[b] = (IF IndexDue(b) THEN currentSize[b] ELSE lastIndexBytes[b])
  BY DEF Appended
<1>2. \A c \in segments : c # b => logFile'[c] = logFile[c] /\ index'[c] = index[c]
  BY LEOTyped DEF Appended
<1>3. LEO \in Offsets /\ LEO \in Nat /\ LEO' = LEO + 1
  BY <1>1, LEOTyped DEF LEO
<1>4. /\ IsFiniteSet(logFile[b]) /\ currentSize[b] = Cardinality(logFile[b])
      /\ Cardinality(logFile[b]) \in Nat /\ (Cardinality(logFile[b]) = 0 <=> logFile[b] = {})
      /\ lastIndexBytes[b] \in Nat
  BY <1>1, CountedNat DEF AtEnd, IInv, Shape, TypeOK
<1>5. b \in segments \/ (logFile[b] = {} /\ index[b] = {} /\ b \notin segments)
  BY <1>1 DEF AtEnd, IInv, Shape, ActiveIsLast
<1>6. /\ \A r \in logFile[b] : r.offset \in Nat /\ r.offset < LEO
      /\ \A e \in index[b] : e.offset \in Nat /\ e.pos \in Nat
  BY <1>5, FileFacts, OffsetsNat
<1>7. Rec(LEO, k, v).offset = LEO
  BY <1>3, RecordFields
<1>8. ASSUME b \notin interrupted
      PROVE  /\ Located(index'[b], logFile'[b]) /\ Covers(index'[b], logFile'[b])
             /\ \A e \in index'[b] : e.offset \in Nat /\ e.offset <= LEO
             /\ \E e \in index'[b] : lastIndexBytes'[b] <= e.pos
  <2> DEFINE new == [offset |-> LEO, pos |-> Cardinality(logFile[b])]
  <2>1. /\ Located(index[b], logFile[b]) /\ Covers(index[b], logFile[b])
        /\ \A e \in index[b] : e.offset <= LEO
    <3>1. CASE b \in segments
      BY <1>8, <3>1 DEF Dense, Exact
    <3>2. CASE logFile[b] = {} /\ index[b] = {}
      <4>1. \A o : Position(o, {}) = 0
        BY FS_EmptySet DEF Position
      <4> QED
        BY <3>2, <4>1 DEF Covers, Located
    <3> QED
      BY <1>5, <3>1, <3>2
  <2>2. CASE IndexDue(b)
    <3>1. index'[b] = index[b] \cup {new} /\ lastIndexBytes'[b] = new.pos /\ new.pos \in Nat
      BY <1>1, <1>4, <2>2 DEF IndexAfterAppend
    <3>2. \A e \in index[b] : e.offset \in Nat /\ e.offset <= LEO
      BY <1>6, <2>1
    <3>3. /\ Located(index'[b], logFile'[b]) /\ Covers(index'[b], logFile'[b])
          /\ \A e \in index'[b] : e.offset \in Nat /\ e.offset <= LEO
      <4>1. IndexAtAppend(logFile[b], LEO, Rec(LEO, k, v), index[b], index'[b])
        BY <1>3, <1>4, <1>6, <1>7, <2>1, <3>1, <3>2 DEF IndexAtAppend
      <4> QED
        BY <1>1, <4>1, AppendCovers, SMTT(30)
    <3>4. \E e \in index'[b] : lastIndexBytes'[b] <= e.pos
      <4>1. new \in index'[b] /\ lastIndexBytes'[b] <= new.pos
        BY <3>1
      <4> QED
        BY <4>1
    <3> QED
      BY <3>3, <3>4
  <2>3. CASE ~IndexDue(b)
    <3>1. /\ index'[b] = index[b] /\ lastIndexBytes'[b] = lastIndexBytes[b]
          /\ logFile[b] # {} /\ Cardinality(logFile[b]) - lastIndexBytes[b] < IndexIntervalBytes
      BY <1>1, <1>4, <2>3, ConstantsAssumption DEF IndexAfterAppend, IndexDue
    <3>2. b = activeSegment
      BY <1>1, <3>1 DEF AtEnd
    <3>3. PICK e \in index[b] : lastIndexBytes[b] <= e.pos
      BY <1>1, <1>8, <3>1, <3>2 DEF Dense, LastEntry
    <3>4. e.pos \in Nat /\ e.pos = Position(e.offset, logFile[b]) /\ e.offset \in Nat
      BY <1>6, <2>1 DEF Located
    <3>5. e.pos <= Cardinality(logFile[b])
      <4>1. e.offset <= LEO
        BY <2>1
      <4>2. Position(e.offset, logFile[b]) <= Position(LEO, logFile[b])
        BY <1>3, <1>4, <1>6, <3>4, <4>1, PositionMonotone
      <4> QED
        BY <1>6, <3>4, <4>2, PositionAtEnd
    <3>6. Cardinality(logFile[b]) < e.pos + IndexStep
      BY <1>4, <3>1, <3>3, <3>4, <3>5, IndexStepPositive, ConstantsAssumption
    <3>7. \A f \in index[b] : f.offset \in Nat /\ f.offset <= LEO
      BY <1>6, <2>1
    <3>8. /\ Located(index'[b], logFile'[b]) /\ Covers(index'[b], logFile'[b])
          /\ \A f \in index'[b] : f.offset \in Nat /\ f.offset <= LEO
      <4>1. IndexAtAppend(logFile[b], LEO, Rec(LEO, k, v), index[b], index'[b])
        BY <1>3, <1>4, <1>6, <1>7, <2>1, <3>1, <3>6, <3>7 DEF IndexAtAppend
      <4> QED
        BY <1>1, <4>1, AppendCovers
    <3> QED
      BY <3>1, <3>3, <3>8
  <2> QED
    BY <2>2, <2>3
<1>9. LEO' >= LEO
  BY <1>3
<1>10. Exact'
  <2> SUFFICES ASSUME NEW c \in segments' \ interrupted'
               PROVE  /\ Located(index'[c], logFile'[c]) /\ Covers(index'[c], logFile'[c])
                      /\ \A e \in index'[c] : e.offset <= LEO'
    BY DEF Exact
  <2>1. CASE c = b
    <3>1. \A e \in index'[b] : e.offset <= LEO'
      BY <1>1, <1>3, <1>8, <2>1
    <3> QED
      BY <1>1, <1>8, <2>1, <3>1
  <2>2. CASE c # b
    <3>1. c \in segments \ interrupted /\ Exact
      BY <1>1, <2>2 DEF Dense
    <3> QED
      BY <1>2, <1>9, <2>2, <3>1, ExactElsewhere
  <2> QED
    BY <2>1, <2>2
<1>11. LastEntry'
  BY <1>1, <1>8 DEF LastEntry
<1> QED
  BY <1>10, <1>11 DEF Dense

LEMMA TornDense == ASSUME IInv, IInv', Dense, NEW b \in Offsets, Torn(b) PROVE Dense'
<1>1. /\ AtEnd(b) /\ segments' = segments \cup {b} /\ ~alive' /\ LEO' = LEO
      /\ index'[b] \in {index[b], IndexAfterAppend(b)}
      /\ UNCHANGED <<logFile, interrupted>>
      /\ \A c \in Offsets \ {b} : index'[c] = index[c]
  BY DEF Torn, LEO
<1>2. LEO \in Offsets /\ LEO \in Nat /\ segments \subseteq Offsets
  BY LEOTyped
<1>3. b \in segments \/ (logFile[b] = {} /\ index[b] = {})
  BY <1>1 DEF AtEnd, IInv, Shape, ActiveIsLast
<1>4. ASSUME b \notin interrupted
      PROVE  /\ Located(index[b], logFile[b]) /\ Covers(index[b], logFile[b])
             /\ \A e \in index[b] : e.offset <= LEO
  <2>1. CASE b \in segments
    BY <1>4, <2>1 DEF Dense, Exact
  <2>2. CASE logFile[b] = {} /\ index[b] = {}
    <3>1. \A o : Position(o, {}) = 0
      BY FS_EmptySet DEF Position
    <3> QED
      BY <2>2, <3>1 DEF Covers, Located
  <2> QED
    BY <1>3, <2>1, <2>2
<1>5. \A r \in logFile[b] : r.offset < LEO
  BY <1>3, FileFacts
<1>6. Position(LEO, logFile[b]) = currentSize[b]
  BY <1>1, <1>5, PositionAtEnd DEF AtEnd
<1>7. ASSUME b \notin interrupted
      PROVE  /\ Located(index'[b], logFile[b]) /\ Covers(index'[b], logFile[b])
             /\ \A e \in index'[b] : e.offset <= LEO
  <2> DEFINE new == [offset |-> LEO, pos |-> currentSize[b]]
  <2>1. index[b] \subseteq index'[b] /\ index'[b] \subseteq index[b] \cup {new}
    BY <1>1 DEF IndexAfterAppend
  <2>2. new.offset = LEO /\ new.pos = Position(LEO, logFile[b])
    BY <1>6
  <2> HIDE DEF new
  <2>3. Located(index'[b], logFile[b])
    BY <1>4, <1>7, <2>1, <2>2 DEF Located
  <2>4. Covers(index'[b], logFile[b])
    BY <1>4, <1>7, <2>1 DEF Covers
  <2>5. \A e \in index'[b] : e.offset <= LEO
    BY <1>2, <1>4, <1>7, <2>1, <2>2
  <2> QED
    BY <2>3, <2>4, <2>5
<1>8. Exact'
  BY <1>1, <1>2, <1>7 DEF Dense, Exact
<1> QED
  BY <1>1, <1>8 DEF Dense, LastEntry

LEMMA RestartDense == ASSUME IInv, IInv', Dense, Restart, LEO' = LEO PROVE Dense'
<1>1. /\ UNCHANGED <<segments, logFile, index, interrupted>>
      /\ lastIndexBytes' = [b \in Offsets |-> 0]
      /\ activeSegment' \in segments /\ activeSegment' \in Offsets
  BY LEOTyped DEF Restart, disk, history
<1>2. Exact'
  BY <1>1 DEF Dense, Exact
<1>3. PICK a \in segments : a = activeSegment' /\ a \in Offsets /\ lastIndexBytes'[a] = 0
  BY <1>1
<1>4. ASSUME a \notin interrupted, logFile[a] # {} PROVE \E e \in index[a] : 0 <= e.pos
  <2>1. /\ Cardinality(logFile[a]) \in Nat /\ Cardinality(logFile[a]) # 0 /\ LEO \in Offsets
        /\ (\A r \in logFile[a] : r.offset < LEO) /\ \A e \in index[a] : e.pos \in Nat
    BY <1>4, FileFacts, LEOTyped
  <2>2. Position(LEO, logFile[a]) > 0
    BY <2>1, PositionAtEnd
  <2>3. PICK e \in index[a] : e.offset <= LEO
    BY <1>4, <2>1, <2>2 DEF Dense, Exact, Covers
  <2> QED
    BY <2>1, <2>3
<1>5. LastEntry'
  BY <1>1, <1>3, <1>4 DEF LastEntry
<1> QED
  BY <1>2, <1>5 DEF Dense

LEMMA DenseKept == ASSUME IInv, Dense, [Next]_vars PROVE Dense'
<1>i. IInv'
  BY NextInv
<1>1. CASE Moves
  <2>1. /\ UNCHANGED <<segments, logFile, index, interrupted, activeSegment, nextOffset,
                       lastIndexBytes>>
        /\ LEO' = LEO /\ (alive' => alive)
    BY <1>1 DEF Moves, Quiet, LEO, clean, CompactBegin, SkipSegment, Crash, LoseMemory
  <2> QED
    BY <2>1 DEF Dense, Exact, LastEntry
<1>2. CASE Restart
  BY <1>i, <1>2, RestartInv, RestartDense
<1>3. ASSUME NEW b \in Offsets, NEW k \in Keys \cup {NoKey}, NEW v \in Values \cup {Empty},
             Appended(b, k, v)
      PROVE  Dense'
  BY <1>i, <1>3, AppendedDense
<1>4. ASSUME NEW b \in Offsets, Torn(b) PROVE Dense'
  BY <1>i, <1>4, TornDense
<1>5. ASSUME NEW b \in Offsets, Removed(b) PROVE Dense'
  <2>1. /\ segments' = segments \ {b} /\ interrupted' = interrupted \ {b}
        /\ b \in segments \ {activeSegment}
        /\ \A c \in segments' : logFile'[c] = logFile[c] /\ index'[c] = index[c]
        /\ UNCHANGED <<alive, activeSegment>> /\ nextOffset'[activeSegment] = nextOffset[activeSegment]
        /\ lastIndexBytes'[activeSegment] = lastIndexBytes[activeSegment]
        /\ activeSegment \in segments
    BY <1>5, LEOTyped DEF Removed, IInv, Shape, ActiveIsLast
  <2>2. LEO' = LEO /\ activeSegment \in segments'
    BY <2>1 DEF LEO
  <2> QED
    BY <2>1, <2>2 DEF Dense, Exact, LastEntry
<1>6. ASSUME NEW b \in Offsets, Rewritten(b) PROVE Dense'
  <2>1. /\ UNCHANGED <<alive, segments, index, activeSegment, nextOffset>> /\ LEO' = LEO
        /\ interrupted' = interrupted \cup {b} /\ b # activeSegment /\ activeSegment \in segments
        /\ \A c \in segments : c # b => logFile'[c] = logFile[c]
        /\ lastIndexBytes'[activeSegment] = lastIndexBytes[activeSegment]
    BY <1>6, LEOTyped DEF Rewritten, LEO, IInv, Shape, ActiveIsLast
  <2> QED
    BY <2>1 DEF Dense, Exact, LastEntry
<1>7. ASSUME NEW b \in Offsets, Reindexed(b) PROVE Dense'
  <2>1. /\ UNCHANGED <<alive, segments, logFile, activeSegment, nextOffset>> /\ LEO' = LEO
        /\ interrupted' = interrupted \ {b} /\ b # activeSegment /\ activeSegment \in segments
        /\ index'[b] = RebuiltIndex(logFile[b]) /\ b \in segments
        /\ \A c \in segments : c # b => index'[c] = index[c]
        /\ lastIndexBytes'[activeSegment] = lastIndexBytes[activeSegment]
    BY <1>7, LEOTyped DEF Reindexed, LEO, IInv, Shape, ActiveIsLast
  <2>2. /\ IsFiniteSet(logFile[b]) /\ LEO \in Nat
        /\ \A r \in logFile[b] : r.offset \in Nat /\ r.offset < LEO
        /\ \A r, q \in logFile[b] : r.offset = q.offset => r = q
    BY <2>1, FileFacts, OffsetsNat, LEOTyped DEF IInv, Shape, Layout
  <2>3. Located(index'[b], logFile[b]) /\ Covers(index'[b], logFile[b])
    BY <2>1, <2>2, RebuiltCovers
  <2>4. \A e \in index'[b] : e.offset <= LEO
    BY <2>1, <2>2 DEF RebuiltIndex
  <2>5. Exact'
    BY <2>1, <2>3, <2>4 DEF Dense, Exact
  <2>6. LastEntry'
    BY <2>1 DEF Dense, LastEntry
  <2> QED
    BY <2>5, <2>6 DEF Dense
<1> QED
  BY <1>1, <1>2, <1>3, <1>4, <1>5, <1>6, <1>7, StepIs
-------------------------------------------------------------------------------
(* The fetch *)

\* The position Index.Lookup gives is that of an entry, at most IndexStep records
\* before the offset it looks for.
LEMMA LookupClose ==
    ASSUME IInv, Dense, NEW b \in segments \ interrupted, NEW o \in Offsets,
           Position(o, logFile[b]) > 0
    PROVE  \E p \in Nat : /\ p <= o /\ Lookup(index[b], o) = Position(p, logFile[b])
                          /\ Position(o, logFile[b]) <= Position(p, logFile[b]) + IndexStep
<1> DEFINE R == logFile[b]
           below == {e \in index[b] : e.offset <= o}
           offs == {e.offset : e \in below}
<1>1. /\ IsFiniteSet(R) /\ (\A q \in R : q.offset \in Int) /\ o \in Nat
      /\ \A e \in index[b] : e.offset \in Nat /\ e.pos \in Nat
  BY FileFacts, OffsetsNat
<1>2. Located(index[b], R) /\ Covers(index[b], R)
  BY DEF Dense, Exact
<1>3. PICK f \in below : Position(o, R) <= f.pos + IndexStep
  BY <1>2 DEF Covers
<1>4. offs \in SUBSET Nat /\ f.offset \in offs /\ \A x \in offs : x <= o
  BY <1>1
<1>5. \E x \in offs : \A y \in offs : y <= x
  BY <1>1, <1>4, GreatestOf
<1>6. \E e \in below : \A g \in below : g.offset <= e.offset
  BY <1>5
<1>7. PICK e \in below : /\ e = CHOOSE h \in below : \A g \in below : g.offset <= h.offset
                         /\ \A g \in below : g.offset <= e.offset
  BY <1>6
<1>8. Lookup(index[b], o) = e.pos
  BY <1>7 DEF Lookup
<1>9. /\ e.offset \in Nat /\ e.offset <= o /\ e.pos = Position(e.offset, R) /\ e.pos \in Nat
      /\ f.offset \in Nat /\ f.offset <= e.offset /\ f.pos = Position(f.offset, R) /\ f.pos \in Nat
  BY <1>1, <1>2, <1>7 DEF Located
<1>10. Position(f.offset, R) <= Position(e.offset, R) /\ Position(o, R) \in Nat
  BY <1>1, <1>9, PositionMonotone
<1>11. Position(o, R) <= e.pos + IndexStep
  BY <1>3, <1>9, <1>10, IndexStepPositive
<1> QED
  BY <1>8, <1>9, <1>11

\* So of the records below the offset, a fetch returns at most IndexStep.
LEMMA FewBelow ==
    ASSUME IInv, Dense, NEW b \in segments \ interrupted, NEW o \in Offsets,
           NEW T \in SUBSET {r \in logFile[b] : /\ r.offset < o
                                                /\ Position(r.offset, logFile[b]) >= Lookup(index[b], o)}
    PROVE  IsFiniteSet(T) /\ Cardinality(T) \in Nat /\ Cardinality(T) <= IndexStep
<1> DEFINE R == logFile[b]
           A == {r \in R : r.offset < o}
<1>1. IsFiniteSet(R) /\ (\A q \in R : q.offset \in Int) /\ o \in Nat
  BY FileFacts, OffsetsNat
<1>2. T \in SUBSET A /\ A \in SUBSET R
  OBVIOUS
<1>3. IsFiniteSet(A)
  BY <1>1, <1>2, FS_Subset
<1>4. IsFiniteSet(T) /\ Cardinality(T) \in Nat
  BY <1>2, <1>3, FS_Subset, FS_CardinalityType
<1>5. Cardinality(A) \in Nat /\ Position(o, R) = Cardinality(A)
  BY <1>3, FS_CardinalityType DEF Position
<1>6. CASE Cardinality(A) = 0
  <2>1. A = {}
    BY <1>3, <1>6, FS_EmptySet
  <2>2. T = {} /\ Cardinality({}) = 0
    BY <1>2, <2>1, FS_EmptySet
  <2> QED
    BY <1>4, <2>2, IndexStepPositive
<1>7. CASE Cardinality(A) # 0
  <2>1. PICK p \in Nat : /\ p <= o /\ Lookup(index[b], o) = Position(p, R)
                         /\ Position(o, R) <= Position(p, R) + IndexStep
    BY <1>5, <1>7, LookupClose
  <2> DEFINE B == {r \in R : r.offset < p}
  <2>2. B \in SUBSET A /\ Position(p, R) = Cardinality(B)
    BY <1>1, <2>1 DEF Position
  <2>3. IsFiniteSet(B) /\ Cardinality(B) \in Nat
    BY <1>3, <2>2, FS_Subset, FS_CardinalityType
  <2>4. ASSUME NEW r \in R, r.offset < p PROVE Position(r.offset, R) < Position(p, R)
    <3> DEFINE C == {q \in R : q.offset < r.offset}
    <3>1. C \in SUBSET B /\ r \in B /\ r \notin C
      BY <1>1, <2>4
    <3>2. IsFiniteSet(C) /\ Cardinality(C) <= Cardinality(B) /\ Cardinality(C) # Cardinality(B)
      BY <2>3, <3>1, FS_Subset
    <3>3. Cardinality(C) \in Nat /\ Cardinality(C) < Cardinality(B)
      BY <2>3, <3>2, FS_CardinalityType
    <3> QED
      BY <2>2, <3>3 DEF Position
  <2>5. T \cap B = {}
    <3>1. \A r \in R : Position(r.offset, R) \in Nat
      BY <1>1, PositionMonotone
    <3> QED
      BY <2>1, <2>2, <2>3, <2>4, <3>1
  <2>6. Cardinality(T \cup B) = Cardinality(T) + Cardinality(B)
    <3>1. Cardinality(T \cup B) = Cardinality(T) + Cardinality(B) - Cardinality(T \cap B)
      BY <1>4, <2>3, FS_Union
    <3>2. Cardinality(T \cap B) = 0
      BY <2>5, FS_EmptySet
    <3> QED
      BY <1>4, <2>3, <3>1, <3>2
  <2>7. Cardinality(T \cup B) <= Cardinality(A)
    BY <1>2, <1>3, <2>2, FS_Subset
  <2> QED
    BY <1>4, <1>5, <2>1, <2>2, <2>3, <2>6, <2>7, IndexStepPositive
<1> QED
  BY <1>6, <1>7

LEMMA AlwaysDense == Spec => [](IInv /\ Dense)
<1>1. Init => IInv /\ Dense
  BY InitInv, DenseInit
<1>2. IInv /\ Dense /\ [Next]_vars => IInv' /\ Dense'
  BY NextInv, DenseKept
<1> QED
  BY <1>1, <1>2, PTL DEF Spec

\* Handles are closed by replaceContents only, together with `interrupted`, or
\* by a rename that fails.
LEMMA HandlesKept == ASSUME JInv, Handles, [Next]_vars PROVE Handles'
<1> SUFFICES ASSUME NeverFails, NEW b \in Offsets PROVE opened'[b] \/ b \in interrupted'
  BY DEF Handles
<1>1. opened[b] \/ b \in interrupted
  BY DEF Handles
<1>2. opened \in [Offsets -> BOOLEAN] /\ interrupted \subseteq segments
  BY DEF JInv, IInv, TypeOK
<1>3. ASSUME UNCHANGED <<opened, interrupted>> PROVE opened'[b] \/ b \in interrupted'
  BY <1>1, <1>3
<1>4. CASE RemoveOldestSegment
  BY <1>1, <1>2, <1>4 DEF RemoveOldestSegment
<1>5. CASE ReplaceLog
  BY <1>1, <1>2, <1>5 DEF ReplaceLog
<1>6. CASE ReplaceIndex
  BY <1>1, <1>2, <1>6 DEF ReplaceIndex
<1>7. CASE RenameFails
  <2>1. "rename" \in Faults /\ cleaner = "rewrite"
    BY <1>7 DEF RenameFails
  <2>2. ~CompactionEnabled /\ NeverRecounted
    BY <2>1 DEF NeverFails, NeverRecounted
  <2> QED
    BY <2>1, <2>2 DEF JInv, Ended, ByCounting
<1>8. CASE Restart
  BY <1>8 DEF Restart
<1>9. CASE TimeRetention \/ SizeRemove
  BY <1>3, <1>4, <1>9 DEF TimeRetention, SizeRemove, mem, history
<1>10. CASE \/ \E k \in Keys \cup {NoKey}, v \in Values \cup {Empty} : Append(k, v)
            \/ Tick \/ CycleBegin \/ SizeCheck \/ CompactBegin \/ SkipSegment
            \/ IndexRenameFails \/ Crash \/ CrashInAppend \/ UNCHANGED vars
  BY <1>3, <1>10 DEF Append, Tick, CycleBegin, SizeCheck, CompactBegin, SkipSegment,
                     IndexRenameFails, Crash, CrashInAppend, vars, mem, history
<1> QED
  BY <1>5, <1>6, <1>7, <1>8, <1>9, <1>10 DEF Next, CleanerStep

LEMMA AlwaysHandles == Spec => []Handles
<1>1. Init => Handles
  BY DEF Init, Handles
<1>2. JInv /\ Handles /\ [Next]_vars => Handles'
  BY HandlesKept
<1> QED
  BY <1>1, <1>2, AlwaysJInv, PTL DEF Spec

\* A consumer is never stuck: a fetch returns raw bytes from an index entry, so
\* also records below its offset; but whatever was appended, removed, compacted
\* or lost in a crash, there are at most IndexStep of them, and a fetch whose
\* limit is larger gets past them.  A broker that compacts must meet no fault: a
\* recount hides records, as in ReadsComplete, and a failed rename leaves a
\* segment closed, whose fetches fail until the broker is started again
\* (ReadZeroCopy, Index.Lookup, Segment.Append, replaceContents).
THEOREM FetchesProgress ==
    Spec => [](NeverFails /\ MaxFetchBytes > IndexStep => FetchProgress)
<1>1. ASSUME JInv, Dense, Handles, NeverFails, MaxFetchBytes > IndexStep PROVE FetchProgress
  <2> SUFFICES ASSUME alive, ~Locked, NEW o \in Offsets, \E b \in segments : b <= o,
                      \E r \in AllRecords : r.offset >= o
               PROVE  \E r \in ReadZeroCopy(o) : r.offset >= o
    BY DEF FetchProgress
  <2>0. NeverRecounted
    BY <1>1 DEF NeverFails, NeverRecounted
  <2>1. IInv /\ Indexed /\ EndsAbove /\ interrupted = {}
    BY <1>1, <2>0, NoneInterrupted DEF JInv, Ended, Locked
  <2>2. o \in Nat /\ segments \subseteq Nat /\ segments \subseteq Offsets
    BY <2>1, LEOTyped, OffsetsNat DEF IInv, TypeOK
  <2>3. PICK c \in segments : c <= o /\ \A d \in segments : d <= o => d <= c
    <3> DEFINE T == {d \in segments : d <= o}
    <3>1. T \in SUBSET Nat /\ T # {} /\ \A x \in T : x <= o
      BY <2>2
    <3>2. \E x \in T : \A y \in T : y <= x
      BY <2>2, <3>1, GreatestOf
    <3> QED
      BY <3>2
  <2>4. \A s \in Stream(o) : \E b \in FromSegment(o) : /\ s \in logFile[b]
                                                      /\ Position(s.offset, logFile[b]) >= Lookup(index[b], o)
    BY DEF Stream
  <2>5. \A b \in FromSegment(o) : b \in segments /\ c <= b
    <3> SUFFICES ASSUME NEW b \in FromSegment(o) PROVE b \in segments /\ c <= b
      OBVIOUS
    <3>1. PICK d \in segments : d <= b /\ \A x \in segments : x <= o => x <= d
      BY DEF FromSegment
    <3>2. b \in segments /\ c <= d /\ b \in Nat /\ c \in Nat /\ d \in Nat
      BY <2>2, <2>3, <3>1 DEF FromSegment
    <3> QED
      BY <3>1, <3>2
  <2>6. \A s \in Stream(o) : s.offset \in Nat
    BY <2>1, <2>4, <2>5, FileFacts, OffsetsNat
  <2>7. ASSUME NEW b \in segments, NEW r \in logFile[b], r.offset >= o PROVE r \in Stream(o)
    <3>1. /\ b \in Nat /\ c \in Nat /\ r.offset \in Int /\ r.offset < nextOffset[b]
          /\ b < c => r.offset < c
      BY <2>1, <2>2, FileFacts DEF EndsAbove, IInv, Shape, Layout
    <3>2. nextOffset[b] \in Nat
      BY <2>1, LEOTyped, OffsetsNat DEF IInv, TypeOK
    <3>3. c <= b
      BY <2>2, <2>3, <2>7, <3>1
    <3>4. Position(r.offset, logFile[b]) >= Lookup(index[b], o)
      BY <2>1, <2>7, LookupSound
    <3>5. o < nextOffset[b]
      BY <2>2, <2>7, <3>1, <3>2
    <3>6. b \in FromSegment(o)
      BY <2>3, <3>3 DEF FromSegment
    <3> QED
      BY <3>4, <3>5, <3>6 DEF Stream
  <2>8. PICK x \in Stream(o) : x.offset >= o /\ \A s \in Stream(o) : s.offset >= o => x.offset <= s.offset
    <3> DEFINE above == {s \in Stream(o) : s.offset >= o}
               offs == {s.offset : s \in above}
    <3>1. above # {}
      BY <2>7 DEF AllRecords
    <3>2. offs \in SUBSET Nat /\ offs # {}
      BY <2>6, <3>1
    <3>3. \E y \in offs : \A z \in offs : y <= z
      BY <3>2, LeastOf
    <3> QED
      BY <3>3
  <2> DEFINE T == {s \in Stream(o) : s.offset < x.offset}
  <2>9. ASSUME NEW s \in T
        PROVE  s \in logFile[c] /\ s.offset < o /\ Position(s.offset, logFile[c]) >= Lookup(index[c], o)
    <3>1. s.offset < o
      <4>1. s \in Stream(o) /\ s.offset < x.offset /\ s.offset \in Nat /\ x.offset \in Nat
        BY <2>6
      <4>2. s.offset >= o => x.offset <= s.offset
        BY <2>8, <4>1
      <4> QED
        BY <2>2, <4>1, <4>2
    <3>2. PICK b \in FromSegment(o) : /\ s \in logFile[b]
                                      /\ Position(s.offset, logFile[b]) >= Lookup(index[b], o)
      BY <2>4
    <3>3. b \in segments /\ b \in Nat /\ c \in Nat /\ c <= b /\ b <= s.offset /\ s.offset \in Nat
      BY <2>1, <2>2, <2>5, <2>6, <3>2, FileFacts
    <3>4. b <= o
      BY <2>2, <3>1, <3>3
    <3>5. b = c
      <4>1. b <= c
        BY <2>3, <3>3, <3>4
      <4> QED
        BY <3>3, <4>1
    <3> QED
      BY <3>1, <3>2, <3>5
  <2>10. Cardinality(T) \in Nat /\ Cardinality(T) <= IndexStep
    <3>1. c \in segments \ interrupted
      BY <2>1
    <3>2. T \in SUBSET {r \in logFile[c] : /\ r.offset < o
                                           /\ Position(r.offset, logFile[c]) >= Lookup(index[c], o)}
      BY <2>9
    <3> HIDE DEF T
    <3> QED
      BY <1>1, <2>1, <3>1, <3>2, FewBelow
  <2>11. Position(x.offset, Stream(o)) < MaxFetchBytes
    BY <1>1, <2>10, IndexStepPositive, ConstantsAssumption DEF Position
  <2>12. ~FetchErr(o)
    <3>1. \A b \in FromSegment(o) : opened[b]
      BY <1>1, <2>1, <2>2, <2>5 DEF Handles
    <3> QED
      BY <3>1 DEF FetchErr, ReadFails
  <2> QED
    BY <2>8, <2>11, <2>12 DEF ReadZeroCopy
<1>2. JInv /\ IInv /\ Dense /\ Handles => (NeverFails /\ MaxFetchBytes > IndexStep => FetchProgress)
  BY <1>1
<1> QED
  BY <1>2, AlwaysJInv, AlwaysDense, AlwaysHandles, PTL
-------------------------------------------------------------------------------
(* The partition implements the commit log *)

\* The log starts at the oldest segment and ends at the log end offset, while
\* the process is down too.
StartAndEnd ==
    /\ DiskEnd = LEO /\ Min(segments) \in segments /\ Min(segments) \in Nat /\ Min(segments) <= LEO
    /\ \A b \in segments : Min(segments) <= b /\ b <= LEO

LEMMA MappedLog == ASSUME IInv PROVE StartAndEnd
<1>1. /\ segments \in SUBSET Nat /\ segments # {} /\ MaxOffset \in Nat
      /\ \A b \in segments : b <= MaxOffset /\ b \in Offsets
  BY LEOTyped, OffsetsNat, ConstantsAssumption DEF IInv, Shape, ActiveIsLast
<1>2. \E x \in segments : \A y \in segments : x <= y
  BY <1>1, LeastOf
<1>3. \E x \in segments : \A y \in segments : y <= x
  BY <1>1, GreatestOf
<1>4. Min(segments) \in segments /\ \A b \in segments : Min(segments) <= b
  BY <1>2 DEF Min
<1>5. Max(segments) \in segments /\ \A b \in segments : b <= Max(segments)
  <2>1. \E x \in segments : \A y \in segments : x >= y
    BY <1>1, <1>3
  <2>2. Max(segments) \in segments /\ \A b \in segments : Max(segments) >= b
    BY <2>1 DEF Max
  <2> QED
    BY <1>1, <2>2
<1>6. DiskEnd = LEO
  BY <1>5 DEF DiskEnd, IInv, Shape, EndsAtLEO
<1>7. \A b \in segments : b <= LEO
  <2>1. Max(segments) + Cardinality(logFile[Max(segments)]) = LEO
    BY <1>5 DEF IInv, Shape, EndsAtLEO
  <2>2. Cardinality(logFile[Max(segments)]) \in Nat /\ Max(segments) \in Nat
    BY <1>1, <1>5, FileFacts
  <2> QED
    BY <1>1, <1>5, <2>1, <2>2
<1> QED
  BY <1>1, <1>4, <1>6, <1>7 DEF StartAndEnd

LEMMA MappedLogNext == IInv' => StartAndEnd'
<1>1. IInv => StartAndEnd
  BY MappedLog
<1> QED
  BY <1>1, PTL

\* The least element is the only one below all others.
LEMMA MinIs ==
    ASSUME NEW S \in SUBSET Nat, NEW m \in S, \A x \in S : m <= x
    PROVE  Min(S) = m
<1>1. Min(S) \in S /\ \A x \in S : Min(S) <= x
  BY DEF Min
<1>2. PICK n \in S : n = Min(S)
  BY <1>1
<1>3. n <= m /\ m <= n
  BY <1>1, <1>2
<1>4. n \in Nat /\ m \in Nat
  OBVIOUS
<1>5. n = m
  BY <1>3, <1>4
<1> QED
  BY <1>2, <1>5

\* A log whose last record of a key is r shows r for the key, unless r is a
\* tombstone.
ViewIsNewest ==
    \A k \in Keys :
        Abstract!View(AllRecords)[k] =
            IF newest[k] \in AllRecords /\ newest[k].key = k /\ newest[k].value # Empty
            THEN {newest[k]} ELSE {}

LEMMA ViewOf == ASSUME IInv, KeyViewExact PROVE ViewIsNewest
<1> SUFFICES ASSUME NEW k \in Keys
             PROVE  Abstract!View(AllRecords)[k] =
                        IF newest[k] \in AllRecords /\ newest[k].key = k /\ newest[k].value # Empty
                        THEN {newest[k]} ELSE {}
  BY DEF ViewIsNewest
<1>1. Abstract!View(AllRecords)[k] = {r \in Abstract!LatestOf(k, AllRecords) : r.value # Empty}
  BY DEF Abstract!View
<1>2. KeyView(k)
  BY KeyViewIs
<1>3. CASE newest[k] \in AllRecords /\ newest[k].key = k
  <2>1. Abstract!LatestOf(k, AllRecords) = {newest[k]}
    <3>1. newest[k] \in Abstract!LatestOf(k, AllRecords)
      BY <1>2, <1>3 DEF KeyView, Abstract!LatestOf
    <3>2. ASSUME NEW r \in Abstract!LatestOf(k, AllRecords) PROVE r = newest[k]
      <4>1. r \in AllRecords /\ newest[k].offset <= r.offset /\ r.offset <= newest[k].offset
        BY <1>2, <1>3 DEF KeyView, Abstract!LatestOf
      <4>2. r.offset \in Int /\ newest[k].offset \in Int
        BY <1>3, <4>1, FileFacts DEF AllRecords
      <4>3. r.offset = newest[k].offset
        BY <4>1, <4>2
      <4> QED
        BY <1>3, <4>1, <4>3, OneRecord DEF OffsetsUnique
    <3> QED
      BY <3>1, <3>2
  <2> QED
    BY <1>1, <1>3, <2>1
<1>4. CASE ~(newest[k] \in AllRecords /\ newest[k].key = k)
  <2>1. Abstract!LatestOf(k, AllRecords) = {}
    BY <1>2, <1>4 DEF KeyView, Abstract!LatestOf
  <2> QED
    BY <1>1, <1>4, <2>1
<1> QED
  BY <1>3, <1>4

LEMMA ViewOfNext == IInv' /\ KeyViewExact' => ViewIsNewest'
<1>1. IInv /\ KeyViewExact => ViewIsNewest
  BY ViewOf
<1> QED
  BY <1>1, PTL

LEMMA AppendRefines ==
    ASSUME IInv, IInv', NEW b \in Offsets, NEW k \in Keys \cup {NoKey}, NEW v \in Values \cup {Empty},
           Appended(b, k, v)
    PROVE  Abstract!Append
<1>1. /\ AllRecords' = AllRecords \cup {[offset |-> LEO, key |-> k, value |-> v]}
      /\ segments' = segments \cup {b} /\ \A c \in segments : c <= b
  BY AppendedRecords DEF Appended, AtEnd, Rec
<1>2. LEO' = LEO + 1
  BY DEF Appended, LEO
<1>3. DiskEnd = LEO /\ DiskEnd' = LEO'
  BY MappedLog, MappedLogNext DEF StartAndEnd
<1>4. Min(segments') = Min(segments)
  <2>1. /\ Min(segments) \in segments /\ \A c \in segments : Min(segments) <= c
        /\ segments' \in SUBSET Nat /\ segments \subseteq Nat
    BY <1>1, MappedLog, LEOTyped, OffsetsNat DEF StartAndEnd
  <2>2. \A c \in segments' : Min(segments) <= c
    BY <1>1, <2>1
  <2>3. Min(segments) \in segments'
    BY <1>1, <2>1
  <2> QED
    BY <2>1, <2>2, <2>3, MinIs
<1> QED
  BY <1>1, <1>2, <1>3, <1>4 DEF Abstract!Append

LEMMA RemoveRefines ==
    ASSUME IInv, IInv', NEW b \in Offsets, Removed(b)
    PROVE  Abstract!DropPrefix
<1>1. /\ b \in segments /\ segments' = segments \ {b} /\ \A c \in segments : b <= c
      /\ \A c \in segments' : logFile'[c] = logFile[c]
  BY LEOTyped DEF Removed, IsOldest
<1>2. LEO' = LEO
  BY LEOTyped DEF Removed, LEO
<1>3. DiskEnd = LEO /\ DiskEnd' = LEO' /\ LEO \in Nat
  BY MappedLog, MappedLogNext, LEOTyped DEF StartAndEnd
<1>4. PICK m : m = Min(segments')
  OBVIOUS
<1>5. /\ m \in segments' /\ m \in Nat /\ m <= LEO /\ \A c \in segments' : m <= c
  BY <1>2, <1>4, MappedLogNext DEF StartAndEnd
<1>6. Min(segments) \in Nat /\ Min(segments) <= m
  BY <1>1, <1>5, MappedLog DEF StartAndEnd
<1>7. m \in Min(segments)..DiskEnd
  BY <1>3, <1>5, <1>6
<1>8. AllRecords' = {r \in AllRecords : r.offset >= m}
  <2>1. ASSUME NEW c \in segments', NEW r \in logFile'[c] PROVE r \in AllRecords /\ r.offset >= m
    <3>1. c \in segments /\ r \in logFile[c]
      BY <1>1, <2>1
    <3>2. c <= r.offset /\ r.offset \in Int /\ c \in Nat /\ m <= c
      BY <1>5, <3>1, FileFacts
    <3> QED
      BY <1>5, <3>1, <3>2 DEF AllRecords
  <2>2. ASSUME NEW c \in segments, NEW r \in logFile[c], r.offset >= m PROVE c \in segments'
    <3> SUFFICES ASSUME c = b PROVE FALSE
      BY <1>1
    <3>1. b < m /\ m \in segments
      BY <1>1, <1>5, FileFacts
    <3>2. r.offset < m /\ r.offset \in Int
      BY <3>1, FileFacts DEF IInv, Shape, Layout
    <3> QED
      BY <1>5, <2>2, <3>2
  <2> QED
    BY <1>1, <2>1, <2>2 DEF AllRecords
<1> QED
  BY <1>2, <1>3, <1>4, <1>7, <1>8 DEF Abstract!DropPrefix

LEMMA RewriteRefines ==
    ASSUME JInv, JInv', NEW b \in Offsets, Rewritten(b)
    PROVE  Abstract!Compact
<1>1. IInv /\ Indexed /\ KeyViewExact /\ IInv' /\ KeyViewExact'
  BY DEF JInv, Keyed
<1>2. /\ AllRecords' \subseteq AllRecords /\ logFile'[b] = Kept(logFile[b])
      /\ \A r \in AllRecords \ AllRecords' : r \in logFile[b] /\ r \notin logFile'[b]
  BY <1>1, RewrittenRecords
<1>3. UNCHANGED <<segments, newest>> /\ LEO' = LEO
  BY DEF Rewritten, LEO
<1>4. \A r \in AllRecords \ AllRecords' : r.key # NoKey
  BY <1>2 DEF Kept
<1>5. ASSUME NEW k \in Keys
      PROVE  Abstract!View(AllRecords)'[k] = Abstract!View(AllRecords)[k]
  <2>1. Abstract!View(AllRecords)[k] =
            IF newest[k] \in AllRecords /\ newest[k].key = k /\ newest[k].value # Empty
            THEN {newest[k]} ELSE {}
    BY <1>1, ViewOf DEF ViewIsNewest
  <2>2. Abstract!View(AllRecords)'[k] =
            IF newest[k] \in AllRecords' /\ newest[k].key = k /\ newest[k].value # Empty
            THEN {newest[k]} ELSE {}
    BY <1>1, <1>3, ViewOfNext DEF ViewIsNewest
  <2>3. ASSUME newest[k] \in AllRecords, newest[k].key = k, newest[k].value # Empty
        PROVE  newest[k] \in AllRecords'
    <3>1. KeyView(k)'
      BY <1>1 DEF KeyViewExact, KeyView
    <3>2. PICK c \in segments : newest[k] \in logFile[c]
      BY <2>3 DEF AllRecords
    <3>3. c <= newest[k].offset /\ c \in Int /\ newest[k].offset \in Int
      BY <1>1, <3>2, FileFacts
    <3> QED
      BY <1>3, <2>3, <3>1, <3>2, <3>3 DEF KeyView
  <2> QED
    BY <1>2, <2>1, <2>2, <2>3
<1>6. Abstract!View(AllRecords)' = Abstract!View(AllRecords)
  BY <1>5 DEF Abstract!View
<1>7. DiskEnd' = DiskEnd /\ Min(segments)' = Min(segments)
  BY <1>1, <1>3, MappedLog, MappedLogNext DEF StartAndEnd
<1> QED
  BY <1>2, <1>4, <1>6, <1>7 DEF Abstract!Compact, Abstract!View

\* The other steps are invisible.
LEMMA OtherRefines ==
    ASSUME IInv, IInv', LEO' = LEO, AllRecords' = AllRecords, Min(segments') = Min(segments)
    PROVE  UNCHANGED Abstract!vars
<1>1. DiskEnd = LEO /\ DiskEnd' = LEO'
  BY MappedLog, MappedLogNext DEF StartAndEnd
<1> QED
  BY <1>1 DEF Abstract!vars

LEMMA StepRefines == JInv /\ JInv' /\ [Next]_vars => [Abstract!Next]_(Abstract!vars)
<1> SUFFICES ASSUME JInv, JInv', [Next]_vars PROVE [Abstract!Next]_(Abstract!vars)
  OBVIOUS
<1>i. IInv /\ IInv'
  BY DEF JInv
<1>1. CASE Moves
  <2>1. LEO' = LEO /\ AllRecords' = AllRecords /\ segments' = segments
    BY <1>1 DEF Moves, Quiet, LEO, AllRecords
  <2> QED
    BY <1>i, <2>1, OtherRefines
<1>2. CASE Restart
  <2>1. LEO' = LEO /\ AllRecords' = AllRecords /\ segments' = segments
    BY <1>i, <1>2, RestartInv DEF Restart, disk, AllRecords
  <2> QED
    BY <1>i, <2>1, OtherRefines
<1>3. ASSUME NEW b \in Offsets, NEW k \in Keys \cup {NoKey}, NEW v \in Values \cup {Empty},
             Appended(b, k, v)
      PROVE  Abstract!Next
  BY <1>i, <1>3, AppendRefines DEF Abstract!Next
<1>4. ASSUME NEW b \in Offsets, Torn(b) PROVE UNCHANGED Abstract!vars
  <2>1. LEO' = LEO /\ AllRecords' = AllRecords /\ segments' = segments \cup {b} /\ \A c \in segments : c <= b
    BY <1>i, <1>4, TornRecords DEF Torn, AtEnd, LEO
  <2>2. /\ Min(segments) \in segments /\ \A c \in segments : Min(segments) <= c
        /\ segments' \in SUBSET Nat /\ segments \subseteq Nat
    BY <1>i, <2>1, MappedLog, LEOTyped, OffsetsNat DEF StartAndEnd
  <2>3. Min(segments) \in segments' /\ \A c \in segments' : Min(segments) <= c
    BY <2>1, <2>2
  <2>4. Min(segments') = Min(segments)
    BY <2>2, <2>3, MinIs
  <2> QED
    BY <1>i, <2>1, <2>4, OtherRefines
<1>5. ASSUME NEW b \in Offsets, Removed(b) PROVE Abstract!Next
  BY <1>i, <1>5, RemoveRefines DEF Abstract!Next
<1>6. ASSUME NEW b \in Offsets, Rewritten(b) PROVE Abstract!Next
  BY <1>6, RewriteRefines DEF Abstract!Next
<1>7. ASSUME NEW b \in Offsets, Reindexed(b) PROVE UNCHANGED Abstract!vars
  <2>1. LEO' = LEO /\ AllRecords' = AllRecords /\ segments' = segments
    BY <1>7 DEF Reindexed, LEO, AllRecords
  <2> QED
    BY <1>i, <2>1, OtherRefines
<1> QED
  BY <1>i, <1>1, <1>2, <1>3, <1>4, <1>5, <1>6, <1>7, StepIs

LEMMA InitRefines == Init => Abstract!Init
<1> SUFFICES ASSUME Init PROVE Abstract!Init
  OBVIOUS
<1>1. /\ segments = {0} /\ 0 \in Offsets /\ logFile = [b \in Offsets |-> {}] /\ LEO = 0
  BY OffsetsNat, ConstantsAssumption DEF Init, LEO
<1>2. AllRecords = {}
  BY <1>1 DEF AllRecords
<1>3. DiskEnd = 0 /\ Min(segments) = 0
  BY <1>1, InitInv, MappedLog DEF StartAndEnd
<1> QED
  BY <1>2, <1>3 DEF Abstract!Init

\* The partition implements the commit log: segments, indexes, crashes and the
\* cleaner's steps are invisible, an append takes the next offset, retention
\* drops a prefix and compaction keeps the latest value of every key and all
\* records without one (PartitionLog, Segment, CleanerWorker).
THEOREM PartitionIsCommitLog == Spec => ImplementsCommitLog
<1>1. Spec => Abstract!Init /\ [][Abstract!Next]_(Abstract!vars)
  BY InitRefines, StepRefines, AlwaysJInv, PTL DEF Spec
<1> QED
  BY <1>1 DEF ImplementsCommitLog, Abstract!Spec
-------------------------------------------------------------------------------
(* Size retention: the size was read in an earlier step, under an earlier   *)
(* lock, and only the cleaner itself lowers it.                             *)

\* What cleanSizeRetention has read still justifies the removal.
Justified == cleaner = "sizeRemove" => TotalSize > RetentionBytes

\* The records that the segments S of sizes f count.
Cells(S, f) == UNION {{b} \X (1..f[b]) : b \in S}

LEMMA CellsFinite ==
    ASSUME NEW S, IsFiniteSet(S), NEW f, \A b \in S : f[b] \in Nat
    PROVE  IsFiniteSet(Cells(S, f))
<1> DEFINE T == {{b} \X (1..f[b]) : b \in S}
           g == [b \in S |-> {b} \X (1..f[b])]
<1>1. g \in Surjection(S, T)
  BY DEF Surjection
<1>2. IsFiniteSet(T)
  BY <1>1, FS_Surjection
<1>3. ASSUME NEW b \in S PROVE IsFiniteSet({b} \X (1..f[b]))
  <2>1. IsFiniteSet({b})
    BY FS_Singleton
  <2>2. f[b] \in Int /\ 1 \in Int
    OBVIOUS
  <2>3. IsFiniteSet(1..f[b])
    BY <2>2, FS_Interval
  <2> QED
    BY <2>1, <2>3, FS_Product
<1>4. \A t \in T : IsFiniteSet(t)
  BY <1>3
<1> QED
  BY <1>2, <1>4, FS_UNION DEF Cells

LEMMA CellsGrow ==
    ASSUME NEW S, NEW T, S \subseteq T, IsFiniteSet(T), NEW f, NEW g,
           \A b \in T : g[b] \in Nat, \A b \in S : f[b] \in Nat /\ f[b] <= g[b]
    PROVE  /\ Cardinality(Cells(S, f)) \in Nat /\ Cardinality(Cells(T, g)) \in Nat
           /\ Cardinality(Cells(S, f)) <= Cardinality(Cells(T, g))
<1>1. IsFiniteSet(Cells(T, g))
  BY CellsFinite
<1>2. ASSUME NEW b \in S PROVE {b} \X (1..f[b]) \subseteq {b} \X (1..g[b])
  <2>1. 1..f[b] \subseteq 1..g[b]
    BY <1>2
  <2> QED
    BY <2>1
<1>3. Cells(S, f) \in SUBSET Cells(T, g)
  BY <1>2 DEF Cells
<1> QED
  BY <1>1, <1>3, FS_Subset, FS_CardinalityType

LEMMA SizeGrows ==
    ASSUME IInv, IInv', segments \subseteq segments',
           \A b \in segments : currentSize[b] <= currentSize'[b], Justified, cleaner' = cleaner
    PROVE  Justified'
<1>1. /\ \A b \in segments : currentSize[b] \in Nat
      /\ \A b \in segments' : currentSize'[b] \in Nat
  BY DEF IInv, TypeOK
<1>2. IsFiniteSet(segments')
  <2>1. IsFiniteSet(Offsets) /\ segments' \in SUBSET Offsets
    BY FS_Interval, ConstantsAssumption DEF Offsets, IInv, TypeOK
  <2> QED
    BY <2>1, FS_Subset
<1>3. /\ TotalSize = Cardinality(Cells(segments, currentSize))
      /\ TotalSize' = Cardinality(Cells(segments', currentSize'))
  BY DEF TotalSize, CountedRecords, Cells
<1>4. TotalSize \in Nat /\ TotalSize' \in Nat /\ TotalSize <= TotalSize'
  BY <1>1, <1>2, <1>3, CellsGrow
<1> QED
  BY <1>4, ConstantsAssumption DEF Justified

LEMMA NextJustified == IInv /\ IInv' /\ Justified /\ [Next]_vars => Justified'
<1> SUFFICES ASSUME IInv, IInv', Justified, [Next]_vars PROVE Justified'
  OBVIOUS
<1>1. CASE \E k \in Keys \cup {NoKey}, v \in Values \cup {Empty} : Append(k, v)
  <2>1. PICK b \in Offsets : b = AppendTarget
    BY <1>1, AtEndFacts DEF Append, AtEnd
  <2>2. /\ segments' = segments \cup {b} /\ cleaner' = cleaner
        /\ currentSize' = [currentSize EXCEPT ![b] = currentSize[b] + 1]
    BY <1>1, <2>1 DEF Append, clean
  <2>3. \A c \in segments : /\ currentSize[c] \in Nat
                            /\ currentSize'[c] \in {currentSize[c], currentSize[c] + 1}
    BY <2>2 DEF IInv, TypeOK
  <2> QED
    BY <2>2, <2>3, SizeGrows
<1>2. CASE SizeCheck
  <2>1. CASE RetentionBytes > 0 /\ TotalSize > RetentionBytes
    BY <1>2, <2>1 DEF SizeCheck, disk, mem, Justified, TotalSize, CountedRecords
  <2>2. CASE ~(RetentionBytes > 0 /\ TotalSize > RetentionBytes)
    BY <1>2, <2>2 DEF SizeCheck, Justified, AfterSizeRetention
  <2> QED
    BY <2>1, <2>2
<1>3. CASE Tick \/ UNCHANGED vars
  BY <1>3 DEF Tick, vars, disk, mem, clean, Justified, TotalSize, CountedRecords
<1>4. CASE Restart
  <2>1. cleaner' = "idle"
    BY <1>4 DEF Restart, clean, IInv, Shape, CleanerClosed
  <2> QED
    BY <2>1 DEF Justified
<1>5. CASE CycleBegin \/ TimeRetention
  <2>1. cleaner' \in {"time", "size"}
    BY <1>5 DEF CycleBegin, TimeRetention, TimeDone, AfterTimeRetention
  <2> QED
    BY <2>1 DEF Justified
<1>6. CASE SizeRemove
  <2>1. cleaner' \in {"size", "compact", "idle"}
    BY <1>6 DEF SizeRemove, AfterSizeRemove, AfterSizeRetention
  <2> QED
    BY <2>1 DEF Justified
<1>7. CASE CompactBegin \/ SkipSegment \/ ReplaceLog \/ ReplaceIndex \/ RenameFails \/ IndexRenameFails
  <2>1. cleaner' \in {"rewrite", "swap", "idle"}
    BY <1>7 DEF CompactBegin, SkipSegment, ReplaceLog, ReplaceIndex, RenameFails, IndexRenameFails,
                Visited, CompactDone
  <2> QED
    BY <2>1 DEF Justified
<1>8. CASE Crash \/ CrashInAppend
  BY <1>8 DEF Crash, CrashInAppend, LoseMemory, Justified
<1> QED
  BY <1>1, <1>2, <1>3, <1>4, <1>5, <1>6, <1>7, <1>8 DEF Next, CleanerStep

\* A segment that size retention removes is one too many at that moment,
\* although the size was read under an earlier lock and producers have appended
\* since (cleanSizeRetention).
THEOREM RemovalJustified == Spec => SizeRetentionJustified
<1>1. Init => Justified
  BY DEF Init, Justified
<1>2. Justified /\ [Next]_vars =>
        [cleaner = "sizeRemove" /\ segments' # segments => TotalSize > RetentionBytes]_vars
  BY DEF Justified
<1> QED
  BY <1>1, <1>2, NextJustified, AlwaysInv, PTL DEF Spec, SizeRetentionJustified
===============================================================================
