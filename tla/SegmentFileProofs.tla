--------------------------- MODULE SegmentFileProofs ---------------------------
(***************************************************************************)
(* Proofs about SegmentFile, for any set of readers and any number of      *)
(* appends and torn writes, as long as no read that overlapped another     *)
(* has failed: after that acknowledged records may be lost.                *)
(*                                                                         *)
(* AcknowledgedIntact alone says nothing about the cursor, which decides   *)
(* where the next append goes.  Besides it the invariant says where the    *)
(* cursor is: behind the acknowledged records when nobody reads, and while *)
(* a reader is alone, on the cell that belongs to its progress, so that it *)
(* fails or decodes garbage only behind them.  A reader that is not alone  *)
(* may be anywhere; if it ends without an error it is at the end.          *)
(***************************************************************************)
EXTENDS SegmentFile, SequenceTheorems, WellFoundedInduction, TLAPS

Cell == [part : {"len", "body", "hole"}, offset : Nat]

Typed ==
    /\ file \in Seq(Cell) /\ cursor \in Nat
    /\ nextOffset \in Nat /\ nextOffset <= MaxOffset
    /\ pc \in [Readers -> {"idle", "len", "body"}] /\ from \in [Readers -> Nat]
    /\ got \in [Readers -> Seq(Nat \cup {Garbage})]
    /\ tears \in Nat /\ intact \in Nat /\ intact <= MaxOffset
    /\ shared \in [Readers -> BOOLEAN]

Stored ==
    /\ 2 * intact <= Len(file)
    /\ \A o \in Nat : o < intact => file[2 * o + 1] = Len4(o) /\ file[2 * o + 2] = Body(o)

Untorn == tears = 0 => intact = nextOffset /\ Len(file) = 2 * intact /\ cursor <= Len(file)

Behind == (\A r \in Readers : ~Reading(r)) => cursor >= 2 * intact

\* The reader has got the records from its start offset on, up to the cursor.
Position(r) == from[r] + Len(got[r])
InOrder(r) == \A i \in 1..Len(got[r]) : from[r] + i <= intact => got[r][i] = from[r] + i - 1
Follows(r) ==
    /\ InOrder(r)
    /\ cursor < 2 * intact =>
          cursor = IF pc[r] = "body" THEN 2 * Position(r) + 1 ELSE 2 * Position(r)
    /\ cursor >= 2 * intact => Position(r) >= intact
    /\ tears = 0 => Position(r) <= intact
Alone(r) == Reading(r) /\ ~shared[r]
Following == \A r \in Readers : Alone(r) => Follows(r) /\ \A s \in Readers : Reading(s) => s = r

Sound == Typed /\ Stored /\ Untorn /\ Behind /\ Following
IInv  == ~misread => Sound
-------------------------------------------------------------------------------
LEMMA CellsTyped ==
    ASSUME NEW o \in Nat
    PROVE  /\ Cells(o) \in Seq(Cell) /\ Len(Cells(o)) = 2
           /\ Cells(o)[1] = Len4(o) /\ Cells(o)[2] = Body(o)
           /\ <<Len4(o)>> \in Seq(Cell) /\ Len(<<Len4(o)>>) = 1
  BY DEF Cells, Len4, Body, Cell

\* A write leaves the cells before it alone.
Written(f, p, cells, g) ==
    /\ g \in Seq(Cell)
    /\ Len(g) = IF p + Len(cells) > Len(f) THEN p + Len(cells) ELSE Len(f)
    /\ \A i \in 1..Len(f) : i <= p => g[i] = f[i]
    /\ \A i \in 1..Len(cells) : g[p + i] = cells[i]
LEMMA WriteFacts ==
    ASSUME NEW f \in Seq(Cell), NEW p \in Nat, NEW cells \in Seq(Cell)
    PROVE  Written(f, p, cells, WriteAt(f, p, cells))
<1> DEFINE n == IF p + Len(cells) > Len(f) THEN p + Len(cells) ELSE Len(f)
           e(i) == IF i > p /\ i <= p + Len(cells) THEN cells[i - p]
                   ELSE IF i <= Len(f) THEN f[i] ELSE Hole
<1> SUFFICES ASSUME NEW g, g = WriteAt(f, p, cells) PROVE Written(f, p, cells, g)
  OBVIOUS
<1>1. Len(f) \in Nat /\ Len(cells) \in Nat /\ n \in Nat
  BY LenProperties
<1>2. g = [i \in 1..n |-> e(i)]
  BY DEF WriteAt
<1>3. \A i \in 1..n : e(i) \in Cell
  <2> SUFFICES ASSUME NEW i \in 1..n PROVE e(i) \in Cell
    OBVIOUS
  <2>1. CASE i > p /\ i <= p + Len(cells)
    <3>1. i - p \in 1..Len(cells)
      BY <1>1, <2>1
    <3> QED
      BY <2>1, <3>1, ElementOfSeq
  <2>2. CASE ~(i > p /\ i <= p + Len(cells)) /\ i <= Len(f)
    <3>1. i \in 1..Len(f)
      BY <1>1, <2>2
    <3> QED
      BY <2>2, <3>1, ElementOfSeq
  <2>3. CASE ~(i > p /\ i <= p + Len(cells)) /\ ~(i <= Len(f))
    <3>1. Hole \in Cell
      BY DEF Hole, Cell
    <3> QED
      BY <2>3, <3>1
  <2> QED
    BY <2>1, <2>2, <2>3
<1> HIDE DEF n
<1>4. g \in [1..n -> Cell] /\ \A i \in 1..n : g[i] = e(i)
  BY <1>2, <1>3
<1>5. g \in Seq(Cell) /\ Len(g) = n
  BY <1>1, <1>4, SMTT(30)
<1>6. \A i \in 1..Len(f) : i <= p => g[i] = f[i]
  BY <1>1, <1>4 DEF n
<1>7. \A i \in 1..Len(cells) : g[p + i] = cells[i]
  <2> SUFFICES ASSUME NEW i \in 1..Len(cells) PROVE g[p + i] = cells[i]
    OBVIOUS
  <2>1. p + i \in 1..n /\ p + i > p /\ p + i <= p + Len(cells) /\ (p + i) - p = i
    BY <1>1 DEF n
  <2> QED
    BY <1>4, <2>1
<1> QED
  BY <1>5, <1>6, <1>7 DEF n, Written

\* A read call among the acknowledged records finds the cell it expects.
LEMMA AlignedAmongIntact ==
    ASSUME Sound, NEW r \in Readers, Alone(r), cursor < 2 * intact
    PROVE  /\ Aligned(pc[r]) /\ Position(r) \in Nat /\ Position(r) < intact
           /\ pc[r] = "body" => file[cursor + 1].offset = Position(r)
<1>1. /\ cursor \in Nat /\ intact \in Nat /\ Len(file) \in Nat /\ from[r] \in Nat
      /\ Len(got[r]) \in Nat /\ pc[r] \in {"len", "body"}
  BY LenProperties DEF Sound, Typed, Alone, Reading
<1>2. Position(r) \in Nat
  BY <1>1 DEF Position
<1>3. cursor = IF pc[r] = "body" THEN 2 * Position(r) + 1 ELSE 2 * Position(r)
  BY DEF Sound, Following, Follows
<1>4. Position(r) < intact
  BY <1>1, <1>2, <1>3
<1>5. file[2 * Position(r) + 1] = Len4(Position(r)) /\ file[2 * Position(r) + 2] = Body(Position(r))
  BY <1>2, <1>4 DEF Sound, Stored
<1>6. CASE pc[r] = "body"
  <2>1. cursor + 1 = 2 * Position(r) + 2
    BY <1>1, <1>2, <1>3, <1>6
  <2>2. file[cursor + 1] = Body(Position(r))
    BY <1>5, <2>1
  <2> QED
    BY <1>1, <1>2, <1>4, <1>6, <2>2 DEF Sound, Stored, AtEnd, Aligned, Body
<1>7. CASE pc[r] = "len"
  <2>1. cursor + 1 = 2 * Position(r) + 1
    BY <1>1, <1>2, <1>3, <1>7
  <2>2. file[cursor + 1] = Len4(Position(r))
    BY <1>5, <2>1
  <2> QED
    BY <1>1, <1>2, <1>4, <1>7, <2>2 DEF Sound, Stored, AtEnd, Aligned, Len4
<1> QED
  BY <1>1, <1>6, <1>7

LEMMA InitInv == Init => Sound
<1> SUFFICES ASSUME Init PROVE Sound
  OBVIOUS
<1>1. <<>> \in Seq(Cell) /\ Len(<<>>) = 0 /\ <<>> \in Seq(Nat \cup {Garbage})
  BY EmptySeq
<1>2. Typed
  BY <1>1, ConstantsAssumption DEF Init, Typed
<1>3. Stored /\ Untorn /\ Behind
  BY <1>1 DEF Init, Stored, Untorn, Behind
<1>4. Following
  BY DEF Init, Following, Alone, Reading
<1> QED
  BY <1>2, <1>3, <1>4 DEF Sound

-------------------------------------------------------------------------------
(* The writer *)

\* An append goes behind the acknowledged records, and becomes one of them
\* when nothing was torn before.
LEMMA AppendInv == ASSUME Sound, AppendRecord PROVE Sound'
<1> DEFINE rec == Cells(nextOffset)
<1>1. /\ \A r \in Readers : ~Reading(r)
      /\ nextOffset < MaxOffset
      /\ file' = WriteAt(file, cursor, rec)
      /\ cursor' = cursor + 2 /\ nextOffset' = nextOffset + 1
      /\ intact' = IF tears = 0 THEN nextOffset + 1 ELSE intact
      /\ UNCHANGED <<pc, from, got, tears, shared>>
  BY DEF AppendRecord
<1>2. /\ file \in Seq(Cell) /\ Len(file) \in Nat /\ cursor \in Nat /\ nextOffset \in Nat
      /\ intact \in Nat /\ intact <= MaxOffset /\ MaxOffset \in Nat /\ tears \in Nat
      /\ cursor >= 2 * intact /\ 2 * intact <= Len(file)
  BY <1>1, LenProperties, ConstantsAssumption DEF Sound, Typed, Behind, Stored
<1>3. rec \in Seq(Cell) /\ Len(rec) = 2 /\ rec[1] = Len4(nextOffset) /\ rec[2] = Body(nextOffset)
  BY <1>2, CellsTyped
<1> HIDE DEF rec
<1>4. /\ file' \in Seq(Cell)
      /\ Len(file') = IF cursor + 2 > Len(file) THEN cursor + 2 ELSE Len(file)
      /\ \A i \in 1..Len(file) : i <= cursor => file'[i] = file[i]
      /\ file'[cursor + 1] = Len4(nextOffset) /\ file'[cursor + 2] = Body(nextOffset)
  <2>1. 1 \in 1..Len(rec) /\ 2 \in 1..Len(rec)
    BY <1>3
  <2>2. /\ file' \in Seq(Cell)
        /\ Len(file') = IF cursor + Len(rec) > Len(file) THEN cursor + Len(rec) ELSE Len(file)
        /\ \A i \in 1..Len(file) : i <= cursor => file'[i] = file[i]
        /\ \A i \in 1..Len(rec) : file'[cursor + i] = rec[i]
    <3>1. file \in Seq(Cell) /\ cursor \in Nat /\ rec \in Seq(Cell) /\ file' = WriteAt(file, cursor, rec)
      BY <1>1, <1>2, <1>3
    <3>2. Written(file, cursor, rec, WriteAt(file, cursor, rec))
      BY <3>1, WriteFacts
    <3> QED
      BY <3>1, <3>2 DEF Written
  <2> QED
    BY <1>3, <2>1, <2>2
<1>5. tears = 0 => intact = nextOffset /\ cursor = 2 * intact /\ Len(file) = 2 * intact
  BY <1>2 DEF Sound, Untorn
<1>6. Typed'
  BY <1>1, <1>2, <1>4 DEF Sound, Typed
<1>7. ASSUME NEW o \in Nat, o < intact
      PROVE  file'[2 * o + 1] = Len4(o) /\ file'[2 * o + 2] = Body(o)
  <2>1. /\ 2 * o + 1 \in 1..Len(file) /\ 2 * o + 1 <= cursor
        /\ 2 * o + 2 \in 1..Len(file) /\ 2 * o + 2 <= cursor
    BY <1>2, <1>7
  <2>2. file'[2 * o + 1] = file[2 * o + 1] /\ file'[2 * o + 2] = file[2 * o + 2]
    BY <1>4, <2>1
  <2> QED
    BY <1>7, <2>2 DEF Sound, Stored
<1>8. Stored'
  <2>1. CASE tears = 0
    <3>1. /\ intact' = intact + 1 /\ 2 * intact' <= Len(file')
          /\ file'[2 * intact + 1] = Len4(intact) /\ file'[2 * intact + 2] = Body(intact)
      BY <1>1, <1>2, <1>4, <1>5, <2>1
    <3>2. \A o \in Nat : o < intact' => o < intact \/ o = intact
      BY <1>2, <3>1
    <3> QED
      BY <1>7, <3>1, <3>2 DEF Stored
  <2>2. CASE tears # 0
    BY <1>1, <1>2, <1>4, <1>7, <2>2 DEF Stored
  <2> QED
    BY <2>1, <2>2
<1>9. Untorn' /\ Behind'
  BY <1>1, <1>2, <1>4, <1>5 DEF Untorn, Behind
<1>10. Following'
  BY <1>1 DEF Following, Alone, Reading
<1> QED
  BY <1>6, <1>8, <1>9, <1>10 DEF Sound

\* A torn write goes there too, and is not acknowledged.
LEMMA TornInv == ASSUME Sound, AppendTorn PROVE Sound'
<1> DEFINE rec == <<Len4(nextOffset)>>
<1>1. /\ \A r \in Readers : ~Reading(r)
      /\ file' = WriteAt(file, cursor, rec)
      /\ cursor' = cursor + 1 /\ tears' = tears + 1
      /\ UNCHANGED <<nextOffset, intact, pc, from, got, shared>>
  BY DEF AppendTorn
<1>2. /\ file \in Seq(Cell) /\ Len(file) \in Nat /\ cursor \in Nat /\ nextOffset \in Nat
      /\ intact \in Nat /\ tears \in Nat
      /\ cursor >= 2 * intact /\ 2 * intact <= Len(file)
  BY <1>1, LenProperties DEF Sound, Typed, Behind, Stored
<1>3. rec \in Seq(Cell) /\ Len(rec) = 1
  BY <1>2, CellsTyped
<1> HIDE DEF rec
<1>4. /\ file' \in Seq(Cell)
      /\ Len(file') = IF cursor + 1 > Len(file) THEN cursor + 1 ELSE Len(file)
      /\ \A i \in 1..Len(file) : i <= cursor => file'[i] = file[i]
  <2>1. file \in Seq(Cell) /\ cursor \in Nat /\ rec \in Seq(Cell) /\ file' = WriteAt(file, cursor, rec)
    BY <1>1, <1>2, <1>3
  <2>2. /\ file' \in Seq(Cell)
        /\ Len(file') = IF cursor + Len(rec) > Len(file) THEN cursor + Len(rec) ELSE Len(file)
        /\ \A i \in 1..Len(file) : i <= cursor => file'[i] = file[i]
    <3>1. Written(file, cursor, rec, WriteAt(file, cursor, rec))
      BY <2>1, WriteFacts
    <3> QED
      BY <2>1, <3>1 DEF Written
  <2> QED
    BY <1>3, <2>2
<1>5. Typed'
  BY <1>1, <1>2, <1>4 DEF Sound, Typed
<1>6. ASSUME NEW o \in Nat, o < intact
      PROVE  file'[2 * o + 1] = Len4(o) /\ file'[2 * o + 2] = Body(o)
  <2>1. /\ 2 * o + 1 \in 1..Len(file) /\ 2 * o + 1 <= cursor
        /\ 2 * o + 2 \in 1..Len(file) /\ 2 * o + 2 <= cursor
    BY <1>2, <1>6
  <2>2. file'[2 * o + 1] = file[2 * o + 1] /\ file'[2 * o + 2] = file[2 * o + 2]
    BY <1>4, <2>1
  <2> QED
    BY <1>6, <2>2 DEF Sound, Stored
<1>7. Stored'
  BY <1>1, <1>2, <1>4, <1>6 DEF Stored
<1>8. Untorn' /\ Behind'
  BY <1>1, <1>2, <1>4 DEF Untorn, Behind
<1>9. Following'
  BY <1>1 DEF Following, Alone, Reading
<1> QED
  BY <1>5, <1>7, <1>8, <1>9 DEF Sound
-------------------------------------------------------------------------------
(* Reopening *)

\* A non-empty set of natural numbers with a bound has a greatest element.
LEMMA GreatestOf ==
    ASSUME NEW T \in SUBSET Nat, T # {}, NEW m \in Nat, \A x \in T : x <= m
    PROVE  Max(T) \in T /\ \A y \in T : y <= Max(T)
<1> DEFINE R == OpToRel(<, Nat)
           U == {m - x : x \in T}
<1>1. IsWellFoundedOn(R, Nat)
  BY NatLessThanWellFounded
<1>u. U \in SUBSET Nat /\ U # {}
  <2>1. ASSUME NEW x \in T PROVE m - x \in Nat
    BY <2>1
  <2> QED
    BY <2>1
<1>2. \A x, y \in Nat : <<x, y>> \in R <=> x < y
  BY DEF OpToRel
<1> HIDE DEF R
<1>3. PICK u \in U : \A y \in U : ~ (<<y, u>> \in R)
  BY <1>1, <1>u, WFMin
<1>4. PICK t \in T : u = m - t
  BY <1>3
<1>5. ASSUME NEW y \in T PROVE y \in Nat /\ t \in Nat /\ y <= t
  <2>1. y \in Nat /\ t \in Nat /\ m - y \in Nat /\ m - t \in Nat /\ m - y \in U
    OBVIOUS
  <2>2. ~(m - y < m - t)
    BY <1>2, <1>3, <1>4, <2>1
  <2> QED
    BY <2>1, <2>2
<1>6. \E x \in T : \A y \in T : x >= y
  BY <1>5
<1> QED
  BY <1>6 DEF Max

\* recoverState counts every acknowledged record, and no other when nothing was
\* torn.
LEMMA WholeRecordsFacts ==
    ASSUME Sound
    PROVE  /\ WholeRecords \in Nat /\ WholeRecords <= MaxOffset /\ intact <= WholeRecords
           /\ tears = 0 => WholeRecords = intact
<1> DEFINE T == {n \in 0..MaxOffset :
                    /\ 2 * n <= Len(file)
                    /\ \A i \in 1..n : file[2 * i - 1].part = "len" /\ file[2 * i].part = "body"}
<1>1. /\ MaxOffset \in Nat /\ intact \in Nat /\ intact <= MaxOffset /\ Len(file) \in Nat
      /\ 2 * intact <= Len(file)
  BY LenProperties, ConstantsAssumption DEF Sound, Typed, Stored
<1>2. intact \in T
  <2>1. ASSUME NEW i \in 1..intact PROVE file[2 * i - 1].part = "len" /\ file[2 * i].part = "body"
    <3>1. i - 1 \in Nat /\ i - 1 < intact /\ 2 * (i - 1) + 1 = 2 * i - 1 /\ 2 * (i - 1) + 2 = 2 * i
      BY <1>1
    <3>2. file[2 * (i - 1) + 1] = Len4(i - 1) /\ file[2 * (i - 1) + 2] = Body(i - 1)
      BY <3>1 DEF Sound, Stored
    <3> QED
      BY <3>1, <3>2 DEF Len4, Body
  <2> QED
    BY <1>1, <2>1
<1>3. T \in SUBSET Nat /\ \A x \in T : x <= MaxOffset /\ 2 * x <= Len(file)
  BY <1>1
<1>4. WholeRecords = Max(T)
  BY DEF WholeRecords
<1> HIDE DEF T
<1>5. Max(T) \in T /\ \A y \in T : y <= Max(T)
  BY <1>1, <1>2, <1>3, GreatestOf
<1>6. tears = 0 => Len(file) = 2 * intact
  BY DEF Sound, Untorn
<1>7. Max(T) \in Nat /\ Max(T) <= MaxOffset /\ 2 * Max(T) <= Len(file) /\ intact <= Max(T)
  BY <1>2, <1>3, <1>5
<1> QED
  BY <1>1, <1>4, <1>6, <1>7

LEMMA ReopenInv == ASSUME Sound, Reopen PROVE Sound'
<1>1. /\ nextOffset' = WholeRecords /\ cursor' = Len(file)
      /\ pc' = [r \in Readers |-> "idle"] /\ from' = [r \in Readers |-> 0]
      /\ got' = [r \in Readers |-> <<>>] /\ shared' = [r \in Readers |-> FALSE]
      /\ UNCHANGED <<file, tears, intact>>
  BY DEF Reopen, RecoveredCursor
<1>2. /\ Len(file) \in Nat /\ 2 * intact <= Len(file) /\ intact \in Nat
      /\ <<>> \in Seq(Nat \cup {Garbage})
  BY LenProperties, EmptySeq DEF Sound, Typed, Stored
<1>3. Typed'
  BY <1>1, <1>2, WholeRecordsFacts DEF Sound, Typed
<1>4. Stored' /\ Untorn' /\ Behind'
  BY <1>1, <1>2, WholeRecordsFacts DEF Sound, Stored, Untorn, Behind
<1>5. Following'
  BY <1>1 DEF Following, Alone, Reading
<1> QED
  BY <1>3, <1>4, <1>5 DEF Sound

-------------------------------------------------------------------------------
(* The reader *)

\* A reader leaves the file alone; what it does to the cursor is what matters,
\* and to no other reader that is alone, for there is none.
LEMMA ReaderKeeps ==
    ASSUME Sound, UNCHANGED <<seg, shared>>, Typed', NEW r \in Readers, Reading(r),
           \A s \in Readers : s # r => pc'[s] = pc[s],
           tears = 0 => cursor' <= Len(file),
           pc'[r] = "idle" => cursor' >= 2 * intact,
           pc'[r] # "idle" /\ ~shared[r] => Follows(r)'
    PROVE  Sound'
<1>1. Stored' /\ Untorn'
  BY DEF Sound, Stored, Untorn, seg
<1>2. Behind'
  BY DEF Behind, Reading, seg
<1>3. ASSUME NEW s \in Readers, Alone(s)'
      PROVE  s = r /\ Alone(r) /\ Follows(r)' /\ \A q \in Readers : Reading(q)' => q = r
  <2>1. s = r
    <3>1. s # r => Alone(s)
      BY <1>3 DEF Alone, Reading
    <3> QED
      BY <3>1 DEF Sound, Following
  <2>2. Alone(r) /\ Follows(r)'
    BY <1>3, <2>1 DEF Alone, Reading
  <2>3. \A q \in Readers : Reading(q) => q = r
    BY <2>2 DEF Sound, Following
  <2> QED
    BY <2>1, <2>2, <2>3 DEF Reading
<1>4. Following'
  BY <1>3 DEF Following
<1> QED
  BY <1>1, <1>2, <1>4 DEF Sound

LEMMA ReaderFacts ==
    ASSUME Sound, NEW r \in Readers
    PROVE  /\ cursor \in Nat /\ intact \in Nat /\ nextOffset \in Nat /\ from[r] \in Nat /\ tears \in Nat
           /\ Len(file) \in Nat /\ Len(got[r]) \in Nat /\ 2 * intact <= Len(file)
           /\ got[r] \in Seq(Nat \cup {Garbage}) /\ pc[r] \in {"idle", "len", "body"}
           /\ Position(r) \in Nat
           /\ tears = 0 => intact = nextOffset /\ Len(file) = 2 * intact /\ cursor <= Len(file)
<1>1. got[r] \in Seq(Nat \cup {Garbage}) /\ from[r] \in Nat /\ pc[r] \in {"idle", "len", "body"}
  BY DEF Sound, Typed
<1>2. Len(file) \in Nat /\ Len(got[r]) \in Nat
  BY <1>1, LenProperties DEF Sound, Typed
<1> QED
  BY <1>1, <1>2 DEF Sound, Typed, Stored, Untorn, Position

LEMMA ReadBeginInv ==
    ASSUME Sound, NEW r \in Readers, NEW o \in 0..MaxOffset, ReadBegin(r, o)
    PROVE  Sound'
<1>1. /\ o < nextOffset /\ cursor' = 2 * o /\ UNCHANGED seg /\ o \in Nat
      /\ pc' = [pc EXCEPT ![r] = "len"] /\ from' = [from EXCEPT ![r] = o]
      /\ got' = [got EXCEPT ![r] = <<>>]
      /\ shared' = [s \in Readers |-> IF s = r THEN \E q \in Readers : Reading(q)
                                               ELSE shared[s] \/ Reading(s)]
  BY DEF ReadBegin, Lookup
<1>2. <<>> \in Seq(Nat \cup {Garbage}) /\ Len(<<>>) = 0
  BY EmptySeq
<1>3. Typed'
  <2>1. shared' \in [Readers -> BOOLEAN]
    BY <1>1 DEF Sound, Typed, Reading
  <2>2. pc' \in [Readers -> {"idle", "len", "body"}] /\ from' \in [Readers -> Nat] /\ cursor' \in Nat
    BY <1>1 DEF Sound, Typed
  <2>3. got' \in [Readers -> Seq(Nat \cup {Garbage})]
    BY <1>1, <1>2 DEF Sound, Typed
  <2> QED
    BY <1>1, <2>1, <2>2, <2>3 DEF Sound, Typed, seg
<1>4. /\ pc'[r] = "len" /\ from'[r] = o /\ got'[r] = <<>>
      /\ \A s \in Readers : s # r => pc'[s] = pc[s]
  BY <1>1 DEF Sound, Typed
<1>5. Position(r)' = o
  BY <1>1, <1>2, <1>4 DEF Position
<1>6. tears = 0 => cursor' <= Len(file) /\ o <= intact
  BY <1>1, ReaderFacts
<1>7. Follows(r)'
  BY <1>1, <1>2, <1>4, <1>5, <1>6, ReaderFacts DEF Follows, InOrder, seg
<1>8. Stored' /\ Untorn' /\ Behind'
  BY <1>1, <1>4, <1>6 DEF Sound, Stored, Untorn, Behind, Reading, seg
<1>9. ASSUME NEW s \in Readers, Alone(s)'
      PROVE  s = r /\ \A q \in Readers : Reading(q)' => q = r
  <2>1. s = r
    <3>1. s # r => Reading(s) /\ shared'[s]
      BY <1>1, <1>4, <1>9 DEF Alone, Reading
    <3> QED
      BY <1>9, <3>1 DEF Alone
  <2>2. \A q \in Readers : ~Reading(q)
    BY <1>1, <1>9, <2>1 DEF Alone
  <2> QED
    BY <1>4, <2>1, <2>2 DEF Reading
<1>10. Following'
  BY <1>7, <1>9 DEF Following
<1> QED
  BY <1>3, <1>8, <1>10 DEF Sound

\* The end of the file is behind the acknowledged records.
LEMMA ReadEndInv == ASSUME Sound, NEW r \in Readers, ReadEnd(r) PROVE Sound'
<1>1. /\ Reading(r) /\ pc' = [pc EXCEPT ![r] = "idle"]
      /\ cursor' = IF AtEnd THEN cursor ELSE Len(file)
      /\ UNCHANGED <<seg, from, got, shared>>
  BY DEF ReadEnd
<1>2. cursor' \in Nat /\ cursor' >= 2 * intact /\ (tears = 0 => cursor' <= Len(file))
  BY <1>1, ReaderFacts DEF AtEnd
<1>3. Typed' /\ pc'[r] = "idle" /\ \A s \in Readers : s # r => pc'[s] = pc[s]
  BY <1>1, <1>2 DEF Sound, Typed, seg
<1> QED
  BY <1>1, <1>2, <1>3, ReaderKeeps

LEMMA ReadLenInv == ASSUME Sound, NEW r \in Readers, ReadLen(r) PROVE Sound'
<1>1. /\ pc[r] = "len" /\ ~AtEnd /\ pc' = [pc EXCEPT ![r] = "body"]
      /\ cursor' = cursor + 1 /\ UNCHANGED <<seg, from, got, shared>>
  BY DEF ReadLen, Aligned
<1>2. Typed' /\ pc'[r] = "body" /\ Reading(r) /\ \A s \in Readers : s # r => pc'[s] = pc[s]
  BY <1>1 DEF Sound, Typed, Reading, seg
<1>3. cursor < Len(file)
  BY <1>1, ReaderFacts DEF AtEnd
<1>4. ASSUME ~shared[r] PROVE Follows(r)'
  <2>1. Follows(r)
    BY <1>2, <1>4 DEF Sound, Following, Alone
  <2>2. Position(r)' = Position(r)
    BY <1>1 DEF Position
  <2>3. cursor < 2 * intact => cursor + 1 < 2 * intact /\ cursor + 1 = 2 * Position(r) + 1
    BY <1>1, <2>1, ReaderFacts DEF Follows
  <2> QED
    BY <1>1, <1>2, <2>1, <2>2, <2>3, ReaderFacts DEF Follows, InOrder, seg
<1>5. tears = 0 => cursor' <= Len(file)
  BY <1>1, <1>3, ReaderFacts
<1> QED
  BY <1>1, <1>2, <1>4, <1>5, ReaderKeeps

\* What one more decoded record does to the progress of a reader.
LEMMA OneMore ==
    ASSUME Sound, NEW r \in Readers, InOrder(r), NEW x \in Nat \cup {Garbage},
           got'[r] = Append(got[r], x), from'[r] = from[r], intact' = intact,
           Position(r) < intact => x = Position(r)
    PROVE  /\ Position(r)' = Position(r) + 1
           /\ InOrder(r)'
<1>1. /\ Len(got'[r]) = Len(got[r]) + 1 /\ got'[r][Len(got[r]) + 1] = x
      /\ \A i \in 1..Len(got[r]) : got'[r][i] = got[r][i]
  BY ReaderFacts, AppendProperties
<1>2. Position(r)' = Position(r) + 1
  <2>1. Position(r)' = from'[r] + Len(got'[r]) /\ from[r] \in Nat /\ Len(got[r]) \in Nat
    BY ReaderFacts DEF Position
  <2> QED
    BY <1>1, <2>1, SMTT(30) DEF Position
<1>3. ASSUME NEW i \in 1..Len(got'[r]), from[r] + i <= intact PROVE got'[r][i] = from[r] + i - 1
  <2>1. CASE i = Len(got[r]) + 1
    <3>1. Position(r) = from[r] + i - 1 /\ Position(r) < intact
      BY <1>3, <2>1, ReaderFacts, SMTT(30) DEF Position
    <3> QED
      BY <1>1, <2>1, <3>1
  <2>2. CASE i # Len(got[r]) + 1
    <3>1. i \in 1..Len(got[r])
      BY <1>1, <2>2, ReaderFacts, SMTT(30)
    <3> QED
      BY <1>1, <1>3, <3>1 DEF InOrder
  <2> QED
    BY <2>1, <2>2
<1> QED
  BY <1>2, <1>3 DEF InOrder

LEMMA ReadBodyInv == ASSUME Sound, NEW r \in Readers, ReadBody(r) PROVE Sound'
<1> DEFINE x == file[cursor + 1].offset
<1>1. /\ pc[r] = "body" /\ ~AtEnd
      /\ got' = [got EXCEPT ![r] = IF x >= from[r] THEN Append(got[r], x) ELSE got[r]]
      /\ pc' = [pc EXCEPT ![r] = "len"] /\ cursor' = cursor + 1 /\ UNCHANGED <<seg, from, shared>>
  BY DEF ReadBody, Aligned
<1>2. cursor < Len(file) /\ cursor + 1 \in 1..Len(file)
  BY <1>1, ReaderFacts DEF AtEnd
<1>3. x \in Nat
  <2>1. file[cursor + 1] \in Cell
    BY <1>2, ElementOfSeq DEF Sound, Typed
  <2> QED
    BY <2>1 DEF Cell
<1>4. Append(got[r], x) \in Seq(Nat \cup {Garbage})
  BY <1>3, ReaderFacts, AppendProperties
<1>5. /\ Typed' /\ pc'[r] = "len" /\ \A s \in Readers : s # r => pc'[s] = pc[s]
      /\ got'[r] = IF x >= from[r] THEN Append(got[r], x) ELSE got[r]
  BY <1>1, <1>4 DEF Sound, Typed, seg
<1>6. Reading(r) /\ (~shared[r] => Alone(r) /\ Follows(r))
  BY <1>1 DEF Sound, Following, Alone, Reading
<1>7. tears = 0 => cursor < 2 * intact /\ cursor' <= Len(file)
  BY <1>1, <1>2, ReaderFacts
<1>8. ASSUME ~shared[r], cursor < 2 * intact PROVE Follows(r)'
  <2>1. x = Position(r) /\ Position(r) < intact /\ cursor = 2 * Position(r) + 1
    BY <1>1, <1>6, <1>8, AlignedAmongIntact DEF Follows
  <2>2. got'[r] = Append(got[r], x)
    <3>1. from[r] \in Nat /\ Len(got[r]) \in Nat /\ Position(r) = from[r] + Len(got[r])
      BY ReaderFacts DEF Position
    <3>2. x >= from[r]
      BY <2>1, <3>1
    <3> QED
      BY <1>5, <3>2
  <2> HIDE DEF x
  <2>3. /\ Position(r)' = Position(r) + 1
        /\ InOrder(r)'
    BY <1>1, <1>3, <1>6, <1>8, <2>1, <2>2, OneMore DEF seg, Follows
  <2>4. /\ Position(r)' <= intact
        /\ cursor' = 2 * Position(r)'
    <3>1. Position(r) \in Nat /\ intact \in Nat /\ cursor' = cursor + 1 /\ cursor \in Nat
      BY <1>1, ReaderFacts
    <3> QED
      BY <2>1, <2>3, <3>1
  <2>5. intact' = intact /\ Position(r)' \in Nat /\ intact \in Nat
    BY <1>1, <2>3, ReaderFacts DEF seg
  <2> QED
    BY <1>5, <2>3, <2>4, <2>5 DEF Follows
<1>9. ASSUME ~shared[r], cursor >= 2 * intact PROVE Follows(r)'
  <2>1. Position(r) >= intact /\ tears # 0
    BY <1>6, <1>7, <1>9, ReaderFacts DEF Follows
  <2> HIDE DEF x
  <2>2. /\ Position(r)' >= intact
        /\ InOrder(r)'
    <3>1. CASE x >= from[r]
      <4>1. /\ Position(r)' = Position(r) + 1
            /\ InOrder(r)'
        <5>1. InOrder(r) /\ got'[r] = Append(got[r], x) /\ from'[r] = from[r] /\ intact' = intact
          BY <1>1, <1>5, <1>6, <1>9, <3>1 DEF seg, Follows
        <5>2. Position(r) < intact => x = Position(r)
          BY <2>1, ReaderFacts
        <5> QED
          BY <1>3, <5>1, <5>2, OneMore
      <4> QED
        BY <2>1, <4>1, ReaderFacts
    <3>2. CASE ~(x >= from[r])
      BY <1>1, <1>5, <1>6, <1>9, <2>1, <3>2 DEF Position, Follows, InOrder, seg
    <3> QED
      BY <3>1, <3>2
  <2>3. intact' = intact /\ tears' # 0 /\ ~(cursor' < 2 * intact')
    BY <1>1, <1>9, <2>1, ReaderFacts DEF seg
  <2> QED
    BY <2>2, <2>3 DEF Follows
<1>10. ~shared[r] => Follows(r)'
  BY <1>8, <1>9, ReaderFacts
<1> HIDE DEF x
<1> QED
  BY <1>1, <1>5, <1>6, <1>7, <1>10, ReaderKeeps

\* A reader that is alone is misaligned only behind the acknowledged records;
\* the error of another ends what can be said.
LEMMA ReadErrorInv == ASSUME Sound, NEW r \in Readers, ReadError(r), ~misread' PROVE Sound'
<1>1. /\ Reading(r) /\ ~AtEnd /\ ~Aligned(pc[r]) /\ pc' = [pc EXCEPT ![r] = "idle"]
      /\ got' = [got EXCEPT ![r] = <<>>] /\ cursor' = cursor + 1 /\ UNCHANGED <<seg, from, shared>>
      /\ ~shared[r]
  BY DEF ReadError
<1>2. ~(cursor < 2 * intact)
  BY <1>1, AlignedAmongIntact DEF Alone
<1>3. <<>> \in Seq(Nat \cup {Garbage})
  BY EmptySeq
<1>4. Typed' /\ pc'[r] = "idle" /\ \A s \in Readers : s # r => pc'[s] = pc[s]
  BY <1>1, <1>3 DEF Sound, Typed, seg
<1>5. cursor' >= 2 * intact /\ (tears = 0 => cursor' <= Len(file))
  BY <1>1, <1>2, ReaderFacts DEF AtEnd
<1> QED
  BY <1>1, <1>4, <1>5, ReaderKeeps

LEMMA ReadGarbageInv == ASSUME Sound, NEW r \in Readers, ReadGarbage(r) PROVE Sound'
<1>1. /\ Reading(r) /\ ~AtEnd /\ ~Aligned(pc[r]) /\ pc' = [pc EXCEPT ![r] = "len"]
      /\ got' = [got EXCEPT ![r] = Append(got[r], Garbage)]
      /\ cursor' = cursor + 1 /\ UNCHANGED <<seg, from, shared>>
  BY DEF ReadGarbage
<1>2. Append(got[r], Garbage) \in Seq(Nat \cup {Garbage})
  BY ReaderFacts, AppendProperties
<1>3. /\ Typed' /\ pc'[r] = "len" /\ got'[r] = Append(got[r], Garbage)
      /\ \A s \in Readers : s # r => pc'[s] = pc[s]
  BY <1>1, <1>2 DEF Sound, Typed, seg
<1>4. tears = 0 => cursor' <= Len(file)
  BY <1>1, ReaderFacts DEF AtEnd
<1>5. ASSUME ~shared[r] PROVE Follows(r)'
  <2>1. ~(cursor < 2 * intact)
    BY <1>1, <1>5, AlignedAmongIntact DEF Alone
  <2>2. Follows(r) /\ cursor >= 2 * intact /\ tears # 0
    BY <1>1, <1>5, <2>1, ReaderFacts DEF AtEnd, Sound, Following, Alone
  <2>3. Position(r) >= intact
    BY <2>2 DEF Follows
  <2>4. /\ Position(r)' = Position(r) + 1
        /\ InOrder(r)'
    <3>1. InOrder(r) /\ from'[r] = from[r] /\ intact' = intact
      BY <1>1, <2>2 DEF seg, Follows
    <3>2. Position(r) < intact => Garbage = Position(r)
      BY <2>3, ReaderFacts
    <3> QED
      BY <1>3, <3>1, <3>2, OneMore
  <2> QED
    BY <1>1, <2>2, <2>3, <2>4, ReaderFacts DEF Follows, seg
<1> QED
  BY <1>1, <1>3, <1>4, <1>5, ReaderKeeps

LEMMA NextInv == IInv /\ [Next]_vars => IInv'
<1> SUFFICES ASSUME IInv, [Next]_vars, ~misread' PROVE Sound'
  BY DEF IInv
<1>s. Sound
  <2>1. ~misread
    <3>1. \A r \in Readers : ReadError(r) => ~misread
      BY DEF ReadError
    <3>2. \A r \in Readers : ReadStep(r) => ~misread
      BY <3>1 DEF ReadStep, ReadEnd, ReadLen, ReadBody, ReadGarbage
    <3> QED
      BY <3>2 DEF Next, AppendRecord, AppendTorn, Reopen, ReadBegin, vars
  <2> QED
    BY <2>1 DEF IInv
<1>1. CASE AppendRecord \/ AppendTorn \/ Reopen
  BY <1>s, <1>1, AppendInv, TornInv, ReopenInv
<1>2. ASSUME NEW r \in Readers, ReadStep(r) PROVE Sound'
  BY <1>s, <1>2, ReadEndInv, ReadLenInv, ReadBodyInv, ReadErrorInv, ReadGarbageInv DEF ReadStep
<1>3. ASSUME NEW r \in Readers, NEW o \in 0..MaxOffset, ReadBegin(r, o) PROVE Sound'
  BY <1>s, <1>3, ReadBeginInv
<1>4. CASE UNCHANGED vars
  BY <1>s, <1>4 DEF vars, Sound, Typed, Stored, Untorn, Behind, Following, Follows, InOrder, Position,
                    Reading, Alone
<1> QED
  BY <1>1, <1>2, <1>3, <1>4 DEF Next

LEMMA AlwaysInv == Spec => []IInv
<1>1. Init => IInv
  BY InitInv DEF IInv
<1> QED
  BY <1>1, NextInv, PTL DEF Spec

\* Whoever reads at the same time: until a read that overlapped another has
\* failed, a record acknowledged before the first torn write is never
\* overwritten, wherever reads, the error of a lone read or a restart leave the
\* position the next append writes at (Segment.Append, Segment.Read,
\* recoverState).
THEOREM AcknowledgedSurvive == Spec => []AcknowledgedIntact
<1>1. IInv => AcknowledgedIntact
  <2> SUFFICES ASSUME Sound, NEW o \in 0..(intact - 1)
               PROVE  Len(file) >= 2 * o + 2 /\ SubSeq(file, 2 * o + 1, 2 * o + 2) = Cells(o)
    BY DEF IInv, AcknowledgedIntact, AppendOnly
  <2>1. /\ intact \in Nat /\ Len(file) \in Nat /\ 2 * intact <= Len(file) /\ file \in Seq(Cell)
        /\ o \in Nat /\ o < intact
    BY LenProperties DEF Sound, Typed, Stored
  <2>2. /\ 2 * o + 1 \in 1..Len(file) /\ 2 * o + 2 \in 1..Len(file)
        /\ \A i \in (2 * o + 1)..(2 * o + 2) : i \in 1..Len(file)
    BY <2>1
  <2>3. \A i \in (2 * o + 1)..(2 * o + 2) : file[i] \in Cell
    BY <2>1, <2>2, ElementOfSeq
  <2> DEFINE t == SubSeq(file, 2 * o + 1, 2 * o + 2)
  <2>4. /\ t \in Seq(Cell) /\ Len(t) = 2
        /\ \A i \in 1..2 : t[i] = file[2 * o + i]
    <3>1. 2 * o + 1 \in Int /\ 2 * o + 2 \in Int
      BY <2>1
    <3>2. /\ t \in Seq(Cell)
          /\ Len(t) = IF 2 * o + 1 <= 2 * o + 2 THEN (2 * o + 2) - (2 * o + 1) + 1 ELSE 0
          /\ \A i \in 1..((2 * o + 2) - (2 * o + 1) + 1) : t[i] = file[(2 * o + 1) + i - 1]
      BY <2>3, <3>1, SubSeqProperties
    <3>3. (2 * o + 2) - (2 * o + 1) + 1 = 2 /\ \A i \in 1..2 : (2 * o + 1) + i - 1 = 2 * o + i
      BY <2>1
    <3> QED
      BY <2>1, <3>2, <3>3
  <2> HIDE DEF t
  <2>5. /\ Cells(o) \in Seq(Cell) /\ Len(Cells(o)) = 2
        /\ Cells(o)[1] = file[2 * o + 1] /\ Cells(o)[2] = file[2 * o + 2]
    BY <2>1, CellsTyped DEF Sound, Stored
  <2>6. \A i \in 1..2 : t[i] = Cells(o)[i]
    BY <2>4, <2>5
  <2>7. t = Cells(o)
    BY <2>4, <2>5, <2>6, SeqEqual
  <2> QED
    BY <2>1, <2>7 DEF t
<1> QED
  BY <1>1, AlwaysInv, PTL

\* What a read expects is a sequence, and the reader has got that much of it.
LEMMA ExpectedGot ==
    ASSUME Sound, NEW r \in Readers, Alone(r), ~Aligned(pc[r])
    PROVE  /\ IsPrefix(Expected(r), got[r])
           /\ tears = 0 => got[r] = Expected(r)
<1> DEFINE D == Nat \cup {Garbage}
           n == IF from[r] < intact THEN intact - from[r] ELSE 0
           E == Expected(r)
           d == Len(got[r])
<1>1. /\ from[r] \in Nat /\ intact \in Nat /\ d \in Nat /\ got[r] \in Seq(D)
      /\ Position(r) = from[r] + d /\ cursor >= 2 * intact
  <2>1. ~(cursor < 2 * intact)
    BY AlignedAmongIntact
  <2> QED
    BY <2>1, ReaderFacts DEF Position
<1>2. Follows(r)
  BY DEF Sound, Following
<1>3. from[r] + d >= intact /\ (tears = 0 => from[r] + d <= intact)
  BY <1>1, <1>2 DEF Follows
<1>4. n \in Nat /\ n <= d /\ (tears = 0 => n = d) /\ \A i \in 1..n : from[r] + i <= intact /\ i \in 1..d
  BY <1>1, <1>3
<1>5. E = [i \in 1..n |-> from[r] + i - 1]
  BY DEF Expected
<1> HIDE DEF n, E, d
<1>6. \A i \in 1..n : from[r] + i - 1 \in Nat
  BY <1>1, <1>4
<1>7. E \in [1..n -> Nat] /\ \A i \in 1..n : E[i] = from[r] + i - 1
  BY <1>5, <1>6
<1>8. E \in Seq(Nat) /\ Len(E) = n
  BY <1>4, <1>7
<1>9. E \in Seq(D)
  BY <1>8, SeqMonotonic
<1>10. \A i \in 1..n : E[i] = got[r][i]
  BY <1>2, <1>4, <1>7 DEF Follows, InOrder, d
<1> DEFINE t == SubSeq(got[r], 1, n)
<1>11. t \in Seq(D) /\ Len(t) = n /\ \A i \in 1..n : t[i] = got[r][i]
  <2>1. \A i \in 1..n : got[r][i] \in D
    BY <1>1, <1>4, ElementOfSeq DEF d
  <2>2. 1 \in Int /\ n \in Int
    BY <1>4
  <2>3. /\ t \in Seq(D) /\ Len(t) = IF 1 <= n THEN n - 1 + 1 ELSE 0
        /\ \A i \in 1..(n - 1 + 1) : t[i] = got[r][1 + i - 1]
    <3> HIDE DEF D
    <3> QED
      BY <2>1, <2>2, SubSeqProperties
  <2>4. n - 1 + 1 = n /\ \A i \in 1..n : 1 + i - 1 = i
    BY <1>4
  <2> HIDE DEF t
  <2> QED
    BY <1>4, <2>3, <2>4
<1> HIDE DEF t
<1>12. E = t
  BY <1>8, <1>9, <1>10, <1>11, SeqEqual
<1>13. SubSeq(E, 1, Len(E)) = E
  BY <1>8, SubSeqFull
<1>14. IsPrefix(E, got[r])
  BY <1>4, <1>8, <1>12, <1>13 DEF IsPrefix, t, d
<1>15. ASSUME tears = 0 PROVE got[r] = E
  <2>1. n = Len(got[r]) /\ \A i \in 1..Len(got[r]) : got[r][i] = E[i]
    BY <1>4, <1>10, <1>15 DEF d
  <2> QED
    BY <1>1, <1>8, <1>9, <2>1, SeqEqual
<1> QED
  BY <1>14, <1>15 DEF E

\* Until a read that overlapped another has failed, a read that is alone and
\* ends without an error has returned the acknowledged records from its start
\* offset on, in order (Segment.Read, ReadRecord).
THEOREM ReadsReturnLog == Spec => ReadReturnsLog
<1>1. ASSUME IInv, NEW r \in Readers, ReadEnd(r), ~shared[r], ~misread
      PROVE  /\ IsPrefix(Expected(r), got[r])
             /\ tears = 0 => got[r] = Expected(r)
  BY <1>1, ExpectedGot DEF ReadEnd, IInv, Alone
<1>2. IInv /\ [Next]_vars =>
        [\A r \in Readers : ReadEnd(r) /\ ~shared[r] /\ ~misread =>
            /\ IsPrefix(Expected(r), got[r])
            /\ tears = 0 => got[r] = Expected(r)]_vars
  BY <1>1
<1> QED
  BY <1>2, AlwaysInv, PTL DEF Spec, ReadReturnsLog

================================================================================
