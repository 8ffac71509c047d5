--------------------------- MODULE ReplicationProofs ---------------------------
(***************************************************************************)
(* Proofs about Replication, for any followers, batch size and bounds.     *)
(*                                                                         *)
(* Log ends only grow.  What is ever reported, stored as a LEO, returned   *)
(* by a fetch or kept in a task was at most the log end of its replica at  *)
(* that time (Behind), and so it stays at most the log end, however late   *)
(* it is used.                                                             *)
(***************************************************************************)
EXTENDS Replication, SequenceTheorems, WellFoundedInduction, TLAPS

\* Every non-empty set of natural numbers has a least element.
LEMMA MinExists ==
    ASSUME NEW S \in SUBSET Nat, S # {}
    PROVE  \E x \in S : \A y \in S : x <= y
<1>1. PICK x \in S : \A y \in S : ~ (<<y, x>> \in OpToRel(<, Nat))
  BY NatLessThanWellFounded, WFMin
<1>2. \A y \in S : ~(y < x)
  BY <1>1 DEF OpToRel
<1> QED
  BY <1>2

\* MinISRLEO is the log end of a replica, and no replica has a lower one.
LEMMA MinISRLEOLowest ==
    ASSUME NEW l \in [Replicas -> 0..MaxOffset]
    PROVE  /\ MinISRLEO(l) \in 0..MaxOffset
           /\ \A r \in Replicas : MinISRLEO(l) <= l[r]
<1> DEFINE S == {l[r] : r \in Replicas}
<1>1. S \in SUBSET Nat /\ S # {} /\ S \subseteq 0..MaxOffset
  BY DEF Replicas
<1>2. \E x \in S : \A y \in S : x <= y
  BY <1>1, MinExists
<1>3. Min(S) \in S /\ \A y \in S : Min(S) <= y
  BY <1>2 DEF Min
<1> QED
  BY <1>1, <1>3 DEF MinISRLEO

\* Replacing an element of a sequence changes nothing else about it.
LEMMA Replaced ==
    ASSUME NEW S, NEW s \in Seq(S), NEW i \in 1..Len(s), NEW v \in S
    PROVE  /\ [s EXCEPT ![i] = v] \in Seq(S) /\ Len([s EXCEPT ![i] = v]) = Len(s)
           /\ \A j \in 1..Len(s) : [s EXCEPT ![i] = v][j] = IF j = i THEN v ELSE s[j]
  BY ExceptSeq

\* A task whose fetch is under way is one of the follower's objects.
LEMMA CurrentInRange ==
    ASSUME TypeOK, NEW f \in Followers, pc[f] \in {"fetch", "store"}
    PROVE  /\ current[f] \in 1..Len(fetchOffset[f])
           /\ fetchOffset[f] \in Seq(0..MaxOffset)
           /\ fetchOffset[f][current[f]] \in 0..MaxOffset
<1>1. current[f] \in Nat /\ current[f] # 0 /\ current[f] <= Len(fetchOffset[f])
  BY DEF TypeOK
<1>2. fetchOffset[f] \in Seq(0..MaxOffset) /\ Len(fetchOffset[f]) \in Nat
  BY DEF TypeOK
<1>3. current[f] \in 1..Len(fetchOffset[f])
  BY <1>1, <1>2
<1> QED
  BY <1>2, <1>3, ElementOfSeq

\* A fetch from o ends at o or at or below the leader's log end.
LEMMA FetchedBounds ==
    ASSUME TypeOK, NEW o \in 0..MaxOffset
    PROVE  Fetched(o) \in 0..MaxOffset
  BY ConstantsAssumption DEF TypeOK, Fetched, Replicas
-------------------------------------------------------------------------------
LEMMA InitTypeOK == Init => TypeOK
<1> SUFFICES ASSUME Init PROVE TypeOK
  OBVIOUS
<1>1. <<>> \in Seq(0..MaxOffset) /\ Len(<<>>) = 0
  OBVIOUS
<1>2. fetchOffset \in [Followers -> Seq(0..MaxOffset)]
  BY <1>1 DEF Init
<1>3. \A f \in Followers : Len(fetchOffset[f]) = 0 /\ task[f] = 0 /\ current[f] = 0 /\ pc[f] = "idle"
  BY <1>1 DEF Init
<1>4. 0 \in 0..MaxOffset
  BY ConstantsAssumption
<1>5. /\ leo \in [Replicas -> 0..MaxOffset] /\ logEnd \in [Replicas -> 0..MaxOffset]
      /\ highWatermark \in 0..MaxOffset /\ nextOffset \in [Followers -> 0..MaxOffset]
  BY <1>4 DEF Init
<1>7. reports \subseteq Replicas \X (0..MaxOffset) /\ created \in BOOLEAN
  BY DEF Init
<1>6. /\ task \in [Followers -> Nat] /\ current \in [Followers -> Nat]
      /\ quit \in [Followers -> BOOLEAN]
      /\ pc \in [Followers -> {"idle", "fetch", "store", "stopped"}]
  BY DEF Init
<1> QED
  BY <1>2, <1>3, <1>5, <1>6, <1>7 DEF TypeOK

\* No step of the manager, the fetchers or their surroundings breaks a type.
LEMMA NextTypeOK == TypeOK /\ [Next]_vars => TypeOK'
<1> SUFFICES ASSUME TypeOK, [Next]_vars PROVE TypeOK'
  OBVIOUS
<1> USE ConstantsAssumption
<1>1. CASE CreatePartition
  BY <1>1 DEF CreatePartition, TypeOK, fetcher
<1>2. CASE LeaderAppends
  <2>1. logEnd' \in [Replicas -> 0..MaxOffset]
    BY <1>2 DEF LeaderAppends, TypeOK, Replicas
  <2> QED
    BY <1>2, <2>1 DEF LeaderAppends, TypeOK, fetcher, manager
<1>3. ASSUME NEW r \in Replicas, Report(r) PROVE TypeOK'
  BY <1>3 DEF Report, TypeOK, fetcher, manager
<1>4. ASSUME NEW m \in reports, UpdateFollowerLEO(m[1], m[2]) PROVE TypeOK'
  <2>1. m[1] \in Replicas /\ m[2] \in 0..MaxOffset
    BY DEF TypeOK
  <2>2. leo' \in [Replicas -> 0..MaxOffset]
    BY <1>4, <2>1 DEF UpdateFollowerLEO, TypeOK
  <2>3. highWatermark' \in 0..MaxOffset
    BY <1>4, <2>2, MinISRLEOLowest DEF UpdateFollowerLEO, Advanced, TypeOK
  <2> QED
    BY <1>4, <2>2, <2>3 DEF UpdateFollowerLEO, TypeOK, fetcher
<1>5. ASSUME NEW f \in Followers, RemoveFetchTask(f) PROVE TypeOK'
  <2>1. task' \in [Followers -> Nat] /\ \A g \in Followers : task'[g] <= Len(fetchOffset[g])
    <3>1. \A g \in Followers : Len(fetchOffset[g]) \in Nat
      BY DEF TypeOK
    <3> QED
      BY <1>5, <3>1 DEF RemoveFetchTask, TypeOK
  <2> QED
    BY <1>5, <2>1 DEF RemoveFetchTask, TypeOK, manager
<1>6. ASSUME NEW f \in Followers, NEW o \in 0..MaxOffset, AddFetchTask(f, o) PROVE TypeOK'
  <2> DEFINE s == Append(fetchOffset[f], o)
  <2>1. /\ fetchOffset[f] \in Seq(0..MaxOffset) /\ Len(fetchOffset[f]) \in Nat
        /\ s \in Seq(0..MaxOffset) /\ Len(s) = Len(fetchOffset[f]) + 1
    BY DEF TypeOK
  <2>2. fetchOffset' = [fetchOffset EXCEPT ![f] = s] /\ task' = [task EXCEPT ![f] = Len(s)]
    BY <1>6, <2>1 DEF AddFetchTask
  <2> HIDE DEF s
  <2>3. fetchOffset' \in [Followers -> Seq(0..MaxOffset)] /\ task' \in [Followers -> Nat]
    BY <2>1, <2>2 DEF TypeOK
  <2>4. \A g \in Followers : task'[g] <= Len(fetchOffset'[g]) /\ current[g] <= Len(fetchOffset'[g])
    BY <2>1, <2>2 DEF TypeOK
  <2> QED
    BY <1>6, <2>3, <2>4 DEF AddFetchTask, TypeOK, manager
<1>7. ASSUME NEW f \in Followers, CopyTasks(f) PROVE TypeOK'
  BY <1>7 DEF CopyTasks, TypeOK, manager
<1>8. ASSUME NEW f \in Followers, CallFetch(f) PROVE TypeOK'
  <2> DEFINE n == Fetched(fetchOffset[f][current[f]])
  <2>1. n \in 0..MaxOffset
    BY <1>8, CurrentInRange, FetchedBounds DEF CallFetch
  <2>2. /\ logEnd' = [logEnd EXCEPT ![f] = IF n > logEnd[f] THEN n ELSE logEnd[f]]
        /\ nextOffset' = [nextOffset EXCEPT ![f] = n]
    BY <1>8 DEF CallFetch
  <2> HIDE DEF n
  <2>3. logEnd' \in [Replicas -> 0..MaxOffset] /\ nextOffset' \in [Followers -> 0..MaxOffset]
    BY <2>1, <2>2 DEF TypeOK, Replicas
  <2> QED
    BY <1>8, <2>3 DEF CallFetch, TypeOK, manager
<1>9. ASSUME NEW f \in Followers, FetchFails(f) PROVE TypeOK'
  <2>1. \A g \in Followers : Len(fetchOffset[g]) \in Nat
    BY DEF TypeOK
  <2> QED
    BY <1>9, <2>1 DEF FetchFails, TypeOK, manager
<1>10. ASSUME NEW f \in Followers, StoreOffset(f) PROVE TypeOK'
  <2> DEFINE s == [fetchOffset[f] EXCEPT ![current[f]] = Stored(f)]
  <2>1. /\ current[f] \in 1..Len(fetchOffset[f]) /\ fetchOffset[f] \in Seq(0..MaxOffset)
        /\ Stored(f) \in 0..MaxOffset
    BY <1>10, CurrentInRange DEF StoreOffset, Stored, TypeOK
  <2>2. s \in Seq(0..MaxOffset) /\ Len(s) = Len(fetchOffset[f])
    BY <2>1, Replaced
  <2>3. fetchOffset' = [fetchOffset EXCEPT ![f] = s]
    BY <1>10 DEF StoreOffset, Held, TypeOK
  <2> HIDE DEF s
  <2>4. /\ fetchOffset' \in [Followers -> Seq(0..MaxOffset)]
        /\ \A g \in Followers : Len(fetchOffset'[g]) = Len(fetchOffset[g]) /\ Len(fetchOffset[g]) \in Nat
    BY <2>2, <2>3 DEF TypeOK
  <2> QED
    BY <1>10, <2>4, SMTT(30) DEF StoreOffset, TypeOK, manager
<1>11. ASSUME NEW f \in Followers, Stop(f) PROVE TypeOK'
  BY <1>11 DEF Stop, TypeOK, manager
<1>12. ASSUME NEW f \in Followers, LoopExits(f) PROVE TypeOK'
  BY <1>12 DEF LoopExits, TypeOK, manager
<1>13. CASE UNCHANGED vars
  BY <1>13 DEF vars, manager, fetcher, TypeOK
<1> QED
  BY <1>1, <1>2, <1>3, <1>4, <1>5, <1>6, <1>7, <1>8, <1>9, <1>10, <1>11, <1>12, <1>13 DEF Next

\* Every variable of the package keeps its type in every behaviour.
THEOREM TypeCorrect == Spec => []TypeOK
  BY InitTypeOK, NextTypeOK, PTL DEF Spec
-------------------------------------------------------------------------------
\* What was reported, stored as a LEO, fetched or kept in a task is not beyond
\* the log end of its replica, and neither is the high watermark.
Behind ==
    /\ \A m \in reports : m[2] <= logEnd[m[1]]
    /\ \A r \in Replicas : leo[r] <= logEnd[r] /\ highWatermark <= logEnd[r]
    /\ \A f \in Followers : nextOffset[f] <= logEnd[f]
    /\ FetchesContiguous

\* No step shortens a log.
LEMMA LogEndGrows ==
    ASSUME TypeOK, [Next]_vars, NEW r \in Replicas
    PROVE  logEnd'[r] >= logEnd[r]
<1>1. CASE LeaderAppends
  BY <1>1 DEF LeaderAppends, TypeOK, Replicas
<1>2. ASSUME NEW f \in Followers, CallFetch(f) PROVE logEnd'[r] >= logEnd[r]
  <2>1. Fetched(fetchOffset[f][current[f]]) \in 0..MaxOffset
    BY <1>2, CurrentInRange, FetchedBounds DEF CallFetch
  <2> QED
    BY <1>2, <2>1, SMTT(30) DEF CallFetch, TypeOK, Replicas
<1>3. CASE logEnd' = logEnd
  BY <1>3 DEF TypeOK
<1> QED
  BY <1>1, <1>2, <1>3 DEF Next, vars, CreatePartition, Report, UpdateFollowerLEO, RemoveFetchTask,
     AddFetchTask, CopyTasks, FetchFails, StoreOffset, Stop, LoopExits

LEMMA InitBehind == Init => Behind
<1> SUFFICES ASSUME Init PROVE Behind
  OBVIOUS
<1>1. \A f \in Followers : Len(fetchOffset[f]) = 0
  BY DEF Init
<1> QED
  BY <1>1 DEF Init, Behind, FetchesContiguous, Replicas

\* Every step keeps the parts of Behind it touches; the rest follows from the
\* growth of the logs.
LEMMA NextBehind == TypeOK /\ TypeOK' /\ Behind /\ [Next]_vars => Behind'
<1> SUFFICES ASSUME TypeOK, TypeOK', Behind, [Next]_vars PROVE Behind'
  OBVIOUS
<1>1. /\ \A r \in Replicas : logEnd[r] \in 0..MaxOffset /\ logEnd'[r] \in 0..MaxOffset
      /\ \A r \in Replicas : logEnd'[r] >= logEnd[r]
      /\ Followers \subseteq Replicas
  BY LogEndGrows DEF TypeOK, Replicas
<1>2. (\A m \in reports : m[2] <= logEnd[m[1]])'
  <2>1. ASSUME NEW m \in reports PROVE m[2] <= logEnd'[m[1]]
    BY <1>1 DEF TypeOK, Behind
  <2>2. ASSUME NEW r \in Replicas, Report(r) PROVE (\A m \in reports : m[2] <= logEnd[m[1]])'
    BY <1>1, <2>1, <2>2 DEF Report
  <2>3. CASE reports' = reports
    BY <2>1, <2>3
  <2> QED
    BY <2>2, <2>3 DEF Next, vars, CreatePartition, LeaderAppends, UpdateFollowerLEO,
       RemoveFetchTask, AddFetchTask, CopyTasks, CallFetch, FetchFails, StoreOffset, Stop, LoopExits
<1>3. (\A r \in Replicas : leo[r] <= logEnd[r] /\ highWatermark <= logEnd[r])'
  <2>1. CASE CreatePartition
    BY <1>1, <2>1 DEF CreatePartition
  <2>2. ASSUME NEW m \in reports, UpdateFollowerLEO(m[1], m[2])
        PROVE  (\A r \in Replicas : leo[r] <= logEnd[r] /\ highWatermark <= logEnd[r])'
    <3>1. m[1] \in Replicas /\ m[2] \in 0..MaxOffset /\ m[2] <= logEnd[m[1]]
      BY DEF TypeOK, Behind
    <3>2. leo' = [leo EXCEPT ![m[1]] = m[2]] /\ logEnd' = logEnd /\ highWatermark' = Advanced(leo')
      BY <2>2 DEF UpdateFollowerLEO
    <3>3. \A r \in Replicas : leo'[r] <= logEnd[r]
      BY <3>1, <3>2 DEF TypeOK, Behind
    <3>4. leo' \in [Replicas -> 0..MaxOffset]
      BY DEF TypeOK
    <3>5. MinISRLEO(leo') \in 0..MaxOffset /\ \A r \in Replicas : MinISRLEO(leo') <= leo'[r]
      BY <3>4, MinISRLEOLowest
    <3>6. \A r \in Replicas : MinISRLEO(leo') <= logEnd[r]
      BY <1>1, <3>3, <3>4, <3>5
    <3> QED
      BY <3>2, <3>3, <3>6 DEF Advanced, Behind
  <2>3. CASE UNCHANGED <<leo, highWatermark>>
    BY <1>1, <2>3 DEF TypeOK, Behind
  <2> QED
    BY <2>1, <2>2, <2>3 DEF Next, vars, manager, Report, LeaderAppends, RemoveFetchTask,
       AddFetchTask, CopyTasks, CallFetch, FetchFails, StoreOffset, Stop, LoopExits
<1>4. (\A f \in Followers : nextOffset[f] <= logEnd[f])'
  <2>1. ASSUME NEW f \in Followers, CallFetch(f) PROVE (\A g \in Followers : nextOffset[g] <= logEnd[g])'
    <3> DEFINE n == Fetched(fetchOffset[f][current[f]])
    <3>1. n \in 0..MaxOffset
      BY <2>1, CurrentInRange, FetchedBounds DEF CallFetch
    <3>2. /\ logEnd' = [logEnd EXCEPT ![f] = IF n > logEnd[f] THEN n ELSE logEnd[f]]
          /\ nextOffset' = [nextOffset EXCEPT ![f] = n]
      BY <2>1 DEF CallFetch
    <3> HIDE DEF n
    <3>3. nextOffset'[f] = n /\ logEnd'[f] >= n
      BY <1>1, <3>1, <3>2 DEF TypeOK
    <3>4. \A g \in Followers : g # f => nextOffset'[g] = nextOffset[g] /\ logEnd'[g] = logEnd[g]
      BY <1>1, <3>2 DEF TypeOK
    <3>5. ASSUME NEW g \in Followers PROVE nextOffset'[g] <= logEnd'[g]
      BY <1>1, <3>1, <3>3, <3>4 DEF Behind
    <3> QED
      BY <3>5
  <2>2. ASSUME NEW f \in Followers, StoreOffset(f) PROVE (\A g \in Followers : nextOffset[g] <= logEnd[g])'
    BY <1>1, <2>2, SMTT(30) DEF StoreOffset, TypeOK, Behind
  <2>3. CASE nextOffset' = nextOffset
    BY <1>1, <2>3, SMTT(30) DEF TypeOK, Behind
  <2> QED
    BY <2>1, <2>2, <2>3 DEF Next, vars, fetcher, CreatePartition, LeaderAppends, Report,
       UpdateFollowerLEO, RemoveFetchTask, AddFetchTask, CopyTasks, FetchFails, Stop, LoopExits
<1>5. FetchesContiguous'
  <2>1. ASSUME NEW g \in Followers, fetchOffset'[g] = fetchOffset[g], NEW i \in 1..Len(fetchOffset[g])
        PROVE  fetchOffset'[g][i] <= logEnd'[g]
    <3>1. fetchOffset[g][i] \in 0..MaxOffset
      BY ElementOfSeq DEF TypeOK
    <3>2. fetchOffset[g][i] <= logEnd[g]
      BY DEF Behind, FetchesContiguous
    <3> QED
      BY <1>1, <2>1, <3>1, <3>2
  <2>2. ASSUME NEW f \in Followers, NEW o \in 0..MaxOffset, AddFetchTask(f, o) PROVE FetchesContiguous'
    <3>1. /\ fetchOffset' = [fetchOffset EXCEPT ![f] = Append(fetchOffset[f], o)]
          /\ o <= logEnd[f] /\ logEnd' = logEnd
      BY <2>2 DEF AddFetchTask
    <3>2. fetchOffset[f] \in Seq(0..MaxOffset) /\ Len(fetchOffset[f]) \in Nat
      BY DEF TypeOK
    <3>3. ASSUME NEW i \in 1..Len(Append(fetchOffset[f], o)) PROVE Append(fetchOffset[f], o)[i] <= logEnd[f]
      <4>1. CASE i = Len(fetchOffset[f]) + 1
        BY <3>1, <3>2, <4>1
      <4>2. CASE i \in 1..Len(fetchOffset[f])
        BY <3>2, <4>2 DEF Behind, FetchesContiguous
      <4> QED
        BY <3>2, <4>1, <4>2
    <3>4. fetchOffset'[f] = Append(fetchOffset[f], o) /\ \A g \in Followers : g # f => fetchOffset'[g] = fetchOffset[g]
      BY <3>1 DEF TypeOK
    <3> QED
      BY <2>1, <3>1, <3>3, <3>4 DEF FetchesContiguous
  <2>3. ASSUME NEW f \in Followers, StoreOffset(f) PROVE FetchesContiguous'
    <3>1. /\ current[f] \in 1..Len(fetchOffset[f]) /\ fetchOffset[f] \in Seq(0..MaxOffset)
          /\ fetchOffset[f][current[f]] \in 0..MaxOffset
      BY <2>3, CurrentInRange DEF StoreOffset
    <3>2. Stored(f) \in 0..MaxOffset /\ Stored(f) <= logEnd[f]
      BY <3>1 DEF Stored, TypeOK, Behind, FetchesContiguous
    <3> DEFINE s == [fetchOffset[f] EXCEPT ![current[f]] = Stored(f)]
    <3>3. fetchOffset' = [fetchOffset EXCEPT ![f] = s] /\ logEnd' = logEnd
      BY <2>3 DEF StoreOffset, Held, TypeOK
    <3>4. Len(s) = Len(fetchOffset[f]) /\ \A i \in 1..Len(s) : s[i] <= logEnd[f]
      BY <3>1, <3>2, Replaced DEF Behind, FetchesContiguous
    <3> HIDE DEF s
    <3>5. fetchOffset'[f] = s /\ \A g \in Followers : g # f => fetchOffset'[g] = fetchOffset[g]
      BY <3>3 DEF TypeOK
    <3> QED
      BY <2>1, <3>3, <3>4, <3>5 DEF FetchesContiguous
  <2>4. CASE fetchOffset' = fetchOffset
    BY <2>1, <2>4 DEF FetchesContiguous
  <2> QED
    BY <2>2, <2>3, <2>4 DEF Next, vars, fetcher, CreatePartition, LeaderAppends, Report,
       UpdateFollowerLEO, RemoveFetchTask, CopyTasks, CallFetch, FetchFails, Stop, LoopExits
<1> QED
  BY <1>2, <1>3, <1>4, <1>5 DEF Behind

LEMMA AlwaysBehind == Spec => []Behind
  BY TypeCorrect, InitBehind, NextBehind, PTL DEF Spec

\* The high watermark never covers a record some replica does not have, in
\* whatever order reports of log ends arrive.
THEOREM WatermarkIsReplicated == Spec => []HighWatermarkReplicated
<1>1. TypeOK /\ Behind => HighWatermarkReplicated
  BY DEF TypeOK, Behind, HighWatermarkReplicated, GetHighWatermark
<1> QED
  BY <1>1, TypeCorrect, AlwaysBehind, PTL

\* The high watermark that GetHighWatermark returns never goes back, although an
\* old report takes a LEO back.
THEOREM WatermarkNeverBack == Spec => HighWatermarkMonotone
<1>1. ASSUME TypeOK, TypeOK', [Next]_vars PROVE GetHighWatermark' >= GetHighWatermark
  <2> USE DEF GetHighWatermark
  <2>1. highWatermark \in Nat /\ highWatermark' \in Nat
    BY <1>1 DEF TypeOK
  <2>2. CASE CreatePartition
    BY <2>1, <2>2 DEF CreatePartition
  <2>3. ASSUME NEW m \in reports, UpdateFollowerLEO(m[1], m[2]) PROVE GetHighWatermark' >= GetHighWatermark
    <3>1. MinISRLEO(leo') \in 0..MaxOffset
      BY <1>1, MinISRLEOLowest DEF TypeOK
    <3> QED
      BY <2>1, <2>3, <3>1 DEF UpdateFollowerLEO, Advanced
  <2>4. CASE UNCHANGED <<created, highWatermark>>
    BY <2>1, <2>4
  <2> QED
    BY <1>1, <2>2, <2>3, <2>4 DEF Next, vars, manager, Report, LeaderAppends, RemoveFetchTask,
       AddFetchTask, CopyTasks, CallFetch, FetchFails, StoreOffset, Stop, LoopExits
<1>2. TypeOK /\ TypeOK' /\ [Next]_vars => [GetHighWatermark' >= GetHighWatermark]_vars
  BY <1>1
<1> QED
  BY <1>2, TypeCorrect, PTL DEF Spec, HighWatermarkMonotone

\* No fetch task runs ahead of its follower's log, replaced and removed tasks
\* that a fetch still holds included.
THEOREM NoHoles == Spec => []FetchesContiguous
<1>1. Behind => FetchesContiguous
  BY DEF Behind
<1> QED
  BY <1>1, AlwaysBehind, PTL
================================================================================
