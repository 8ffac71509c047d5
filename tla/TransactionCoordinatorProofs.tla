--------------------- MODULE TransactionCoordinatorProofs ---------------------
(***************************************************************************)
(* Proofs about TransactionCoordinator and ProducerSequences, for any sets *)
(* of transactional ids, partitions and connections, any bounds and any    *)
(* faults.                                                                 *)
(*                                                                         *)
(* Four inductive invariants, the first three each on top of the one       *)
(* before, the last on top of the first:                                   *)
(*   Typed        the types, and that finitely many answers were given;    *)
(*   Credentials  what was answered since the last restart lies at or      *)
(*                below the counter, and as far behind the epoch of its id *)
(*                as that was fenced since, up to one wrap-around;         *)
(*   Decided      every marker, written or still in the hands of a         *)
(*                handler, belongs to a transaction that was ended, and    *)
(*                the open one of each id has none;                        *)
(*   Sequenced    records are numbered from 0, a number below the count of *)
(*                those sent is known as a duplicate, and the log has each *)
(*                record once.                                             *)
(***************************************************************************)
EXTENDS ProducerSequences, FiniteSetTheorems, SequenceTheorems, TLAPS

Typed == TypeOK /\ IsFiniteSet(issued)

\* Epochs start at 0.
LEMMA ZeroEpoch == 0 \in Epochs
  BY ConstantsAssumption DEF Epochs

LEMMA InitTyped == Init => Typed
<1> SUFFICES ASSUME Init PROVE Typed
  OBVIOUS
<1>1. IsFiniteSet(issued)
  BY FS_EmptySet DEF Init
<1> QED
  BY <1>1, ZeroEpoch DEF Init, Typed, TypeOK, States

\* Incremented or wrapped around, an epoch keeps its width.
LEMMA NextEpochTyped ==
    ASSUME Typed, NEW t \in TxIds
    PROVE  NextEpoch(t) \in Epochs
<1>1. producerEpoch[t] \in Epochs
  BY DEF Typed, TypeOK
<1> QED
  BY <1>1, ConstantsAssumption DEF NextEpoch, Epochs

\* An answer is recorded as one more credential.
LEMMA AnswerTyped ==
    ASSUME Typed, NEW t \in TxIds \cup {NoTxId}, NEW pid \in Nat, NEW epoch \in Epochs,
           NEW fencing \in Nat, Answer(t, pid, epoch, fencing)
    PROVE  issued' \subseteq Credential /\ IsFiniteSet(issued')
<1>1. Cardinality(issued) \in Nat
  BY FS_CardinalityType DEF Typed
<1>2. issued' \subseteq Credential
  BY <1>1 DEF Answer, Typed, TypeOK, Credential
<1>3. IsFiniteSet(issued')
  BY FS_AddElement DEF Answer, Typed
<1> QED
  BY <1>2, <1>3

LEMMA NextTyped == Typed /\ [Next]_vars => Typed'
<1> SUFFICES ASSUME Typed, [Next]_vars PROVE Typed'
  OBVIOUS
<1> USE DEF Typed, TypeOK, States
<1>1. CASE InitIdempotent
  <2>1. issued' \subseteq Credential /\ IsFiniteSet(issued')
    <3>1. NoTxId \in TxIds \cup {NoTxId} /\ producerIdCounter + 1 \in Nat
      OBVIOUS
    <3>2. Answer(NoTxId, producerIdCounter + 1, 0, 0)
      BY <1>1 DEF InitIdempotent
    <3> HIDE DEF Typed, TypeOK
    <3> QED
      BY <3>1, <3>2, ZeroEpoch, AnswerTyped
  <2> QED
    BY <1>1, <2>1 DEF InitIdempotent
<1>2. CASE Restart
  BY <1>2, ZeroEpoch DEF Restart
<1>3. ASSUME NEW t \in TxIds, InitNew(t) PROVE Typed'
  <2>1. issued' \subseteq Credential /\ IsFiniteSet(issued')
    <3>1. Answer(t, producerIdCounter + 1, 0, 0) /\ producerIdCounter + 1 \in Nat
      BY <1>3 DEF InitNew
    <3> HIDE DEF Typed, TypeOK
    <3> QED
      BY <3>1, ZeroEpoch, AnswerTyped
  <2> QED
    BY <1>3, <2>1, ZeroEpoch DEF InitNew
<1>4. ASSUME NEW t \in TxIds, InitExisting(t) PROVE Typed'
  <2>1. NextEpoch(t) \in Epochs
    BY NextEpochTyped
  <2>2. issued' \subseteq Credential /\ IsFiniteSet(issued')
    BY <1>4, <2>1, AnswerTyped DEF InitExisting
  <2> QED
    BY <1>4, <2>1, <2>2 DEF InitExisting, ForgetPartitions
<1>5. ASSUME NEW a \in issued, NEW p \in Partitions, a.tx # NoTxId, AddPartitionsToTxn(a, p)
      PROVE  Typed'
  <2>1. a.tx \in TxIds /\ a.epoch \in Epochs /\ TxnAfterAdd(a.tx) \in Nat
    BY <1>5 DEF Credential, TxnAfterAdd
  <2>2. registered' \subseteq [txn : Txn, part : Partitions]
    BY <1>5, <2>1 DEF AddPartitionsToTxn, Txn
  <2> QED
    BY <1>5, <2>1, <2>2 DEF AddPartitionsToTxn
<1>6. ASSUME NEW c \in Connections, NEW a \in issued, NEW o \in Outcomes, a.tx # NoTxId,
             EndTxn(c, a, o)
      PROVE  Typed'
  <2>1. a.tx \in TxIds
    BY <1>6 DEF Credential
  <2>2. Current(a.tx) \in Txn
    BY <2>1 DEF Current, Txn
  <2>3. {[txn |-> Current(a.tx), part |-> q, outcome |-> o] : q \in partitions[a.tx]} \subseteq Marker
    BY <2>1, <2>2 DEF Marker
  <2>4. ending' \in [Connections -> SUBSET Marker]
    BY <1>6, <2>3 DEF EndTxn
  <2> QED
    BY <1>6, <2>1, <2>4 DEF EndTxn, TakePartitions, history
<1>7. ASSUME NEW c \in Connections, NEW m \in ending[c], WriteMarker(c, m) PROVE Typed'
  BY <1>7 DEF WriteMarker, coord, history
<1>8. ASSUME NEW c \in Connections, NEW m \in ending[c], MarkerLost(c, m) PROVE Typed'
  BY <1>8 DEF MarkerLost, coord, history
<1>9. CASE UNCHANGED vars
  BY <1>9 DEF vars, coord, history
<1> QED
  BY <1>1, <1>2, <1>3, <1>4, <1>5, <1>6, <1>7, <1>8, <1>9 DEF Next

\* Every variable of the transaction coordinator keeps its type, and partitions
\* are registered only while a transaction is open.
THEOREM TypeCorrect == Spec => []TypeOK
<1>1. Spec => []Typed
  BY InitTyped, NextTyped, PTL DEF Spec
<1>2. Typed => TypeOK
  BY DEF Typed
<1> QED
  BY <1>1, <1>2, PTL
-------------------------------------------------------------------------------
\* An epoch d fencings after another is d above it or, once wrapped around, 2^16
\* less than that; from a whole round on nothing is said.
Paced(f, e, g, h) ==
    /\ g <= f
    /\ f - g < 2 * EpochLimit => e - h = f - g \/ e - h = f - g - 2 * EpochLimit

\* The epoch after the next fencing keeps the pace, and differs from all epochs
\* of the last round.
LEMMA PacedNext ==
    ASSUME NEW f \in Nat, NEW g \in Nat, NEW e \in Epochs, NEW h \in Epochs, Paced(f, e, g, h),
           NEW n, n = IF e = EpochLimit - 1 THEN -EpochLimit ELSE e + 1
    PROVE  /\ Paced(f + 1, n, g, h)
           /\ f + 1 - g < 2 * EpochLimit => h # n
<1>1. EpochLimit \in Nat /\ e \in Int /\ h \in Int /\ h <= EpochLimit - 1 /\ n \in Int
  BY ConstantsAssumption DEF Epochs
<1>2. CASE e = EpochLimit - 1
  BY <1>1, <1>2 DEF Paced
<1>3. CASE e # EpochLimit - 1
  BY <1>1, <1>3 DEF Paced
<1> QED
  BY <1>2, <1>3

LEMMA PacedSame == \A f \in Nat, e \in Epochs : Paced(f, e, f, e)
  BY ConstantsAssumption DEF Paced, Epochs

\* What InitProducerId has answered since the last restart: every producer id
\* is at or below the counter, ids in use are distinct, and a credential with
\* the id of a transactional id keeps pace with its fencings.
Credentials ==
    /\ \A a \in issued : a.boot <= boot
    /\ \A a \in issued : a.boot = boot => a.pid <= producerIdCounter
    /\ \A t \in txns : producerId[t] <= producerIdCounter
    /\ \A t, u \in txns : producerId[t] = producerId[u] => t = u
    /\ \A t \in txns, a \in issued :
            a.boot = boot /\ a.pid = producerId[t]
                => Paced(fencings[t], producerEpoch[t], a.fencing, a.epoch)
    /\ CredentialsRecurLate

LEMMA InitCredentials == Init => Credentials
  BY DEF Init, Credentials, CredentialsRecurLate

\* An answer that repeats no answer of this boot with its id but such as are a
\* whole round of epochs older keeps repetitions late.
LEMMA AnswerFresh ==
    ASSUME Typed, Credentials, NEW t, NEW pid \in Nat, NEW epoch \in Epochs, NEW fencing \in Nat,
           Answer(t, pid, epoch, fencing),
           \A a \in issued : a.boot = boot /\ a.pid = pid /\ a.epoch = epoch
                                => fencing - a.fencing >= 2 * EpochLimit,
           UNCHANGED boot
    PROVE  /\ CredentialsRecurLate'
           /\ \A a \in issued' : a.boot <= boot
           /\ \A a \in issued' :
                \/ a \in issued
                \/ a.boot = boot /\ a.pid = pid /\ a.epoch = epoch /\ a.fencing = fencing
<1> DEFINE new == [no |-> Cardinality(issued), boot |-> boot, tx |-> t, pid |-> pid, epoch |-> epoch,
                   fencing |-> fencing]
<1>1. issued' = issued \cup {new}
  BY DEF Answer
<1>2. new.boot = boot /\ new.pid = pid /\ new.epoch = epoch /\ new.fencing = fencing
  OBVIOUS
<1>3. boot \in Nat /\ \A a \in issued : a.boot \in Nat /\ a.pid \in Nat /\ a.epoch \in Epochs
  BY DEF Typed, TypeOK, Credential
<1> HIDE DEF new
<1>4. \A a \in issued : a.boot <= boot /\ (SameCredential(a, new) /\ a.boot = new.boot => Apart(a, new))
  BY <1>2, <1>3 DEF Credentials, SameCredential, Apart
<1>5. \A a \in issued : SameCredential(new, a) /\ new.boot = a.boot => Apart(new, a)
  BY <1>4 DEF SameCredential, Apart
<1>6. CredentialsRecurLate'
  BY <1>1, <1>4, <1>5 DEF Credentials, CredentialsRecurLate, SameCredential, Apart
<1> QED
  BY <1>1, <1>2, <1>3, <1>4, <1>6

LEMMA NextCredentials == Typed /\ Credentials /\ [Next]_vars => Credentials'
<1> SUFFICES ASSUME Typed, Credentials, [Next]_vars PROVE Credentials'
  OBVIOUS
<1>t. /\ producerIdCounter \in Nat /\ boot \in Nat /\ txns \subseteq TxIds
      /\ producerId \in [TxIds -> Nat] /\ producerEpoch \in [TxIds -> Epochs]
      /\ fencings \in [TxIds -> Nat]
      /\ \A a \in issued : a.boot \in Nat /\ a.pid \in Nat /\ a.epoch \in Epochs /\ a.fencing \in Nat
  BY DEF Typed, TypeOK, Credential
<1>n. \A a \in issued : ~(a.boot = boot /\ a.pid = producerIdCounter + 1)
  BY <1>t DEF Credentials
<1>1. CASE InitIdempotent
  <2>1. Answer(NoTxId, producerIdCounter + 1, 0, 0) /\ UNCHANGED boot
    BY <1>1 DEF InitIdempotent
  <2>2. /\ CredentialsRecurLate'
        /\ \A a \in issued' : a.boot <= boot
        /\ \A a \in issued' :
            \/ a \in issued
            \/ a.boot = boot /\ a.pid = producerIdCounter + 1 /\ a.epoch = 0 /\ a.fencing = 0
    BY <1>t, <1>n, <2>1, ZeroEpoch, AnswerFresh
  <2> QED
    BY <1>1, <1>t, <2>2 DEF InitIdempotent, Credentials
<1>2. CASE Restart
  BY <1>2, <1>t DEF Restart, Credentials, CredentialsRecurLate
<1>3. ASSUME NEW t \in TxIds, InitNew(t) PROVE Credentials'
  <2>1. Answer(t, producerIdCounter + 1, 0, 0) /\ UNCHANGED boot
    BY <1>3 DEF InitNew
  <2>2. /\ CredentialsRecurLate'
        /\ \A a \in issued' : a.boot <= boot
        /\ \A a \in issued' :
            \/ a \in issued
            \/ a.boot = boot /\ a.pid = producerIdCounter + 1 /\ a.epoch = 0 /\ a.fencing = 0
    BY <1>t, <1>n, <2>1, ZeroEpoch, AnswerFresh
  <2>3. /\ txns' = txns \cup {t} /\ t \notin txns /\ producerIdCounter' = producerIdCounter + 1
        /\ producerId' = [producerId EXCEPT ![t] = producerIdCounter + 1]
        /\ producerEpoch' = [producerEpoch EXCEPT ![t] = 0]
        /\ fencings' = [fencings EXCEPT ![t] = 0]
    BY <1>3 DEF InitNew
  <2>4. (\A u \in txns : producerId[u] <= producerIdCounter)'
    BY <1>t, <2>3 DEF Credentials
  <2>5. (\A u, w \in txns : producerId[u] = producerId[w] => u = w)'
    BY <1>t, <2>3 DEF Credentials
  <2>6. (\A a \in issued : a.boot = boot => a.pid <= producerIdCounter)'
    BY <1>t, <2>1, <2>2, <2>3 DEF Credentials
  <2>7. ASSUME NEW u \in txns', NEW a \in issued', a.boot = boot, a.pid = producerId'[u]
        PROVE  Paced(fencings'[u], producerEpoch'[u], a.fencing, a.epoch)
    <3>1. CASE u = t
      <4>1. a.fencing = 0 /\ a.epoch = 0 /\ fencings'[u] = 0 /\ producerEpoch'[u] = 0
        BY <1>t, <1>n, <2>2, <2>3, <2>7, <3>1
      <4> QED
        BY <4>1, PacedSame, ZeroEpoch
    <3>2. CASE u # t
      <4>1. /\ u \in txns /\ producerId'[u] = producerId[u] /\ fencings'[u] = fencings[u]
            /\ producerEpoch'[u] = producerEpoch[u] /\ producerId[u] <= producerIdCounter
        BY <1>t, <2>3, <2>7, <3>2 DEF Credentials
      <4>2. a \in issued
        BY <1>t, <2>2, <2>7, <4>1
      <4> QED
        BY <2>7, <4>1, <4>2 DEF Credentials
    <3> QED
      BY <3>1, <3>2
  <2> QED
    BY <2>1, <2>2, <2>4, <2>5, <2>6, <2>7 DEF Credentials, Paced
<1>4. ASSUME NEW t \in TxIds, InitExisting(t) PROVE Credentials'
  <2>1. /\ Answer(t, producerId[t], NextEpoch(t), fencings[t] + 1) /\ UNCHANGED boot /\ t \in txns
        /\ UNCHANGED <<txns, producerId, producerIdCounter>>
        /\ producerEpoch' = [producerEpoch EXCEPT ![t] = NextEpoch(t)]
        /\ fencings' = [fencings EXCEPT ![t] = fencings[t] + 1]
    BY <1>4 DEF InitExisting
  <2>2. ASSUME NEW a \in issued, a.boot = boot, a.pid = producerId[t]
        PROVE  /\ Paced(fencings[t] + 1, NextEpoch(t), a.fencing, a.epoch)
               /\ fencings[t] + 1 - a.fencing < 2 * EpochLimit => a.epoch # NextEpoch(t)
    <3>1. Paced(fencings[t], producerEpoch[t], a.fencing, a.epoch)
      BY <2>1, <2>2 DEF Credentials
    <3> QED
      BY <1>t, <3>1, PacedNext DEF NextEpoch
  <2>3. NextEpoch(t) \in Epochs /\ fencings[t] + 1 \in Nat /\ producerId[t] \in Nat
    BY <1>t, NextEpochTyped
  <2>4. \A a \in issued : a.boot = boot /\ a.pid = producerId[t] /\ a.epoch = NextEpoch(t)
                            => fencings[t] + 1 - a.fencing >= 2 * EpochLimit
    BY <1>t, <2>2, <2>3, ConstantsAssumption
  <2>5. /\ CredentialsRecurLate'
        /\ \A a \in issued' : a.boot <= boot
        /\ \A a \in issued' : \/ a \in issued
                                \/ /\ a.boot = boot /\ a.pid = producerId[t]
                                   /\ a.epoch = NextEpoch(t) /\ a.fencing = fencings[t] + 1
    <3>1. PICK pid \in Nat, epoch \in Epochs, fencing \in Nat :
              pid = producerId[t] /\ epoch = NextEpoch(t) /\ fencing = fencings[t] + 1
      BY <2>3
    <3>2. Answer(t, pid, epoch, fencing) /\ UNCHANGED boot
      BY <2>1, <3>1
    <3>3. \A a \in issued : a.boot = boot /\ a.pid = pid /\ a.epoch = epoch
                              => fencing - a.fencing >= 2 * EpochLimit
      BY <1>t, <2>4, <3>1, ConstantsAssumption
    <3>4. /\ CredentialsRecurLate'
          /\ \A a \in issued' : a.boot <= boot
          /\ \A a \in issued' :
                \/ a \in issued
                \/ a.boot = boot /\ a.pid = pid /\ a.epoch = epoch /\ a.fencing = fencing
      BY <3>2, <3>3, AnswerFresh
    <3> QED
      BY <3>1, <3>4
  <2>6. ASSUME NEW u \in txns, NEW a \in issued', a.boot = boot, a.pid = producerId[u]
        PROVE  Paced(fencings'[u], producerEpoch'[u], a.fencing, a.epoch)
    <3>1. CASE u = t
      <4>1. fencings'[u] = fencings[t] + 1 /\ producerEpoch'[u] = NextEpoch(t)
        BY <1>t, <2>1, <3>1
      <4> QED
        BY <2>2, <2>3, <2>5, <2>6, <3>1, <4>1, PacedSame
    <3>2. CASE u # t
      <4>1. fencings'[u] = fencings[u] /\ producerEpoch'[u] = producerEpoch[u]
        BY <1>t, <2>1, <2>6, <3>2
      <4>2. a \in issued
        BY <2>1, <2>5, <2>6, <3>2 DEF Credentials
      <4> QED
        BY <2>6, <4>1, <4>2 DEF Credentials
    <3> QED
      BY <3>1, <3>2
  <2>7. (\A a \in issued : a.boot = boot => a.pid <= producerIdCounter)'
    BY <1>t, <2>1, <2>5 DEF Credentials
  <2> QED
    BY <2>1, <2>5, <2>6, <2>7 DEF Credentials, Paced
<1>5. CASE UNCHANGED <<producerIdCounter, txns, producerId, producerEpoch, fencings, issued, boot>>
  BY <1>5 DEF Credentials, CredentialsRecurLate, Paced
<1>6. ASSUME NEW a \in issued, NEW p \in Partitions, AddPartitionsToTxn(a, p) PROVE Credentials'
  BY <1>5, <1>6 DEF AddPartitionsToTxn
<1>7. ASSUME NEW c \in Connections, NEW a \in issued, NEW o \in Outcomes, EndTxn(c, a, o)
      PROVE  Credentials'
  BY <1>5, <1>7 DEF EndTxn, history
<1>8. ASSUME NEW c \in Connections, NEW m \in ending[c], WriteMarker(c, m) \/ MarkerLost(c, m)
      PROVE  Credentials'
  BY <1>5, <1>8 DEF WriteMarker, MarkerLost, coord, history
<1>9. CASE UNCHANGED vars
  BY <1>5, <1>9 DEF vars, coord, history
<1> QED
  BY <1>1, <1>2, <1>3, <1>4, <1>6, <1>7, <1>8, <1>9 DEF Next

\* Between two restarts a producer id and epoch are answered again only after a
\* whole round of epochs, for every width of the epoch and across the
\* wrap-around of ProducerEpoch++ (InitProducerId).
THEOREM CredentialsRecur == Spec => []CredentialsRecurLate
<1>1. Spec => []Typed
  BY InitTyped, NextTyped, PTL DEF Spec
<1>2. Spec => []Credentials
  BY <1>1, InitCredentials, NextCredentials, PTL DEF Spec
<1>3. Credentials => CredentialsRecurLate
  BY DEF Credentials
<1> QED
  BY <1>2, <1>3, PTL
-------------------------------------------------------------------------------
\* The markers in the logs and those a handler is still about to write.
AllMarkers == markers \cup UNION {ending[c] : c \in Connections}

\* The outcome of a transaction is decided once: no marker belongs to a
\* transaction after the current one of its id, none to the current one while
\* that is open, and every marker, like every partition of an open transaction,
\* was registered.
Decided ==
    /\ \A m, n \in AllMarkers : m.txn = n.txn => m.outcome = n.outcome
    /\ \A m \in AllMarkers :
        /\ m.txn.no <= txnNo[m.txn.tx]
        /\ state[m.txn.tx] = "Ongoing" => m.txn.no < txnNo[m.txn.tx]
        /\ [txn |-> m.txn, part |-> m.part] \in registered
    /\ \A t \in TxIds : \A p \in partitions[t] : [txn |-> Current(t), part |-> p] \in registered

LEMMA InitDecided == Init => Decided
  BY DEF Init, Decided, AllMarkers

\* What a marker says about itself.
LEMMA MarkerTyped ==
    ASSUME Typed, NEW m \in AllMarkers
    PROVE  m \in Marker /\ m.txn \in Txn /\ m.txn.tx \in TxIds /\ m.txn.no \in Nat
<1>1. m \in Marker
  BY DEF AllMarkers, Typed, TypeOK
<1> QED
  BY <1>1 DEF Marker, Txn

LEMMA NextDecided == Typed /\ Decided /\ [Next]_vars => Decided'
<1> SUFFICES ASSUME Typed, Decided, [Next]_vars PROVE Decided'
  OBVIOUS
<1>t. /\ txnNo \in [TxIds -> Nat] /\ state \in [TxIds -> States]
      /\ partitions \in [TxIds -> SUBSET Partitions] /\ producerEpoch \in [TxIds -> Epochs]
      /\ ending \in [Connections -> SUBSET Marker] /\ txns \subseteq TxIds
      /\ \A t \in TxIds : partitions[t] # {} => state[t] = "Ongoing"
      /\ \A a \in issued : a.tx # NoTxId => a.tx \in TxIds
  BY DEF Typed, TypeOK, Credential
<1>1. CASE InitIdempotent
  BY <1>1 DEF InitIdempotent, Decided, AllMarkers, Current
<1>2. CASE Restart
  <2>1. AllMarkers' \subseteq AllMarkers
    BY <1>2 DEF Restart, AllMarkers
  <2>2. \A t \in TxIds : state'[t] # "Ongoing" /\ partitions'[t] = {}
    BY <1>2 DEF Restart
  <2> QED
    BY <1>2, <2>1, <2>2, MarkerTyped DEF Restart, Decided
<1>3. ASSUME NEW t \in TxIds, InitNew(t) \/ InitExisting(t) PROVE Decided'
  <2>1. /\ AllMarkers' = AllMarkers /\ UNCHANGED <<txnNo, registered>>
        /\ state' = [state EXCEPT ![t] = "Empty"]
        /\ partitions' = [partitions EXCEPT ![t] = {}]
        /\ \A u \in TxIds : u # t => producerEpoch'[u] = producerEpoch[u]
    BY <1>3, <1>t DEF InitNew, InitExisting, AllMarkers, ForgetPartitions
  <2>2. \A u \in TxIds : \A p \in partitions'[u] : u # t /\ p \in partitions[u]
    BY <1>t, <2>1
  <2>3. \A u \in TxIds : u # t => Current(u)' = Current(u)
    BY <2>1 DEF Current
  <2>4. \A m \in AllMarkers : state'[m.txn.tx] = "Ongoing" => state[m.txn.tx] = "Ongoing"
    BY <1>t, <2>1, MarkerTyped
  <2> QED
    BY <2>1, <2>2, <2>3, <2>4 DEF Decided
<1>4. ASSUME NEW a \in issued, NEW p \in Partitions, a.tx # NoTxId, AddPartitionsToTxn(a, p)
      PROVE  Decided'
  <2> DEFINE t == a.tx
             new == [txn |-> [tx |-> t, no |-> TxnAfterAdd(t), epoch |-> a.epoch], part |-> p]
  <2>1. /\ t \in TxIds /\ producerEpoch[t] = a.epoch
        /\ AllMarkers' = AllMarkers /\ UNCHANGED producerEpoch
        /\ state' = [state EXCEPT ![t] = "Ongoing"]
        /\ partitions' = [partitions EXCEPT ![t] = partitions[t] \cup {p}]
        /\ txnNo' = [txnNo EXCEPT ![t] = TxnAfterAdd(t)]
        /\ registered' = registered \cup {new}
    BY <1>4, <1>t DEF AddPartitionsToTxn, Valid, AllMarkers
  <2>2. \A m \in AllMarkers : m.txn.tx = t => m.txn.no < TxnAfterAdd(t)
    <3> SUFFICES ASSUME NEW m \in AllMarkers, m.txn.tx = t PROVE m.txn.no < TxnAfterAdd(t)
      OBVIOUS
    <3>1. m.txn.no \in Nat /\ txnNo[t] \in Nat
      BY <1>t, <2>1, MarkerTyped
    <3>2. m.txn.no <= txnNo[t] /\ (state[t] = "Ongoing" => m.txn.no < txnNo[t])
      BY DEF Decided
    <3> QED
      BY <3>1, <3>2 DEF TxnAfterAdd
  <2>3. \A m \in AllMarkers : /\ m.txn.no <= txnNo'[m.txn.tx]
                              /\ state'[m.txn.tx] = "Ongoing" => m.txn.no < txnNo'[m.txn.tx]
                              /\ [txn |-> m.txn, part |-> m.part] \in registered'
    <3> SUFFICES ASSUME NEW m \in AllMarkers
                 PROVE  /\ m.txn.no <= txnNo'[m.txn.tx]
                        /\ state'[m.txn.tx] = "Ongoing" => m.txn.no < txnNo'[m.txn.tx]
                        /\ [txn |-> m.txn, part |-> m.part] \in registered'
      OBVIOUS
    <3>1. m.txn.tx \in TxIds /\ m.txn.no \in Nat /\ TxnAfterAdd(t) \in Nat
      BY <1>t, <2>1, MarkerTyped DEF TxnAfterAdd
    <3>2. [txn |-> m.txn, part |-> m.part] \in registered'
      BY <2>1 DEF Decided
    <3>3. CASE m.txn.tx = t
      BY <1>t, <2>1, <2>2, <3>1, <3>2, <3>3
    <3>4. CASE m.txn.tx # t
      BY <1>t, <2>1, <3>1, <3>2, <3>4 DEF Decided
    <3> QED
      BY <3>3, <3>4
  <2>4. \A u \in TxIds : \A q \in partitions'[u] : [txn |-> Current(u)', part |-> q] \in registered'
    <3> SUFFICES ASSUME NEW u \in TxIds, NEW q \in partitions'[u]
                 PROVE  [txn |-> Current(u)', part |-> q] \in registered'
      OBVIOUS
    <3>1. CASE u # t
      BY <1>t, <2>1, <3>1 DEF Current, Decided
    <3>2. CASE u = t
      <4>1. Current(u)' = [tx |-> t, no |-> TxnAfterAdd(t), epoch |-> a.epoch]
        BY <1>t, <2>1, <3>2 DEF Current
      <4>2. CASE q = p
        BY <2>1, <4>1, <4>2
      <4>3. CASE q # p
        <5>1. q \in partitions[t] /\ state[t] = "Ongoing"
          BY <1>t, <2>1, <3>2, <4>3
        <5>2. Current(t) = [tx |-> t, no |-> TxnAfterAdd(t), epoch |-> a.epoch]
          BY <2>1, <5>1 DEF Current, TxnAfterAdd
        <5> QED
          BY <2>1, <4>1, <5>1, <5>2 DEF Decided
      <4> QED
        BY <4>2, <4>3
    <3> QED
      BY <3>1, <3>2
  <2> QED
    BY <2>1, <2>3, <2>4 DEF Decided
<1>5. ASSUME NEW c \in Connections, NEW a \in issued, NEW o \in Outcomes, a.tx # NoTxId,
             EndTxn(c, a, o)
      PROVE  Decided'
  <2> DEFINE t == a.tx
             new == {[txn |-> Current(t), part |-> q, outcome |-> o] : q \in partitions[t]}
  <2>1. /\ t \in TxIds /\ UNCHANGED <<producerEpoch, txnNo, registered, markers>>
        /\ state'[t] # "Ongoing" /\ \A u \in TxIds : u # t => state'[u] = state[u]
        /\ partitions' = [partitions EXCEPT ![t] = {}]
        /\ ending' = [ending EXCEPT ![c] = new] /\ ending[c] = {}
    BY <1>5, <1>t DEF EndTxn, TakePartitions, history
  <2>2. AllMarkers' \subseteq AllMarkers \cup new
    BY <1>t, <2>1 DEF AllMarkers
  <2>3. \A m \in new : /\ m.txn = Current(t) /\ m.outcome = o /\ state[t] = "Ongoing"
                       /\ [txn |-> m.txn, part |-> m.part] \in registered
    <3> SUFFICES ASSUME NEW q \in partitions[t]
                 PROVE  state[t] = "Ongoing" /\ [txn |-> Current(t), part |-> q] \in registered
      OBVIOUS
    <3> QED
      BY <1>t, <2>1 DEF Decided
  <2>4. Current(t).tx = t /\ Current(t).no = txnNo[t] /\ txnNo[t] \in Nat
    BY <1>t, <2>1 DEF Current
  <2>5. \A m \in AllMarkers : state[t] = "Ongoing" => m.txn # Current(t)
    <3> SUFFICES ASSUME NEW m \in AllMarkers, state[t] = "Ongoing", m.txn = Current(t) PROVE FALSE
      OBVIOUS
    <3>1. m.txn.tx = t /\ m.txn.no = txnNo[t]
      BY <2>4
    <3>2. m.txn.no < txnNo[t]
      BY <3>1 DEF Decided
    <3> QED
      BY <2>4, <3>1, <3>2
  <2>6. (\A m, n \in AllMarkers : m.txn = n.txn => m.outcome = n.outcome)'
    BY <2>2, <2>3, <2>5 DEF Decided
  <2>7. \A m \in AllMarkers' : /\ m.txn.no <= txnNo[m.txn.tx]
                               /\ state'[m.txn.tx] = "Ongoing" => m.txn.no < txnNo[m.txn.tx]
                               /\ [txn |-> m.txn, part |-> m.part] \in registered
    <3>1. ASSUME NEW m \in new
          PROVE  /\ m.txn.no <= txnNo[m.txn.tx] /\ state'[m.txn.tx] # "Ongoing"
                 /\ [txn |-> m.txn, part |-> m.part] \in registered
      BY <2>1, <2>3, <2>4
    <3>2. ASSUME NEW m \in AllMarkers
          PROVE  state'[m.txn.tx] = "Ongoing" => state[m.txn.tx] = "Ongoing"
      BY <2>1, MarkerTyped
    <3> QED
      BY <2>2, <3>1, <3>2 DEF Decided
  <2>8. (\A u \in TxIds : \A q \in partitions[u] : [txn |-> Current(u), part |-> q] \in registered)'
    BY <1>t, <2>1 DEF Decided, Current
  <2> QED
    BY <2>1, <2>6, <2>7, <2>8 DEF Decided
<1>6. ASSUME NEW c \in Connections, NEW m \in ending[c], WriteMarker(c, m) \/ MarkerLost(c, m)
      PROVE  Decided'
  <2>1. AllMarkers' \subseteq AllMarkers
    BY <1>6, <1>t DEF WriteMarker, MarkerLost, AllMarkers
  <2>2. UNCHANGED <<txnNo, state, registered, partitions, producerEpoch>>
    BY <1>6 DEF WriteMarker, MarkerLost, coord, history
  <2> QED
    BY <2>1, <2>2 DEF Decided, Current
<1>7. CASE UNCHANGED vars
  BY <1>7 DEF vars, coord, history, Decided, AllMarkers, Current
<1> QED
  BY <1>1, <1>2, <1>3, <1>4, <1>5, <1>6, <1>7 DEF Next

LEMMA AlwaysDecided == Spec => []Decided
<1>1. Spec => []Typed
  BY InitTyped, NextTyped, PTL DEF Spec
<1> QED
  BY <1>1, InitDecided, NextDecided, PTL DEF Spec

\* A transaction is never committed on one partition and aborted on another.
THEOREM OneOutcome == Spec => []MarkersAgree
<1>1. Decided => MarkersAgree
  BY DEF Decided, MarkersAgree, AllMarkers
<1> QED
  BY <1>1, AlwaysDecided, PTL

\* A marker goes only to a partition its producer registered for that
\* transaction in that epoch.
THEOREM MarkersRegistered == Spec => []MarkerMatchesRegistration
<1>1. Decided => MarkerMatchesRegistration
  BY DEF Decided, MarkerMatchesRegistration, AllMarkers
<1> QED
  BY <1>1, AlwaysDecided, PTL
-------------------------------------------------------------------------------
(* The deduplication of retries *)

\* The steps of the coordinator are those of TransactionCoordinator; producers
\* that send records leave it alone.
LEMMA SeqStep == ASSUME [SeqNext]_seqVars PROVE [Next]_vars
  BY DEF SeqNext, CoordinatorStep, SendRecord, Retry, seqVars

\* Records come from producers that were answered, and the log holds records
\* that were sent to it.
SentKnown ==
    /\ IsFiniteSet(sent)
    /\ \A r \in sent : /\ r.from \in issued /\ r.part \in Partitions /\ r.seq \in Nat
                       /\ r = Record(r.from, r.part, r.seq)
    /\ DOMAIN log = Partitions
    /\ \A p \in Partitions : log[p] \in Seq(sent)

\* A producer numbers its records from 0.
Numbered ==
    \A a \in issued, p \in Partitions, n \in Nat :
        Record(a, p, n) \in sent <=> n < Cardinality(SentBy(a, p))

\* A sequence number is kept only for the id of a producer that was answered.
KeysKnown ==
    \A pid \in Nat, p \in Partitions :
        <<pid, p>> \in DOMAIN sequences => \E b \in issued : b.pid = pid

\* For the only owner of an id, exactly the numbers it has sent are duplicates.
DuplicatesKnown ==
    \A a \in issued, p \in Partitions, n \in Nat :
        SoleOwner(a) => (IsDuplicate(<<a.pid, p>>, n) <=> n < Cardinality(SentBy(a, p)))

Sequenced == SentKnown /\ Numbered /\ KeysKnown /\ DuplicatesKnown /\ AppendedExactlyOnce

LEMMA RecordFields ==
    \A a, p, n : /\ Record(a, p, n).from = a /\ Record(a, p, n).part = p
                 /\ Record(a, p, n).seq = n
  BY DEF Record

LEMMA SentByCounted ==
    ASSUME SentKnown, NEW a, NEW p
    PROVE  IsFiniteSet(SentBy(a, p)) /\ Cardinality(SentBy(a, p)) \in Nat
<1>1. SentBy(a, p) \in SUBSET sent
  BY DEF SentBy
<1> QED
  BY <1>1, FS_Subset, FS_CardinalityType DEF SentKnown

LEMMA InitSequenced == SeqInit => Sequenced
<1> SUFFICES ASSUME SeqInit PROVE Sequenced
  OBVIOUS
<1>1. issued = {} /\ sent = {} /\ DOMAIN sequences = {} /\ log = [p \in Partitions |-> <<>>]
  BY DEF SeqInit, Init, NoSequences
<1>2. IsFiniteSet({}) /\ <<>> \in Seq(sent)
  BY FS_EmptySet, EmptySeq
<1> QED
  BY <1>1, <1>2 DEF Sequenced, SentKnown, Numbered, KeysKnown, DuplicatesKnown, AppendedExactlyOnce

\* The coordinator answers at most one more producer, or it forgets everything
\* and no producer of this boot has been answered yet.
LEMMA CoordinatorIs ==
    ASSUME Typed, Credentials, CoordinatorStep
    PROVE  /\ issued \subseteq issued' /\ UNCHANGED <<sent, log>>
           /\ \/ boot' = boot /\ sequences' = sequences
              \/ boot' # boot /\ DOMAIN sequences' = {} /\ \A a \in issued' : a.boot # boot'
<1>1. Next /\ UNCHANGED <<sent, log>> /\ sequences' = IF boot' = boot THEN sequences ELSE NoSequences
  BY DEF CoordinatorStep
<1>2. CASE Restart
  <2>1. issued' = issued /\ boot' = boot + 1 /\ boot \in Nat
    BY <1>2 DEF Restart, Typed, TypeOK
  <2>2. \A a \in issued : a.boot <= boot /\ a.boot \in Nat
    BY DEF Credentials, Typed, TypeOK, Credential
  <2> QED
    BY <1>1, <2>1, <2>2 DEF NoSequences
<1>3. CASE ~Restart
  <2>1. boot' = boot /\ issued \subseteq issued'
    BY <1>1, <1>3 DEF Next, InitIdempotent, InitNew, InitExisting, AddPartitionsToTxn, EndTxn,
                      WriteMarker, MarkerLost, Answer, history
  <2> QED
    BY <1>1, <2>1
<1> QED
  BY <1>2, <1>3

LEMMA CoordinatorSequenced ==
    ASSUME Typed, Credentials, Typed', Sequenced, CoordinatorStep
    PROVE  Sequenced'
<1>1. /\ issued \subseteq issued' /\ sent' = sent /\ log' = log
      /\ \/ boot' = boot /\ sequences' = sequences
         \/ boot' # boot /\ DOMAIN sequences' = {} /\ \A a \in issued' : a.boot # boot'
  BY CoordinatorIs
<1>2. SentKnown'
  BY <1>1 DEF Sequenced, SentKnown
<1>3. \A a, p : SentBy(a, p)' = SentBy(a, p)
  BY <1>1 DEF SentBy
<1>4. \A a \in issued' \ issued : \A p : SentBy(a, p) = {}
  BY DEF Sequenced, SentKnown, SentBy
<1>5. Cardinality({}) = 0
  BY FS_EmptySet
<1>6. Numbered'
  <2> SUFFICES ASSUME NEW a \in issued', NEW p \in Partitions, NEW n \in Nat
               PROVE  Record(a, p, n) \in sent <=> n < Cardinality(SentBy(a, p))
    BY <1>1, <1>3 DEF Numbered
  <2>1. CASE a \in issued
    BY <2>1 DEF Sequenced, Numbered
  <2>2. CASE a \notin issued
    <3>1. Record(a, p, n) \notin sent
      BY <2>2, RecordFields DEF Sequenced, SentKnown
    <3> QED
      BY <1>4, <1>5, <2>2, <3>1
  <2> QED
    BY <2>1, <2>2
<1>7. KeysKnown'
  BY <1>1 DEF Sequenced, KeysKnown
<1>8. \A a \in issued' : SoleOwner(a)' => boot' = boot /\ sequences' = sequences
                                        /\ (a \in issued => SoleOwner(a))
  BY <1>1 DEF SoleOwner
<1>9. DuplicatesKnown'
  <2> SUFFICES ASSUME NEW a \in issued', NEW p \in Partitions, NEW n \in Nat, SoleOwner(a)'
               PROVE  IsDuplicate(<<a.pid, p>>, n) <=> n < Cardinality(SentBy(a, p))
    BY <1>3, <1>8 DEF DuplicatesKnown, IsDuplicate
  <2>1. CASE a \in issued
    BY <1>8, <2>1 DEF Sequenced, DuplicatesKnown
  <2>2. CASE a \notin issued
    <3>1. a.pid \in Nat
      BY DEF Typed, TypeOK, Credential
    <3>2. \A b \in issued : b.pid # a.pid
      BY <1>1, <2>2 DEF SoleOwner
    <3>3. <<a.pid, p>> \notin DOMAIN sequences
      BY <3>1, <3>2 DEF Sequenced, KeysKnown
    <3> QED
      BY <1>4, <1>5, <2>2, <3>3 DEF IsDuplicate
  <2> QED
    BY <2>1, <2>2
<1>10. AppendedExactlyOnce'
  <2> SUFFICES ASSUME NEW a \in issued', NEW p \in Partitions, SoleOwner(a)'
               PROVE  OnceInOrder(a, log[p], SentBy(a, p))
    BY <1>1, <1>3 DEF AppendedExactlyOnce
  <2>1. CASE a \in issued
    BY <1>8, <2>1 DEF Sequenced, AppendedExactlyOnce
  <2>2. CASE a \notin issued
    <3>1. \A i \in DOMAIN log[p] : log[p][i] \in sent
      BY ElementOfSeq, LenProperties DEF Sequenced, SentKnown
    <3>2. \A i \in DOMAIN log[p] : log[p][i].from # a
      BY <2>2, <3>1 DEF Sequenced, SentKnown
    <3> QED
      BY <1>4, <2>2, <3>2 DEF OnceInOrder
  <2> QED
    BY <2>1, <2>2
<1> QED
  BY <1>2, <1>6, <1>7, <1>9, <1>10 DEF Sequenced

\* What one more record does to the part of a log that is a producer's own.
LEMMA AppendOther ==
    ASSUME NEW S, NEW L \in Seq(S), NEW x \in S, NEW b, x.from # b, NEW R, OnceInOrder(b, L, R)
    PROVE  OnceInOrder(b, Append(L, x), R)
<1> DEFINE M == Append(L, x)
<1>1. /\ Len(L) \in Nat /\ DOMAIN L = 1..Len(L) /\ DOMAIN M = 1..(Len(L) + 1)
      /\ (\A i \in 1..Len(L) : M[i] = L[i]) /\ M[Len(L) + 1] = x
  BY LenProperties, AppendProperties
<1> HIDE DEF M
<1>2. {i \in DOMAIN M : M[i].from = b} = {i \in DOMAIN L : L[i].from = b}
  BY <1>1
<1> QED
  BY <1>1, <1>2 DEF OnceInOrder, M

LEMMA AppendOwn ==
    ASSUME NEW S, NEW L \in Seq(S), NEW x \in S, NEW b, x.from = b, NEW R, OnceInOrder(b, L, R),
           \A r \in R : r.seq < x.seq
    PROVE  OnceInOrder(b, Append(L, x), R \cup {x})
<1> DEFINE M == Append(L, x)
           mine == {i \in DOMAIN L : L[i].from = b}
           n == Len(L) + 1
<1>1. /\ Len(L) \in Nat /\ DOMAIN L = 1..Len(L) /\ DOMAIN M = 1..n
      /\ (\A i \in 1..Len(L) : M[i] = L[i]) /\ M[n] = x
  BY LenProperties, AppendProperties
<1> HIDE DEF M
<1>2. R = {L[i] : i \in mine} /\ \A i, j \in mine : i < j => L[i].seq < L[j].seq
  BY DEF OnceInOrder
<1>3. \A i \in mine : i \in Nat /\ i < n /\ M[i] = L[i] /\ L[i] \in R
  BY <1>1, <1>2
<1>4. {i \in DOMAIN M : M[i].from = b} = mine \cup {n}
  BY <1>1
<1> HIDE DEF mine
<1>5. R \cup {x} = {M[i] : i \in mine \cup {n}}
  BY <1>1, <1>2, <1>3
<1>6. ASSUME NEW i \in mine \cup {n}, NEW j \in mine \cup {n}, i < j PROVE M[i].seq < M[j].seq
  <2>1. i \in mine
    BY <1>1, <1>3, <1>6
  <2>2. CASE j \in mine
    BY <1>2, <1>3, <1>6, <2>1, <2>2
  <2>3. CASE j = n
    BY <1>1, <1>3, <2>1, <2>3
  <2> QED
    BY <2>2, <2>3
<1> QED
  BY <1>4, <1>5, <1>6 DEF OnceInOrder, M

\* CheckAndSetSequence for producer a leaves alone what concerns the only
\* owner of another id.
LEMMA CheckElsewhere ==
    ASSUME Typed, Sequenced, NEW a \in issued, NEW p \in Partitions, NEW seq \in Nat,
           CheckAndSetSequence(a, p, seq), sent \subseteq sent', Record(a, p, seq) \in sent'
    PROVE  /\ DOMAIN log' = Partitions /\ \A q \in Partitions : log'[q] \in Seq(sent')
           /\ \A pid \in Nat, q \in Partitions :
                <<pid, q>> \in DOMAIN sequences' => \E b \in issued : b.pid = pid
           /\ \A b \in issued, q \in Partitions : SoleOwner(b) /\ b # a =>
                /\ OnceInOrder(b, log'[q], SentBy(b, q))
                /\ \A n \in Nat : IsDuplicate(<<b.pid, q>>, n)' <=> IsDuplicate(<<b.pid, q>>, n)
           /\ \A q \in Partitions : q # p => log'[q] = log[q]
           /\ \A q \in Partitions, n \in Nat :
                q # p => (IsDuplicate(<<a.pid, q>>, n)' <=> IsDuplicate(<<a.pid, q>>, n))
<1> DEFINE key == <<a.pid, p>>
           x == Record(a, p, seq)
<1>1. DOMAIN log = Partitions /\ \A q \in Partitions : log[q] \in Seq(sent) /\ log[q] \in Seq(sent')
  BY SeqMonotonic DEF Sequenced, SentKnown
<1>2. \A b \in issued, q \in Partitions : SoleOwner(b) => OnceInOrder(b, log[q], SentBy(b, q))
  BY DEF Sequenced, AppendedExactlyOnce
<1>3. \A pid \in Nat, q \in Partitions :
        <<pid, q>> \in DOMAIN sequences => \E b \in issued : b.pid = pid
  BY DEF Sequenced, KeysKnown
<1>4. CASE IsDuplicate(key, seq)
  <2>1. UNCHANGED <<sequences, log>>
    BY <1>4 DEF CheckAndSetSequence
  <2> QED
    BY <1>1, <1>2, <1>3, <2>1 DEF IsDuplicate
<1>5. CASE ~IsDuplicate(key, seq)
  <2>1. /\ sequences' = [k \in DOMAIN sequences \cup {key} |-> IF k = key THEN seq ELSE sequences[k]]
        /\ log' = [log EXCEPT ![p] = Append(log[p], x)]
    BY <1>5 DEF CheckAndSetSequence
  <2>2. x.from = a
    BY RecordFields
  <2> HIDE DEF x
  <2>3. /\ DOMAIN log' = Partitions /\ log'[p] = Append(log[p], x)
        /\ \A q \in Partitions : q # p => log'[q] = log[q]
    BY <1>1, <2>1
  <2>4. x \in sent'
    BY DEF x
  <2>5. Append(log[p], x) \in Seq(sent')
    BY <1>1, <2>4, AppendProperties
  <2>6. \A q \in Partitions : log'[q] \in Seq(sent')
    BY <1>1, <2>3, <2>5
  <2>7. \A pid \in Nat, q \in Partitions :
            <<pid, q>> \in DOMAIN sequences' => \E b \in issued : b.pid = pid
    BY <1>3, <2>1
  <2>8. \A k : k # key => \A n : IsDuplicate(k, n)' <=> IsDuplicate(k, n)
    BY <2>1 DEF IsDuplicate
  <2>9. ASSUME NEW b \in issued, NEW q \in Partitions, SoleOwner(b), b # a
        PROVE  /\ OnceInOrder(b, log'[q], SentBy(b, q))
               /\ \A n \in Nat : IsDuplicate(<<b.pid, q>>, n)' <=> IsDuplicate(<<b.pid, q>>, n)
    <3>1. <<b.pid, q>> # key
      BY <2>9 DEF SoleOwner
    <3>2. OnceInOrder(b, log[q], SentBy(b, q))
      BY <1>2, <2>9
    <3>3. CASE q # p
      BY <2>3, <2>8, <3>1, <3>2, <3>3
    <3>4. CASE q = p
      <4>1. OnceInOrder(b, Append(log[p], x), SentBy(b, p))
        BY <1>1, <2>2, <2>4, <2>9, <3>2, <3>4, AppendOther
      <4> QED
        BY <2>3, <2>8, <3>1, <3>4, <4>1
    <3> QED
      BY <3>3, <3>4
  <2>10. \A q \in Partitions, n \in Nat :
            q # p => (IsDuplicate(<<a.pid, q>>, n)' <=> IsDuplicate(<<a.pid, q>>, n))
    BY <2>8
  <2> HIDE DEF key
  <2> QED
    BY <2>3, <2>6, <2>7, <2>9, <2>10
<1> QED
  BY <1>4, <1>5

LEMMA RetrySequenced ==
    ASSUME Typed, Sequenced, NEW r \in sent, Retry(r)
    PROVE  Sequenced'
<1>1. PICK a \in issued, p \in Partitions, seq \in Nat : r = Record(a, p, seq)
  BY DEF Sequenced, SentKnown
<1>2. r.from = a /\ r.part = p /\ r.seq = seq
  BY <1>1, RecordFields
<1>3. CheckAndSetSequence(a, p, seq) /\ UNCHANGED <<issued, boot, sent>>
  BY <1>2 DEF Retry, vars, history
<1>4. /\ DOMAIN log' = Partitions /\ \A q \in Partitions : log'[q] \in Seq(sent')
      /\ \A pid \in Nat, q \in Partitions :
            <<pid, q>> \in DOMAIN sequences' => \E b \in issued : b.pid = pid
      /\ \A b \in issued, q \in Partitions : SoleOwner(b) /\ b # a =>
            /\ OnceInOrder(b, log'[q], SentBy(b, q))
            /\ \A n \in Nat : IsDuplicate(<<b.pid, q>>, n)' <=> IsDuplicate(<<b.pid, q>>, n)
  BY <1>1, <1>3, CheckElsewhere
<1>5. SoleOwner(a) => UNCHANGED <<sequences, log>>
  <2> SUFFICES ASSUME SoleOwner(a) PROVE UNCHANGED <<sequences, log>>
    OBVIOUS
  <2>1. seq < Cardinality(SentBy(a, p))
    BY <1>1 DEF Sequenced, Numbered
  <2>2. IsDuplicate(<<a.pid, p>>, seq)
    BY <2>1 DEF Sequenced, DuplicatesKnown
  <2> QED
    BY <1>3, <2>2 DEF CheckAndSetSequence
<1>6. (\A b, q : SentBy(b, q)' = SentBy(b, q)) /\ (\A b : SoleOwner(b)' <=> SoleOwner(b))
  BY <1>3 DEF SentBy, SoleOwner
<1>7. SentKnown' /\ Numbered' /\ KeysKnown'
  BY <1>3, <1>4, <1>6 DEF Sequenced, SentKnown, Numbered, KeysKnown
<1>8. ASSUME NEW b \in issued, NEW q \in Partitions, SoleOwner(b)
      PROVE  /\ OnceInOrder(b, log'[q], SentBy(b, q))
             /\ \A n \in Nat : IsDuplicate(<<b.pid, q>>, n)' <=> IsDuplicate(<<b.pid, q>>, n)
  <2>1. CASE b = a
    BY <1>5, <1>8, <2>1 DEF Sequenced, AppendedExactlyOnce, IsDuplicate
  <2>2. CASE b # a
    BY <1>4, <1>8, <2>2
  <2> QED
    BY <2>1, <2>2
<1>9. DuplicatesKnown'
  BY <1>3, <1>6, <1>8 DEF Sequenced, DuplicatesKnown
<1>10. AppendedExactlyOnce'
  BY <1>3, <1>6, <1>8 DEF AppendedExactlyOnce
<1> QED
  BY <1>7, <1>9, <1>10 DEF Sequenced

LEMMA SendSequenced ==
    ASSUME Typed, Sequenced, NEW a \in issued, NEW p \in Partitions, SendRecord(a, p)
    PROVE  Sequenced'
<1>1. PICK seq \in Nat : seq = Cardinality(SentBy(a, p))
  BY SentByCounted DEF Sequenced
<1> DEFINE x == Record(a, p, seq)
<1>2. CheckAndSetSequence(a, p, seq) /\ sent' = sent \cup {x} /\ UNCHANGED <<issued, boot>>
  BY <1>1 DEF SendRecord, vars, history
<1>3. x.from = a /\ x.part = p /\ x.seq = seq
  BY RecordFields
<1>4. x \notin sent
  BY <1>1 DEF Sequenced, Numbered
<1>5. /\ DOMAIN log' = Partitions /\ \A q \in Partitions : log'[q] \in Seq(sent')
      /\ \A pid \in Nat, q \in Partitions :
            <<pid, q>> \in DOMAIN sequences' => \E b \in issued : b.pid = pid
      /\ \A b \in issued, q \in Partitions : SoleOwner(b) /\ b # a =>
            /\ OnceInOrder(b, log'[q], SentBy(b, q))
            /\ \A n \in Nat : IsDuplicate(<<b.pid, q>>, n)' <=> IsDuplicate(<<b.pid, q>>, n)
      /\ \A q \in Partitions : q # p => log'[q] = log[q]
      /\ \A q \in Partitions, n \in Nat :
            q # p => (IsDuplicate(<<a.pid, q>>, n)' <=> IsDuplicate(<<a.pid, q>>, n))
  BY <1>2, CheckElsewhere
<1>6. \A b : SoleOwner(b)' <=> SoleOwner(b)
  BY <1>2 DEF SoleOwner
<1>7. \A b, q : SentBy(b, q)' = IF b = a /\ q = p THEN SentBy(a, p) \cup {x} ELSE SentBy(b, q)
  BY <1>2, <1>3 DEF SentBy
<1>8. x = Record(a, p, seq)
  OBVIOUS
<1> HIDE DEF x
<1>9. Cardinality(SentBy(a, p) \cup {x}) = seq + 1
  <2>1. x \notin SentBy(a, p)
    BY <1>4 DEF SentBy
  <2>2. IsFiniteSet(SentBy(a, p))
    BY SentByCounted DEF Sequenced
  <2> QED
    BY <1>1, <2>1, <2>2, FS_AddElement
<1>10. SentKnown'
  <2>1. IsFiniteSet(sent')
    BY <1>2, FS_AddElement DEF Sequenced, SentKnown
  <2>2. \A r \in sent' : /\ r.from \in issued /\ r.part \in Partitions /\ r.seq \in Nat
                         /\ r = Record(r.from, r.part, r.seq)
    BY <1>2, <1>3, <1>8 DEF Sequenced, SentKnown
  <2> QED
    BY <1>2, <1>5, <2>1, <2>2 DEF SentKnown
<1>11. Numbered'
  <2> SUFFICES ASSUME NEW b \in issued, NEW q \in Partitions, NEW n \in Nat
               PROVE  Record(b, q, n) \in sent' <=> n < Cardinality(SentBy(b, q)')
    BY <1>2 DEF Numbered
  <2>1. Record(b, q, n) \in sent <=> n < Cardinality(SentBy(b, q))
    BY DEF Sequenced, Numbered
  <2>2. Record(b, q, n) = x <=> b = a /\ q = p /\ n = seq
    BY <1>3, <1>8, RecordFields
  <2>3. CASE b = a /\ q = p
    BY <1>1, <1>2, <1>7, <1>9, <2>1, <2>2, <2>3
  <2>4. CASE ~(b = a /\ q = p)
    BY <1>2, <1>7, <2>1, <2>2, <2>4
  <2> QED
    BY <2>3, <2>4
<1>12. KeysKnown'
  BY <1>2, <1>5 DEF KeysKnown
<1>13. ASSUME SoleOwner(a)
       PROVE  /\ OnceInOrder(a, log'[p], SentBy(a, p) \cup {x})
              /\ \A n \in Nat : IsDuplicate(<<a.pid, p>>, n)' <=> n < seq + 1
  <2>1. ~IsDuplicate(<<a.pid, p>>, seq)
    BY <1>1, <1>13 DEF Sequenced, DuplicatesKnown
  <2>2. /\ sequences' = [k \in DOMAIN sequences \cup {<<a.pid, p>>} |->
                            IF k = <<a.pid, p>> THEN seq ELSE sequences[k]]
        /\ log' = [log EXCEPT ![p] = Append(log[p], x)]
    BY <1>2, <1>8, <2>1 DEF CheckAndSetSequence
  <2>3. <<a.pid, p>> \in DOMAIN sequences' /\ sequences'[<<a.pid, p>>] = seq
    BY <2>2
  <2>4. \A n \in Nat : IsDuplicate(<<a.pid, p>>, n)' <=> n < seq + 1
    BY <2>3 DEF IsDuplicate
  <2>5. log'[p] = Append(log[p], x) /\ log[p] \in Seq(sent')
    BY <1>2, <2>2, SeqMonotonic DEF Sequenced, SentKnown
  <2>6. OnceInOrder(a, log[p], SentBy(a, p))
    BY <1>13 DEF Sequenced, AppendedExactlyOnce
  <2>7. \A r \in SentBy(a, p) : r.seq < x.seq
    <3> SUFFICES ASSUME NEW r \in SentBy(a, p) PROVE r.seq < x.seq
      OBVIOUS
    <3>1. r \in sent /\ r.seq \in Nat /\ r = Record(a, p, r.seq)
      BY DEF SentBy, Sequenced, SentKnown
    <3> QED
      BY <1>1, <1>3, <3>1 DEF Sequenced, Numbered
  <2>8. OnceInOrder(a, Append(log[p], x), SentBy(a, p) \cup {x})
    BY <1>2, <1>3, <2>5, <2>6, <2>7, AppendOwn, ZenonT(30)
  <2> QED
    BY <2>4, <2>5, <2>8
<1>14. ASSUME NEW b \in issued, NEW q \in Partitions, SoleOwner(b)
       PROVE  /\ OnceInOrder(b, log'[q], SentBy(b, q)')
              /\ \A n \in Nat : IsDuplicate(<<b.pid, q>>, n)' <=> n < Cardinality(SentBy(b, q)')
  <2>1. /\ OnceInOrder(b, log[q], SentBy(b, q))
        /\ \A n \in Nat : IsDuplicate(<<b.pid, q>>, n) <=> n < Cardinality(SentBy(b, q))
    BY <1>14 DEF Sequenced, AppendedExactlyOnce, DuplicatesKnown
  <2>2. CASE b = a /\ q = p
    BY <1>7, <1>9, <1>13, <1>14, <2>2
  <2>3. CASE b = a /\ q # p
    BY <1>5, <1>7, <2>1, <2>3
  <2>4. CASE b # a
    BY <1>5, <1>7, <1>14, <2>1, <2>4
  <2> QED
    BY <2>2, <2>3, <2>4
<1>15. DuplicatesKnown' /\ AppendedExactlyOnce'
  BY <1>2, <1>6, <1>14 DEF DuplicatesKnown, AppendedExactlyOnce
<1> QED
  BY <1>10, <1>11, <1>12, <1>15 DEF Sequenced

\* Whatever producers are answered, however often each record is sent again and
\* whenever the broker restarts: what the only owner of a producer id sends to a
\* partition is in its log exactly once, in the order it was sent
\* (CheckAndSetSequence, InitProducerId).
THEOREM RetriesAppendedOnce == SeqSpec => []AppendedExactlyOnce
<1> DEFINE Inv == Typed /\ Credentials /\ Sequenced
<1>1. SeqInit => Inv
  BY InitTyped, InitCredentials, InitSequenced DEF SeqInit
<1>2. Inv /\ [SeqNext]_seqVars => Inv'
  <2> SUFFICES ASSUME Typed, Credentials, Sequenced, [SeqNext]_seqVars PROVE Inv'
    OBVIOUS
  <2>1. Typed' /\ Credentials'
    BY SeqStep, NextTyped, NextCredentials
  <2>2. CASE CoordinatorStep
    BY <2>1, <2>2, CoordinatorSequenced
  <2>3. CASE \E a \in issued, p \in Partitions : SendRecord(a, p)
    BY <2>1, <2>3, SendSequenced
  <2>4. CASE \E r \in sent : Retry(r)
    BY <2>1, <2>4, RetrySequenced
  <2>5. CASE UNCHANGED seqVars
    <3>1. UNCHANGED <<issued, boot, sequences, sent, log>>
      BY <2>5 DEF seqVars, vars, history
    <3> QED
      BY <2>1, <3>1 DEF Sequenced, SentKnown, Numbered, KeysKnown, DuplicatesKnown,
                        AppendedExactlyOnce, SentBy, SoleOwner, IsDuplicate
  <2> QED
    BY <2>2, <2>3, <2>4, <2>5 DEF SeqNext
<1>3. Inv => AppendedExactlyOnce
  BY DEF Sequenced
<1> QED
  BY <1>1, <1>2, <1>3, PTL DEF SeqSpec

===============================================================================
