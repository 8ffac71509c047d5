------------------------ MODULE TransactionCoordinator ------------------------
(***************************************************************************)
(* Producer ids, epochs and transactions (internal/coordinator/            *)
(* transaction.go) with the handlers that drive them (InitProducerId,      *)
(* AddPartitionsToTxn and EndTxn in internal/server/handler.go).           *)
(*                                                                         *)
(* The coordinator's operations run under tc.mu, one action each.  EndTxn  *)
(* decides the outcome under that lock; the handler then writes the        *)
(* control markers one partition at a time without it, so the handlers of  *)
(* several connections, the producers' next requests and a restart of the  *)
(* broker interleave with them.  The coordinator keeps everything in       *)
(* memory.  The list of partitions is a set: a partition registered twice  *)
(* gets the same marker twice.                                             *)
(***************************************************************************)
EXTENDS Integers, FiniteSets

CONSTANTS TxIds, NoTxId,   \* transactional ids, and the absent one
          Partitions,      \* topic partitions
          Connections,     \* connections whose handler may be in EndTxn
          EpochLimit,      \* an epoch is an int16: 2^15, the first number above the last epoch
          MaxInits,        \* bound: InitProducerId requests
          MaxTxns,         \* bound: transactions per transactional id
          Faults           \* which faults may happen: restart, append

ASSUME ConstantsAssumption ==
    /\ NoTxId \notin TxIds
    /\ EpochLimit \in Nat \ {0} /\ MaxInits \in Nat /\ MaxTxns \in Nat
    /\ Faults \subseteq {"restart", "append"}

VARIABLES
    producerIdCounter,  \* last producer id handed out
    txns,               \* keys of tc.txns
    producerId,         \* txId -> ProducerId
    producerEpoch,      \* txId -> ProducerEpoch
    state,              \* txId -> State
    partitions,         \* txId -> partitions of the ongoing transaction
    ending,             \* connection -> the EndTxn its handler is writing markers for
    markers,            \* control markers in the partition logs
    issued,             \* history: answers to InitProducerId
    registered,         \* history: partitions registered, with transaction and epoch
    txnNo,              \* history: txId -> number of transactions begun
    fencings,           \* history: txId -> how often its producer was fenced
    boot                \* history: number of restarts

coord   == <<producerIdCounter, txns, producerId, producerEpoch, state, partitions>>
history == <<issued, registered, txnNo, fencings, boot>>
vars    == <<coord, ending, markers, history>>

States   == {"Empty", "Ongoing", "CompleteCommit", "CompleteAbort"}
Outcomes == {"commit", "abort"}
Epochs   == -EpochLimit..(EpochLimit - 1)
Txn      == [tx : TxIds, no : Nat, epoch : Epochs]
Marker   == [txn : Txn, part : Partitions, outcome : Outcomes]
Current(t) == [tx |-> t, no |-> txnNo[t], epoch |-> producerEpoch[t]]

Init ==
    /\ producerIdCounter = 1000 /\ txns = {}
    /\ producerId = [t \in TxIds |-> 0] /\ producerEpoch = [t \in TxIds |-> 0]
    /\ state = [t \in TxIds |-> "Empty"] /\ partitions = [t \in TxIds |-> {}]
    /\ ending = [c \in Connections |-> {}]
    /\ markers = {} /\ issued = {} /\ registered = {}
    /\ txnNo = [t \in TxIds |-> 0] /\ fencings = [t \in TxIds |-> 0] /\ boot = 0
-------------------------------------------------------------------------------
(* InitProducerId *)

\* The answer a producer gets, numbered so that two equal answers stay apart.
Answer(t, pid, epoch, fencing) ==
    /\ Cardinality(issued) < MaxInits
    /\ issued' = issued \cup {[no |-> Cardinality(issued), boot |-> boot, tx |-> t,
                               pid |-> pid, epoch |-> epoch, fencing |-> fencing]}

\* Without a transactional id: a fresh producer id.
InitIdempotent ==
    /\ producerIdCounter' = producerIdCounter + 1
    /\ Answer(NoTxId, producerIdCounter + 1, 0, 0)
    /\ UNCHANGED <<txns, producerId, producerEpoch, state, partitions, ending, markers,
                   registered, txnNo, fencings, boot>>

\* A transactional id seen for the first time.
InitNew(t) ==
    /\ t \notin txns
    /\ producerIdCounter' = producerIdCounter + 1
    /\ txns' = txns \cup {t}
    /\ producerId' = [producerId EXCEPT ![t] = producerIdCounter + 1]
    /\ producerEpoch' = [producerEpoch EXCEPT ![t] = 0]
    /\ state' = [state EXCEPT ![t] = "Empty"]
    /\ partitions' = [partitions EXCEPT ![t] = {}]
    /\ fencings' = [fencings EXCEPT ![t] = 0]
    /\ Answer(t, producerIdCounter + 1, 0, 0)
    /\ UNCHANGED <<ending, markers, registered, txnNo, boot>>

\* A known one: the epoch fences the previous producer, and the partitions of
\* the transaction it may have left open are forgotten.
ForgetPartitionsMutant(t) == UNCHANGED partitions
ForgetPartitions(t) == partitions' = [partitions EXCEPT ![t] = {}]
NextEpochMutant(t) == producerEpoch[t]
\* ProducerEpoch++ wraps around.
NextEpoch(t) == IF producerEpoch[t] = EpochLimit - 1 THEN -EpochLimit ELSE producerEpoch[t] + 1
InitExisting(t) ==
    /\ t \in txns
    /\ fencings' = [fencings EXCEPT ![t] = @ + 1]
    /\ producerEpoch' = [producerEpoch EXCEPT ![t] = NextEpoch(t)]
    /\ state' = [state EXCEPT ![t] = "Empty"]
    /\ ForgetPartitions(t)
    /\ Answer(t, producerId[t], NextEpoch(t), fencings[t] + 1)
    /\ UNCHANGED <<producerIdCounter, txns, producerId, ending, markers, registered, txnNo, boot>>
-------------------------------------------------------------------------------
(* AddPartitionsToTxn and EndTxn, from any producer that was ever answered *)

\* The check both make: known id, current producer id, current epoch.
Valid(a, t) == /\ a.tx = t /\ t \in txns
               /\ producerId[t] = a.pid /\ producerEpoch[t] = a.epoch

\* The transaction an added partition belongs to: the open one, or a new one.
TxnAfterAdd(t) == IF state[t] = "Ongoing" THEN txnNo[t] ELSE txnNo[t] + 1

AddPartitionsToTxn(a, p) ==
    LET t == a.tx IN
    /\ Valid(a, t) /\ TxnAfterAdd(t) <= MaxTxns
    /\ state' = [state EXCEPT ![t] = "Ongoing"]
    /\ partitions' = [partitions EXCEPT ![t] = @ \cup {p}]
    /\ txnNo' = [txnNo EXCEPT ![t] = TxnAfterAdd(t)]
    /\ registered' = registered \cup
            {[txn |-> [tx |-> t, no |-> TxnAfterAdd(t), epoch |-> a.epoch], part |-> p]}
    /\ UNCHANGED <<producerIdCounter, txns, producerId, producerEpoch, ending, markers, issued,
                   fencings, boot>>

\* tc.EndTxn takes the partitions, then the handler starts on their markers.
TakePartitionsMutant(t) == UNCHANGED partitions
TakePartitions(t) == partitions' = [partitions EXCEPT ![t] = {}]
EndTxn(c, a, outcome) ==
    LET t == a.tx IN
    /\ ending[c] = {} /\ Valid(a, t)
    /\ state' = [state EXCEPT ![t] = IF outcome = "commit" THEN "CompleteCommit" ELSE "CompleteAbort"]
    /\ TakePartitions(t)
    /\ ending' = [ending EXCEPT ![c] =
                    {[txn |-> Current(t), part |-> p, outcome |-> outcome] : p \in partitions[t]}]
    /\ UNCHANGED <<producerIdCounter, txns, producerId, producerEpoch, markers, history>>

\* handleEndTxn appends the control record to the next partition.
WriteMarker(c, m) ==
    /\ m \in ending[c]
    /\ ending' = [ending EXCEPT ![c] = @ \ {m}]
    /\ markers' = markers \cup {m}
    /\ UNCHANGED <<coord, history>>

\* The partition cannot be opened or the append fails: the error is dropped.
MarkerLost(c, m) ==
    /\ "append" \in Faults
    /\ m \in ending[c]
    /\ ending' = [ending EXCEPT ![c] = @ \ {m}]
    /\ UNCHANGED <<coord, markers, history>>

\* The broker stops and starts again: NewTransactionCoordinator knows nothing;
\* the logs and what producers were told remain.
Restart ==
    /\ "restart" \in Faults /\ boot = 0
    /\ producerIdCounter' = 1000 /\ txns' = {}
    /\ producerId' = [t \in TxIds |-> 0] /\ producerEpoch' = [t \in TxIds |-> 0]
    /\ state' = [t \in TxIds |-> "Empty"] /\ partitions' = [t \in TxIds |-> {}]
    /\ ending' = [c \in Connections |-> {}]
    /\ boot' = boot + 1
    /\ fencings' = [t \in TxIds |-> 0]
    /\ UNCHANGED <<markers, issued, registered, txnNo>>

Next ==
    \/ InitIdempotent \/ Restart
    \/ \E t \in TxIds : InitNew(t) \/ InitExisting(t)
    \/ \E a \in issued, p \in Partitions : a.tx # NoTxId /\ AddPartitionsToTxn(a, p)
    \/ \E c \in Connections, a \in issued, o \in Outcomes : a.tx # NoTxId /\ EndTxn(c, a, o)
    \/ \E c \in Connections : \E m \in ending[c] : WriteMarker(c, m) \/ MarkerLost(c, m)

Spec == Init /\ [][Next]_vars
-------------------------------------------------------------------------------
Credential == [no : Nat, boot : Nat, tx : TxIds \cup {NoTxId}, pid : Nat, epoch : Epochs, fencing : Nat]

\* Every variable has its type.
TypeOK ==
    /\ producerIdCounter \in Nat /\ txns \subseteq TxIds
    /\ producerId \in [TxIds -> Nat] /\ producerEpoch \in [TxIds -> Epochs]
    /\ state \in [TxIds -> States] /\ partitions \in [TxIds -> SUBSET Partitions]
    /\ ending \in [Connections -> SUBSET Marker] /\ markers \subseteq Marker
    /\ issued \subseteq Credential
    /\ registered \subseteq [txn : Txn, part : Partitions]
    /\ txnNo \in [TxIds -> Nat] /\ fencings \in [TxIds -> Nat] /\ boot \in Nat
    /\ \A t \in TxIds : partitions[t] # {} => state[t] = "Ongoing"

SameCredential(a, b) == a.pid = b.pid /\ a.epoch = b.epoch

\* Between two restarts two producers, transactional or not, are given the same
\* producer id and epoch only if the id was fenced 2^16 times in between, a
\* whole round of the epochs: until then a fenced producer is told apart from
\* all that replaced it (InitProducerId).
Apart(a, b) ==
    a.fencing - b.fencing >= 2 * EpochLimit \/ b.fencing - a.fencing >= 2 * EpochLimit
CredentialsRecurLate ==
    \A a, b \in issued :
        SameCredential(a, b) /\ a.boot = b.boot /\ a # b => Apart(a, b)

\* Every marker of a transaction, on whatever partition and however late its
\* handler writes it, says the same: a consumer never sees a transaction
\* committed on one partition and aborted on another (EndTxn, handleEndTxn).
MarkersAgree == \A m, n \in markers : m.txn = n.txn => m.outcome = n.outcome

\* A marker goes only to a partition that the same producer, in the same epoch,
\* registered for that transaction (AddPartitionsToTxn, EndTxn).
MarkerMatchesRegistration == \A m \in markers : [txn |-> m.txn, part |-> m.part] \in registered
===============================================================================
