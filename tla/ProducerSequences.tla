-------------------------- MODULE ProducerSequences --------------------------
(***************************************************************************)
(* The deduplication of retries on top of TransactionCoordinator           *)
(* (CheckAndSetSequence).  No request handler calls it yet.  The caller is *)
(* external, modelled from the method's signature and its test: a producer *)
(* numbers the records it sends to a partition from 0, sends them in       *)
(* order, and sends any of them again when it has lost the answer; a       *)
(* record that is no duplicate is appended.                                *)
(***************************************************************************)
EXTENDS TransactionCoordinator, Sequences

CONSTANT MaxSent \* bound: records sent, without retries

ASSUME MaxSentAssumption == MaxSent \in Nat

VARIABLES sequences, \* tc.sequences: producer id and partition -> last sequence number
          sent,      \* history: the records producers have sent
          log        \* history: partition -> the records appended

seqVars == <<vars, sequences, sent, log>>

Record(a, p, seq) == [from |-> a, part |-> p, seq |-> seq]
NoSequences == [k \in {} |-> 0]

SeqInit ==
    /\ Init
    /\ sequences = NoSequences /\ sent = {}
    /\ log = [p \in Partitions |-> <<>>]

IsDuplicateMutant(key, seq) == key \in DOMAIN sequences /\ seq < sequences[key]
\* A number that is not above the last one was processed before.
IsDuplicate(key, seq) == key \in DOMAIN sequences /\ seq <= sequences[key]

\* The key has the producer id and not the epoch.
CheckAndSetSequence(a, p, seq) ==
    LET key == <<a.pid, p>> IN
    IF IsDuplicate(key, seq)
      THEN UNCHANGED <<sequences, log>>
      ELSE /\ sequences' = [k \in DOMAIN sequences \cup {key} |->
                                IF k = key THEN seq ELSE sequences[k]]
           /\ log' = [log EXCEPT ![p] = Append(@, Record(a, p, seq))]

SentBy(a, p) == {r \in sent : r.from = a /\ r.part = p}

SendRecord(a, p) ==
    /\ Cardinality(sent) < MaxSent
    /\ LET seq == Cardinality(SentBy(a, p)) IN
        /\ CheckAndSetSequence(a, p, seq)
        /\ sent' = sent \cup {Record(a, p, seq)}
    /\ UNCHANGED vars

Retry(r) ==
    /\ CheckAndSetSequence(r.from, r.part, r.seq)
    /\ UNCHANGED <<vars, sent>>

\* The operations of the coordinator; a restart forgets the sequences.
CoordinatorStep ==
    /\ Next
    /\ sequences' = IF boot' = boot THEN sequences ELSE NoSequences
    /\ UNCHANGED <<sent, log>>

SeqNext ==
    \/ CoordinatorStep
    \/ \E a \in issued, p \in Partitions : SendRecord(a, p)
    \/ \E r \in sent : Retry(r)

SeqSpec == SeqInit /\ [][SeqNext]_seqVars
-------------------------------------------------------------------------------
\* The producer got its id since the last restart, and nobody else ever did,
\* neither a successor with a higher epoch nor a producer of an earlier boot.
SoleOwner(a) == a.boot = boot /\ \A b \in issued : b.pid = a.pid => b = a

\* The log L holds the records R of producer a, each once and in their order.
OnceInOrder(a, L, R) ==
    LET mine == {i \in DOMAIN L : L[i].from = a} IN
    /\ R = {L[i] : i \in mine}
    /\ \A i, j \in mine : i < j => L[i].seq < L[j].seq

\* What such a producer sends to a partition is appended exactly once and in
\* its order: no retry, however late, is appended again, and no record is
\* mistaken for a retry of somebody else's (CheckAndSetSequence, InitProducerId).
AppendedExactlyOnce ==
    \A a \in issued, p \in Partitions : SoleOwner(a) => OnceInOrder(a, log[p], SentBy(a, p))
===============================================================================
