-------------------------------- MODULE KRaft --------------------------------
(***************************************************************************)
(* Leader election with the KRaftNodes of internal/consensus.  The package *)
(* holds the state of one node and no caller; nothing in the broker calls  *)
(* it.  The methods are actions, each under kn.mu.  The caller that runs   *)
(* an election is external, the weakest one with which the elections are   *)
(* safe:                                                                   *)
(*   - a candidate asks its own node first, and the others, with the same  *)
(*     term, as often and as late as it likes;                             *)
(*   - it calls BecomeLeader with the votes of a majority of clusterSize,  *)
(*     while its node is still in the term it was elected for;             *)
(*   - it calls BecomeFollower when it hears of a leader of a higher term. *)
(* The node checks none of this: BecomeLeader and BecomeFollower take any  *)
(* term, and forget the vote even when the term stays the same.            *)
(***************************************************************************)
EXTENDS Integers, FiniteSets

CONSTANTS Nodes,   \* the node ids
          Nobody,  \* -1
          MaxTerm  \* bound: terms a candidate starts

ASSUME KRaftAssumption ==
    /\ IsFiniteSet(Nodes) /\ Nobody \notin Nodes /\ MaxTerm \in Nat

VARIABLES
    currentTerm, \* node -> currentTerm
    votedFor,    \* node -> votedFor
    role,        \* node -> role
    leaderId,    \* node -> leaderId
    votes,       \* history: the votes granted
    led          \* history: terms and nodes for which BecomeLeader was called

vars == <<currentTerm, votedFor, role, leaderId, votes, led>>

Vote == [term : Nat, voter : Nodes, candidate : Nodes]
VoteOf(t, n, c) == [term |-> t, voter |-> n, candidate |-> c]

\* More than half of clusterSize.
Majority(Q) == Q \subseteq Nodes /\ 2 * Cardinality(Q) > Cardinality(Nodes)

\* NewKRaftNode.
Init ==
    /\ currentTerm = [n \in Nodes |-> 0]
    /\ votedFor = [n \in Nodes |-> Nobody]
    /\ role = [n \in Nodes |-> "Follower"]
    /\ leaderId = [n \in Nodes |-> Nobody]
    /\ votes = {} /\ led = {}

\* A request of an older term is rejected; one of a newer term moves the node
\* to it, as a follower that has not voted.
StepDown(n, t) ==
    /\ currentTerm' = [currentTerm EXCEPT ![n] = t]
    /\ IF t > currentTerm[n]
         THEN /\ role' = [role EXCEPT ![n] = "Follower"]
              /\ leaderId' = [leaderId EXCEPT ![n] = Nobody]
         ELSE UNCHANGED <<role, leaderId>>

MayVoteMutant(n, c, t) == t >= currentTerm[n]
\* The vote is free, or went to this candidate already.
MayVote(n, c, t) == t > currentTerm[n] \/ votedFor[n] \in {Nobody, c}

RequestVote(n, c, t) ==
    /\ t >= currentTerm[n]
    /\ StepDown(n, t)
    /\ IF MayVote(n, c, t)
         THEN /\ votedFor' = [votedFor EXCEPT ![n] = c]
              /\ votes' = votes \cup {VoteOf(t, n, c)}
         ELSE UNCHANGED <<votedFor, votes>>
    /\ UNCHANGED led

BecomeLeader(n, t) ==
    /\ role' = [role EXCEPT ![n] = "Leader"]
    /\ currentTerm' = [currentTerm EXCEPT ![n] = t]
    /\ leaderId' = [leaderId EXCEPT ![n] = n]
    /\ votedFor' = [votedFor EXCEPT ![n] = n]
    /\ led' = led \cup {<<t, n>>}
    /\ UNCHANGED votes

BecomeFollowerMutant(n, t, l) ==
    /\ role' = [role EXCEPT ![n] = "Follower"]
    /\ leaderId' = [leaderId EXCEPT ![n] = l]
    /\ votedFor' = [votedFor EXCEPT ![n] = Nobody]
    /\ UNCHANGED <<currentTerm, votes, led>>
BecomeFollower(n, t, l) ==
    /\ role' = [role EXCEPT ![n] = "Follower"]
    /\ currentTerm' = [currentTerm EXCEPT ![n] = t]
    /\ leaderId' = [leaderId EXCEPT ![n] = l]
    /\ votedFor' = [votedFor EXCEPT ![n] = Nobody]
    /\ UNCHANGED <<votes, led>>
-------------------------------------------------------------------------------
(* The caller *)

\* A candidate starts an election with the vote of its own node.
StartElection(c) ==
    /\ currentTerm[c] < MaxTerm
    /\ RequestVote(c, c, currentTerm[c] + 1)

\* It asks another node, for a term in which it has its own vote.
AskForVote(c, n) ==
    \E v \in votes : /\ v.voter = c /\ v.candidate = c
                     /\ RequestVote(n, c, v.term)

Votes(c, t) == {n \in Nodes : VoteOf(t, n, c) \in votes}

\* It has the votes of a majority, and its node is still in their term.
Win(c) ==
    /\ Majority(Votes(c, currentTerm[c]))
    /\ role[c] # "Leader"
    /\ BecomeLeader(c, currentTerm[c])

\* A node hears of a leader of a higher term.
HearOfLeader(n) ==
    \E l \in led : l[1] > currentTerm[n] /\ BecomeFollower(n, l[1], l[2])

Next ==
    \E n \in Nodes :
        \/ StartElection(n) \/ Win(n) \/ HearOfLeader(n)
        \/ \E c \in Nodes : AskForVote(c, n)

Spec == Init /\ [][Next]_vars
-------------------------------------------------------------------------------
(* Properties *)

\* Every variable has its type.
TypeOK ==
    /\ currentTerm \in [Nodes -> Nat]
    /\ votedFor \in [Nodes -> Nodes \cup {Nobody}]
    /\ role \in [Nodes -> {"Follower", "Leader"}]
    /\ leaderId \in [Nodes -> Nodes \cup {Nobody}]
    /\ votes \subseteq Vote
    /\ led \subseteq (Nat \X Nodes)

\* A node never votes for two candidates in one term, however requests repeat,
\* overtake each other and mix with changes of role (RequestVote, BecomeFollower).
OneVotePerTerm ==
    \A v, w \in votes : v.term = w.term /\ v.voter = w.voter => v.candidate = w.candidate

\* No two nodes are ever leaders of the same term (RequestVote, BecomeLeader,
\* BecomeFollower).
OneLeaderPerTerm == \A l, k \in led : l[1] = k[1] => l[2] = k[2]

\* The leader a node names is the leader of its term (GetState).
LeaderIdTrue == \A n \in Nodes : leaderId[n] # Nobody => <<currentTerm[n], leaderId[n]>> \in led

\* What a node votes for in its term is what it remembers, and it has not voted
\* in a later one; a node that has forgotten a vote has not cast it in this term.
VotesRemembered ==
    \A v \in votes : /\ v.term <= currentTerm[v.voter]
                     /\ v.term = currentTerm[v.voter] => votedFor[v.voter] = v.candidate

\* A candidate that has votes has the vote of its own node.
SelfVoted == \A v \in votes : VoteOf(v.term, v.candidate, v.candidate) \in votes

\* A leader was elected by a majority.
LedByMajority ==
    \A l \in led : \E Q \in SUBSET Nodes :
        /\ Majority(Q)
        /\ \A n \in Q : VoteOf(l[1], n, l[2]) \in votes

Inv ==
    /\ TypeOK /\ OneVotePerTerm /\ VotesRemembered /\ SelfVoted
    /\ LedByMajority /\ LeaderIdTrue
=============================================================================
