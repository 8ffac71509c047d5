----------------------------- MODULE KRaftProofs -----------------------------
(* Proofs about KRaft: for any number of nodes and terms, elections driven  *)
(* as the module says have at most one leader per term.                     *)
EXTENDS KRaft, FiniteSetTheorems, TLAPS

\* The variables of a vote.
LEMMA VoteFields ==
    ASSUME NEW t, NEW n, NEW c
    PROVE  /\ VoteOf(t, n, c).term = t
           /\ VoteOf(t, n, c).voter = n
           /\ VoteOf(t, n, c).candidate = c
BY DEF VoteOf

\* Two majorities have a node in common.
LEMMA MajoritiesMeet ==
    ASSUME NEW Q \in SUBSET Nodes, NEW R \in SUBSET Nodes, Majority(Q), Majority(R)
    PROVE  \E n \in Q : n \in R
<1>1. IsFiniteSet(Nodes) /\ IsFiniteSet(Q) /\ IsFiniteSet(R)
  BY KRaftAssumption, FS_Subset
<1>2. Cardinality(Q) \in Nat /\ Cardinality(R) \in Nat /\ Cardinality(Nodes) \in Nat
  BY <1>1, FS_CardinalityType
<1>3. Cardinality(Q) + Cardinality(R) > Cardinality(Nodes)
  BY <1>2 DEF Majority
<1>4. Q \cap R # {}
  BY <1>1, <1>3, FS_MajoritiesIntersect
<1> QED BY <1>4

\* A request for a vote keeps the invariant, when the candidate asks for its own
\* vote or has it already.
LEMMA RequestVoteKeeps ==
    ASSUME Inv, NEW n \in Nodes, NEW c \in Nodes, NEW t \in Nat,
           RequestVote(n, c, t),
           n = c \/ VoteOf(t, c, c) \in votes
    PROVE  Inv'
<1> USE DEF Inv
<1>0. t >= currentTerm[n] /\ currentTerm \in [Nodes -> Nat] /\ currentTerm[n] \in Nat
  BY DEF RequestVote, TypeOK
<1>1. VoteOf(t, n, c) \in Vote
  BY DEF VoteOf, Vote
<1>2. TypeOK'
  <2>1. currentTerm' \in [Nodes -> Nat]
    BY <1>0 DEF RequestVote, StepDown
  <2>2. votedFor' \in [Nodes -> Nodes \cup {Nobody}]
    BY DEF RequestVote, TypeOK
  <2>3. role' \in [Nodes -> {"Follower", "Leader"}] /\ leaderId' \in [Nodes -> Nodes \cup {Nobody}]
    BY DEF RequestVote, StepDown, TypeOK
  <2>4. votes' \subseteq Vote /\ led' \subseteq (Nat \X Nodes)
    BY <1>1 DEF RequestVote, TypeOK
  <2> QED BY <2>1, <2>2, <2>3, <2>4 DEF TypeOK
<1>3. votes \subseteq votes' /\ led' = led
  BY DEF RequestVote
<1>4. currentTerm'[n] = t /\ \A m \in Nodes : m # n => currentTerm'[m] = currentTerm[m]
  BY <1>0 DEF RequestVote, StepDown
<1>5. \A m \in Nodes : m # n => votedFor'[m] = votedFor[m]
  BY DEF RequestVote, TypeOK
<1>6. LedByMajority'
  BY <1>3 DEF LedByMajority
<1>7. LeaderIdTrue'
  <2> SUFFICES ASSUME NEW m \in Nodes, leaderId'[m] # Nobody
               PROVE  <<currentTerm'[m], leaderId'[m]>> \in led'
    BY DEF LeaderIdTrue
  <2>1. leaderId'[m] = leaderId[m] /\ currentTerm'[m] = currentTerm[m]
    BY <1>0, <1>4 DEF RequestVote, StepDown, TypeOK
  <2> QED BY <2>1, <1>3 DEF LeaderIdTrue
<1>8. CASE ~MayVote(n, c, t)
  <2>1. votes' = votes /\ votedFor' = votedFor /\ currentTerm[n] = t
    BY <1>8, <1>0 DEF RequestVote, MayVote
  <2>2. currentTerm' = currentTerm
    BY <2>1, <1>0 DEF RequestVote, StepDown
  <2> QED BY <1>2, <1>6, <1>7, <2>1, <2>2 DEF OneVotePerTerm, VotesRemembered, SelfVoted
<1>9. CASE MayVote(n, c, t)
  <2>1. votes' = votes \cup {VoteOf(t, n, c)} /\ votedFor'[n] = c
    BY <1>9 DEF RequestVote, TypeOK
  <2>2. \A v \in votes : v \in Vote /\ v.voter \in Nodes /\ v.term \in Nat
    BY DEF TypeOK, Vote
  <2>3. \A v \in votes : v.voter = n /\ v.term = t => v.candidate = c
    <3> SUFFICES ASSUME NEW v \in votes, v.voter = n, v.term = t PROVE v.candidate = c
      OBVIOUS
    <3>1. currentTerm[n] = t /\ votedFor[n] = v.candidate
      BY <1>0, <2>2 DEF VotesRemembered
    <3>2. v.candidate \in Nodes
      BY <2>2 DEF Vote
    <3> QED BY <3>1, <3>2, <1>9, <1>0, KRaftAssumption DEF MayVote
  <2>4. OneVotePerTerm'
    BY <2>1, <2>3, VoteFields DEF OneVotePerTerm
  <2>5. VotesRemembered'
    <3> SUFFICES ASSUME NEW v \in votes'
                 PROVE  /\ v.term <= currentTerm'[v.voter]
                        /\ v.term = currentTerm'[v.voter] => votedFor'[v.voter] = v.candidate
      BY DEF VotesRemembered
    <3>1. CASE v = VoteOf(t, n, c)
      BY <3>1, <1>4, <2>1, VoteFields
    <3>2. CASE v \in votes /\ v.voter # n
      BY <3>2, <1>4, <1>5, <2>2 DEF VotesRemembered
    <3>3. CASE v \in votes /\ v.voter = n
      BY <3>3, <1>0, <1>4, <2>1, <2>2, <2>3 DEF VotesRemembered
    <3> QED BY <3>1, <3>2, <3>3, <2>1
  <2>6. SelfVoted'
    BY <2>1, VoteFields DEF SelfVoted
  <2> QED BY <1>2, <1>6, <1>7, <2>4, <2>5, <2>6
<1> QED BY <1>8, <1>9

\* A candidate that wins keeps the invariant.
LEMMA WinKeeps ==
    ASSUME Inv, NEW c \in Nodes, Win(c)
    PROVE  Inv'
<1> USE DEF Inv
<1>1. currentTerm[c] \in Nat /\ Majority(Votes(c, currentTerm[c]))
  BY DEF Win, TypeOK
<1>2. currentTerm' = currentTerm /\ votes' = votes /\ led' = led \cup {<<currentTerm[c], c>>}
  BY DEF Win, BecomeLeader, TypeOK
<1>3. leaderId' = [leaderId EXCEPT ![c] = c] /\ votedFor' = [votedFor EXCEPT ![c] = c]
  BY DEF Win, BecomeLeader
<1>4. TypeOK'
  <2>1. role' \in [Nodes -> {"Follower", "Leader"}]
    BY DEF Win, BecomeLeader, TypeOK
  <2>2. led' \subseteq (Nat \X Nodes)
    BY <1>1, <1>2 DEF TypeOK
  <2>3. votedFor' \in [Nodes -> Nodes \cup {Nobody}] /\ leaderId' \in [Nodes -> Nodes \cup {Nobody}]
    BY <1>3 DEF TypeOK
  <2>4. currentTerm' \in [Nodes -> Nat] /\ votes' \subseteq Vote
    BY <1>2 DEF TypeOK
  <2> QED BY <2>1, <2>2, <2>3, <2>4 DEF TypeOK
<1>5. Votes(c, currentTerm[c]) # {}
  <2>1. Cardinality({}) = 0
    BY FS_EmptySet
  <2>2. Cardinality(Nodes) \in Nat
    BY KRaftAssumption, FS_CardinalityType
  <2> QED BY <1>1, <2>1, <2>2 DEF Majority
<1>6. VoteOf(currentTerm[c], c, c) \in votes
  <2>1. PICK n \in Nodes : VoteOf(currentTerm[c], n, c) \in votes
    BY <1>5 DEF Votes
  <2> QED BY <2>1, VoteFields DEF SelfVoted
<1>7. votedFor[c] = c
  BY <1>6, VoteFields DEF VotesRemembered
<1>8. votedFor' = votedFor
  BY <1>3, <1>7 DEF TypeOK
<1>9. OneVotePerTerm' /\ VotesRemembered' /\ SelfVoted'
  BY <1>2, <1>8 DEF OneVotePerTerm, VotesRemembered, SelfVoted
<1>10. LedByMajority'
  <2> SUFFICES ASSUME NEW l \in led'
               PROVE  \E Q \in SUBSET Nodes :
                         /\ Majority(Q)
                         /\ \A n \in Q : VoteOf(l[1], n, l[2]) \in votes
    BY <1>2 DEF LedByMajority
  <2>1. CASE l \in led
    BY <2>1 DEF LedByMajority
  <2>2. CASE l = <<currentTerm[c], c>>
    <3>1. Votes(c, currentTerm[c]) \in SUBSET Nodes
      BY DEF Votes
    <3>2. \A n \in Votes(c, currentTerm[c]) : VoteOf(l[1], n, l[2]) \in votes
      BY <2>2 DEF Votes
    <3> QED BY <3>1, <3>2, <1>1
  <2> QED BY <2>1, <2>2, <1>2
<1>11. LeaderIdTrue'
  BY <1>2, <1>3 DEF LeaderIdTrue, TypeOK
<1> QED BY <1>4, <1>9, <1>10, <1>11

\* A node that hears of a leader keeps the invariant.
LEMMA HearOfLeaderKeeps ==
    ASSUME Inv, NEW n \in Nodes, HearOfLeader(n)
    PROVE  Inv'
<1> USE DEF Inv
<1>1. PICK l \in led : l[1] > currentTerm[n] /\ BecomeFollower(n, l[1], l[2])
  BY DEF HearOfLeader
<1>2. l \in Nat \X Nodes /\ l[1] \in Nat /\ l[2] \in Nodes /\ l = <<l[1], l[2]>>
  BY DEF TypeOK
<1>3. currentTerm \in [Nodes -> Nat] /\ currentTerm[n] \in Nat
  BY DEF TypeOK
<1>4. votes' = votes /\ led' = led
  BY <1>1 DEF BecomeFollower
<1>5. currentTerm' = [currentTerm EXCEPT ![n] = l[1]] /\ leaderId' = [leaderId EXCEPT ![n] = l[2]]
      /\ votedFor' = [votedFor EXCEPT ![n] = Nobody]
  BY <1>1 DEF BecomeFollower
<1>6. TypeOK'
  <2>1. role' \in [Nodes -> {"Follower", "Leader"}]
    BY <1>1 DEF BecomeFollower, TypeOK
  <2> QED BY <1>2, <1>4, <1>5, <2>1 DEF TypeOK
<1>7. OneVotePerTerm' /\ SelfVoted' /\ LedByMajority'
  BY <1>4 DEF OneVotePerTerm, SelfVoted, LedByMajority
<1>8. VotesRemembered'
  <2> SUFFICES ASSUME NEW v \in votes
               PROVE  /\ v.term <= currentTerm'[v.voter]
                      /\ v.term = currentTerm'[v.voter] => votedFor'[v.voter] = v.candidate
    BY <1>4 DEF VotesRemembered
  <2>1. v.term \in Nat /\ v.voter \in Nodes
    BY DEF TypeOK, Vote
  <2>2. CASE v.voter = n
    BY <2>1, <2>2, <1>1, <1>2, <1>3, <1>5 DEF VotesRemembered
  <2>3. CASE v.voter # n
    <3>1. currentTerm'[v.voter] = currentTerm[v.voter] /\ votedFor'[v.voter] = votedFor[v.voter]
      BY <2>1, <2>3, <1>3, <1>5 DEF TypeOK
    <3> QED BY <3>1 DEF VotesRemembered
  <2> QED BY <2>2, <2>3
<1>9. LeaderIdTrue'
  <2> SUFFICES ASSUME NEW m \in Nodes, leaderId'[m] # Nobody
               PROVE  <<currentTerm'[m], leaderId'[m]>> \in led
    BY <1>4 DEF LeaderIdTrue
  <2>1. CASE m = n
    BY <2>1, <1>2, <1>3, <1>5 DEF TypeOK
  <2>2. CASE m # n
    BY <2>2, <1>3, <1>5 DEF TypeOK, LeaderIdTrue
  <2> QED BY <2>1, <2>2
<1> QED BY <1>6, <1>7, <1>8, <1>9

\* Init establishes the invariant.
LEMMA InitInv == ASSUME Init PROVE Inv
<1>1. TypeOK
  BY DEF Init, TypeOK
<1> QED BY <1>1, KRaftAssumption
        DEF Init, Inv, OneVotePerTerm, VotesRemembered, SelfVoted, LedByMajority, LeaderIdTrue

\* Every step preserves the invariant.
LEMMA NextInv == ASSUME Inv, [Next]_vars PROVE Inv'
<1>1. CASE Next
  <2>1. PICK n \in Nodes : \/ StartElection(n) \/ Win(n) \/ HearOfLeader(n)
                           \/ \E c \in Nodes : AskForVote(c, n)
    BY <1>1 DEF Next
  <2>2. CASE StartElection(n)
    <3>1. currentTerm[n] + 1 \in Nat /\ RequestVote(n, n, currentTerm[n] + 1)
      BY <2>2 DEF StartElection, Inv, TypeOK
    <3> QED BY <3>1, RequestVoteKeeps
  <2>3. CASE Win(n)
    BY <2>3, WinKeeps
  <2>4. CASE HearOfLeader(n)
    BY <2>4, HearOfLeaderKeeps
  <2>5. CASE \E c \in Nodes : AskForVote(c, n)
    <3>1. PICK c \in Nodes, v \in votes :
            v.voter = c /\ v.candidate = c /\ RequestVote(n, c, v.term)
      BY <2>5 DEF AskForVote
    <3>2. v.term \in Nat /\ v = VoteOf(v.term, c, c)
      BY <3>1 DEF Inv, TypeOK, Vote, VoteOf
    <3> QED BY <3>1, <3>2, RequestVoteKeeps
  <2> QED BY <2>1, <2>2, <2>3, <2>4, <2>5
<1>2. CASE UNCHANGED vars
  BY <1>2 DEF vars, Inv, TypeOK, OneVotePerTerm, VotesRemembered, SelfVoted, LedByMajority,
              LeaderIdTrue, Vote
<1> QED BY <1>1, <1>2

\* The leaders of a term have the votes of majorities; a node in both has voted
\* once.
LEMMA InvOneLeader == ASSUME Inv PROVE OneLeaderPerTerm
<1> SUFFICES ASSUME NEW l \in led, NEW k \in led, l[1] = k[1] PROVE l[2] = k[2]
  BY DEF OneLeaderPerTerm
<1>1. PICK Q \in SUBSET Nodes : Majority(Q) /\ \A n \in Q : VoteOf(l[1], n, l[2]) \in votes
  BY DEF Inv, LedByMajority
<1>2. PICK R \in SUBSET Nodes : Majority(R) /\ \A n \in R : VoteOf(k[1], n, k[2]) \in votes
  BY DEF Inv, LedByMajority
<1>3. PICK n \in Q : n \in R
  BY <1>1, <1>2, MajoritiesMeet
<1>4. VoteOf(l[1], n, l[2]) \in votes /\ VoteOf(k[1], n, k[2]) \in votes
  BY <1>1, <1>2, <1>3
<1> QED BY <1>4, VoteFields DEF Inv, OneVotePerTerm

\* The inductive invariant of the elections: votes are remembered, cast once per
\* term, and a leader has a majority of them.
THEOREM ElectionInv == Spec => []Inv
<1>1. Init => Inv
  BY InitInv
<1>2. Inv /\ [Next]_vars => Inv'
  BY NextInv
<1> QED BY <1>1, <1>2, PTL DEF Spec

\* At most one leader per term, for any number of nodes and any order of
\* requests (RequestVote, BecomeLeader, BecomeFollower).
THEOREM OneLeader == Spec => []OneLeaderPerTerm
<1>1. Inv => OneLeaderPerTerm
  BY InvOneLeader
<1> QED BY <1>1, ElectionInv, PTL

\* The leader a node names is the leader of its term (GetState).
THEOREM LeaderIdIsTrue == Spec => []LeaderIdTrue
<1>1. Inv => LeaderIdTrue
  BY DEF Inv
<1> QED BY <1>1, ElectionInv, PTL
==============================================================================
