------------------------------ MODULE GroupProofs ------------------------------
(***************************************************************************)
(* Proofs about GroupCoordinator and GroupHandlers, for any sets of        *)
(* groups, member ids and connections, any cap on groups, any session      *)
(* timeout and any bounds.                                                 *)
(*                                                                         *)
(* TypeOK is inductive by itself.  LeaderIsMember is inductive together    *)
(* with it: a join looks at LeaderID alone, so it needs to know that a     *)
(* group without members has no leader.                                    *)
(*                                                                         *)
(* Every step of the handlers is a step of the coordinator or leaves it    *)
(* alone, so what is proved of the coordinator holds with any number of    *)
(* handlers.  The consistency of a JoinGroup answer rests on generations:  *)
(* a membership and its leader never change within a generation, except    *)
(* that the last member goes, so that as long as the generation stands a   *)
(* handler can have read one view only.                                    *)
(***************************************************************************)
EXTENDS GroupHandlers, FiniteSetTheorems, TLAPS

\* Every subset of the member ids has a cardinality, zero only when it is empty.
LEMMA MembersCounted ==
    ASSUME NEW S \in SUBSET MemberIDs
    PROVE  Cardinality(S) \in Nat /\ (S # {} => Cardinality(S) >= 1)
<1>1. IsFiniteSet(S)
  BY ConstantsAssumption, FS_Subset
<1>2. Cardinality(S) \in Nat /\ (Cardinality(S) = 0 <=> S = {})
  BY <1>1, FS_CardinalityType, FS_EmptySet
<1> QED
  BY <1>2

\* An eviction starts a natural number of generations, and at least one when
\* somebody is left in the group.
LEMMA GenerationsCounted ==
    ASSUME TypeOK, NEW g \in Groups, Expired(g) # {}
    PROVE  /\ GenerationsPassed(g) \in Nat
           /\ members[g] \ Expired(g) # {} => GenerationsPassed(g) >= 1
<1>1. Expired(g) \in SUBSET MemberIDs /\ Expired(g) \subseteq members[g]
  BY DEF TypeOK, Expired
<1>2. Cardinality(Expired(g)) \in Nat /\ Cardinality(Expired(g)) >= 1
  BY <1>1, MembersCounted
<1> QED
  BY <1>1, <1>2 DEF GenerationsPassed

LEMMA InitTypeOK == Init => TypeOK
  BY DEF Init, TypeOK, States

\* No operation of the coordinator takes a variable out of its type.
LEMMA NextTypeOK == TypeOK /\ [Next]_vars => TypeOK'
<1> SUFFICES ASSUME TypeOK, [Next]_vars PROVE TypeOK'
  OBVIOUS
<1> USE DEF TypeOK, States
<1>1. CASE Tick
  BY <1>1 DEF Tick
<1>2. ASSUME NEW g \in Groups, NEW m \in MemberIDs, AddMember(g, m) PROVE TypeOK'
  <2>1. LeaderAfterJoin(g, m) \in MemberIDs \cup {NoMember}
    BY DEF LeaderAfterJoin
  <2>2. (members \in [Groups -> SUBSET MemberIDs] /\ groups \subseteq Groups)'
    BY <1>2 DEF AddMember, Registered
  <2>3. (lastHeartbeat \in [Groups -> [MemberIDs -> Nat]]
            /\ now \in Nat)'
    BY <1>2 DEF AddMember
  <2>4. (leaderID \in [Groups -> MemberIDs \cup {NoMember}] /\ state \in [Groups -> States]
            /\ generationID \in [Groups -> Nat])'
    BY <1>2, <2>1 DEF AddMember
  <2>5. (\A h \in Groups : members[h] # {} => h \in groups)'
    BY <1>2 DEF AddMember, Registered
  <2> QED
    BY <2>2, <2>3, <2>4, <2>5
<1>3. ASSUME NEW g \in Groups, NEW m \in MemberIDs, RemoveMember(g, m) PROVE TypeOK'
  <2>1. (members \in [Groups -> SUBSET MemberIDs] /\ groups \subseteq Groups /\ now \in Nat
            /\ lastHeartbeat \in [Groups -> [MemberIDs -> Nat]])'
    BY <1>3 DEF RemoveMember
  <2>2. (leaderID \in [Groups -> MemberIDs \cup {NoMember}] /\ state \in [Groups -> States]
            /\ generationID \in [Groups -> Nat])'
    <3>1. CASE members[g] \ {m} = {}
      BY <1>3, <3>1 DEF RemoveMember
    <3>2. CASE members[g] \ {m} # {}
      <4>1. PICK l \in MemberIDs : leaderID' \in {leaderID, [leaderID EXCEPT ![g] = l]}
        BY <1>3, <3>2 DEF RemoveMember
      <4>2. (leaderID \in [Groups -> MemberIDs \cup {NoMember}])'
        BY <4>1
      <4>3. (state \in [Groups -> States] /\ generationID \in [Groups -> Nat])'
        BY <1>3, <3>2 DEF RemoveMember
      <4> QED
        BY <4>2, <4>3
    <3> QED
      BY <3>1, <3>2
  <2>3. (\A h \in Groups : members[h] # {} => h \in groups)'
    BY <1>3 DEF RemoveMember
  <2> QED
    BY <2>1, <2>2, <2>3
<1>4. ASSUME NEW g \in Groups, NEW m \in MemberIDs, Heartbeat(g, m) PROVE TypeOK'
  BY <1>4 DEF Heartbeat
<1>5. ASSUME NEW g \in Groups, CheckHeartbeatTimeouts(g) PROVE TypeOK'
  <2>1. GenerationsPassed(g) \in Nat
    BY <1>5, GenerationsCounted DEF CheckHeartbeatTimeouts
  <2>2. (leaderID \in [Groups -> MemberIDs \cup {NoMember}])'
    <3>1. members[g] \ Expired(g) \subseteq MemberIDs
      OBVIOUS
    <3> QED
      BY <1>5, <3>1 DEF CheckHeartbeatTimeouts, ElectAfterEviction
  <2>3. (state \in [Groups -> States] /\ generationID \in [Groups -> Nat]
            /\ members \in [Groups -> SUBSET MemberIDs] /\ groups \subseteq Groups /\ now \in Nat)'
    BY <1>5, <2>1 DEF CheckHeartbeatTimeouts
  <2>4. (lastHeartbeat \in [Groups -> [MemberIDs -> Nat]])'
    BY <1>5 DEF CheckHeartbeatTimeouts
  <2>5. (\A h \in Groups : members[h] # {} => h \in groups)'
    BY <1>5 DEF CheckHeartbeatTimeouts
  <2> QED
    BY <2>2, <2>3, <2>4, <2>5
<1>6. CASE UNCHANGED vars
  BY <1>6 DEF vars
<1> QED
  BY <1>1, <1>2, <1>3, <1>4, <1>5, <1>6 DEF Next, JoinGroup, LeaveGroup, HeartbeatRequest

\* Every variable of the group coordinator keeps its type in every behaviour.
THEOREM TypeCorrect == Spec => []TypeOK
  BY InitTypeOK, NextTypeOK, PTL DEF Spec
-------------------------------------------------------------------------------
LEMMA InitLeader == Init => LeaderIsMember
  BY DEF Init, LeaderIsMember

\* Joins, leaves and evictions keep the leader among the members.
LEMMA NextLeader == TypeOK /\ LeaderIsMember /\ [Next]_vars => LeaderIsMember'
<1> SUFFICES ASSUME TypeOK, LeaderIsMember, [Next]_vars PROVE LeaderIsMember'
  OBVIOUS
<1> USE ConstantsAssumption DEF TypeOK, LeaderIsMember
<1>1. CASE Tick
  BY <1>1 DEF Tick
<1>2. ASSUME NEW g \in Groups, NEW m \in MemberIDs, AddMember(g, m) PROVE LeaderIsMember'
  <2>1. members'[g] = members[g] \cup {m} /\ leaderID'[g] = LeaderAfterJoin(g, m)
    BY <1>2 DEF AddMember
  <2>2. LeaderAfterJoin(g, m) \in members[g] \cup {m}
    BY DEF LeaderAfterJoin
  <2>3. \A h \in Groups : h # g => members'[h] = members[h] /\ leaderID'[h] = leaderID[h]
    BY <1>2 DEF AddMember
  <2> QED
    BY <2>1, <2>2, <2>3
<1>3. ASSUME NEW g \in Groups, NEW m \in MemberIDs, RemoveMember(g, m) PROVE LeaderIsMember'
  <2>1. \A h \in Groups : h # g => members'[h] = members[h] /\ leaderID'[h] = leaderID[h]
    <3>1. CASE members[g] \ {m} = {}
      BY <1>3, <3>1 DEF RemoveMember
    <3>2. CASE members[g] \ {m} # {}
      BY <1>3, <3>2 DEF RemoveMember
    <3> QED
      BY <3>1, <3>2
  <2>2. members'[g] = members[g] \ {m}
    BY <1>3 DEF RemoveMember
  <2>3. CASE members[g] \ {m} = {}
    BY <1>3, <2>1, <2>2, <2>3 DEF RemoveMember
  <2>4. CASE members[g] \ {m} # {}
    BY <1>3, <2>1, <2>2, <2>4 DEF RemoveMember
  <2> QED
    BY <2>3, <2>4
<1>4. ASSUME NEW g \in Groups, NEW m \in MemberIDs, Heartbeat(g, m) PROVE LeaderIsMember'
  BY <1>4 DEF Heartbeat
<1>5. ASSUME NEW g \in Groups, CheckHeartbeatTimeouts(g) PROVE LeaderIsMember'
  <2> DEFINE left == members[g] \ Expired(g)
  <2>1. members' = [members EXCEPT ![g] = left] /\ ElectAfterEviction(g, left)
    BY <1>5 DEF CheckHeartbeatTimeouts
  <2>2. Expired(g) \subseteq members[g] /\ Expired(g) # {} /\ leaderID[g] \in members[g]
    BY <1>5 DEF CheckHeartbeatTimeouts, Expired
  <2>3. CASE leaderID[g] \notin Expired(g)
    BY <2>1, <2>2, <2>3 DEF ElectAfterEviction
  <2>4. CASE leaderID[g] \in Expired(g) /\ left = {}
    BY <2>1, <2>2, <2>4 DEF ElectAfterEviction
  <2>5. CASE leaderID[g] \in Expired(g) /\ left # {}
    BY <2>1, <2>2, <2>5 DEF ElectAfterEviction
  <2> QED
    BY <2>3, <2>4, <2>5
<1>6. CASE UNCHANGED vars
  BY <1>6 DEF vars
<1> QED
  BY <1>1, <1>2, <1>3, <1>4, <1>5, <1>6 DEF Next, JoinGroup, LeaveGroup, HeartbeatRequest

\* However joins, leaves, id collisions and evictions interleave, a group with
\* members has a leader among them and an empty group has none.
THEOREM LeaderAlwaysMember == Spec => []LeaderIsMember
  BY TypeCorrect, InitLeader, NextLeader, PTL DEF Spec
-------------------------------------------------------------------------------
\* One step of a typed state changes a non-empty membership only with the
\* generation, which never goes back.
LEMMA NextGeneration ==
    ASSUME TypeOK, [Next]_vars, NEW h \in Groups
    PROVE  /\ generationID'[h] >= generationID[h]
           /\ (members'[h] # members[h] /\ members'[h] # {}) => generationID'[h] > generationID[h]
<1> USE DEF TypeOK
<1>1. CASE Tick
  BY <1>1 DEF Tick
<1>2. ASSUME NEW g \in Groups, NEW m \in MemberIDs, AddMember(g, m)
      PROVE  /\ generationID'[h] >= generationID[h]
             /\ (members'[h] # members[h] /\ members'[h] # {}) => generationID'[h] > generationID[h]
  BY <1>2 DEF AddMember
<1>3. ASSUME NEW g \in Groups, NEW m \in MemberIDs, RemoveMember(g, m)
      PROVE  /\ generationID'[h] >= generationID[h]
             /\ (members'[h] # members[h] /\ members'[h] # {}) => generationID'[h] > generationID[h]
  <2>1. CASE members[g] \ {m} = {}
    BY <1>3, <2>1 DEF RemoveMember
  <2>2. CASE members[g] \ {m} # {}
    BY <1>3, <2>2 DEF RemoveMember
  <2> QED
    BY <2>1, <2>2
<1>4. ASSUME NEW g \in Groups, NEW m \in MemberIDs, Heartbeat(g, m)
      PROVE  generationID' = generationID /\ members' = members
  BY <1>4 DEF Heartbeat
<1>5. ASSUME NEW g \in Groups, CheckHeartbeatTimeouts(g)
      PROVE  /\ generationID'[h] >= generationID[h]
             /\ (members'[h] # members[h] /\ members'[h] # {}) => generationID'[h] > generationID[h]
  <2>1. /\ GenerationsPassed(g) \in Nat
        /\ members[g] \ Expired(g) # {} => GenerationsPassed(g) >= 1
    BY <1>5, GenerationsCounted DEF CheckHeartbeatTimeouts
  <2>2. /\ members' = [members EXCEPT ![g] = members[g] \ Expired(g)]
        /\ generationID' = [generationID EXCEPT ![g] = generationID[g] + GenerationsPassed(g)]
    BY <1>5 DEF CheckHeartbeatTimeouts
  <2> QED
    BY <2>1, <2>2
<1>6. CASE UNCHANGED vars
  BY <1>6 DEF vars
<1> QED
  BY <1>1, <1>2, <1>3, <1>4, <1>5, <1>6 DEF Next, JoinGroup, LeaveGroup, HeartbeatRequest

\* Two different non-empty memberships of a group never share a generation.
THEOREM GenerationsIdentify == Spec => GenerationIdentifiesMembers
<1>1. TypeOK /\ [Next]_vars =>
        [\A g \in Groups :
            /\ generationID'[g] >= generationID[g]
            /\ (members'[g] # members[g] /\ members'[g] # {})
                 => generationID'[g] > generationID[g]]_vars
  BY NextGeneration
<1> QED
  BY <1>1, TypeCorrect, PTL DEF Spec, GenerationIdentifiesMembers
-------------------------------------------------------------------------------
(* The handlers *)

\* A request being answered is typed, its generation has been reached, and while
\* that stands there is one view to read.
Joins == [group : Groups, member : MemberIDs, generation : Nat,
          views : SUBSET [leader : MemberIDs \cup {NoMember}, members : SUBSET MemberIDs, generation : Nat]]
OneView(j) ==
    /\ j.generation <= generationID[j.group]
    /\ generationID[j.group] = j.generation /\ members[j.group] # {} => j.views = {View(j.group)}
JoiningOK ==
    /\ joining \in [Connections -> SUBSET Joins]
    /\ \A c \in Connections : \A j \in joining[c] : OneView(j)

\* The handlers only take steps of the coordinator.
LEMMA HandlersStep == ASSUME [HandlersNext]_handlerVars PROVE [Next]_vars
<1>1. CASE HandlersNext
  BY <1>1 DEF HandlersNext, handleJoinGroup, AnswerJoin, Others, Next
<1>2. CASE UNCHANGED handlerVars
  BY <1>2 DEF handlerVars
<1> QED
  BY <1>1, <1>2

\* Within a generation a group that is not empty keeps its members and its leader.
LEMMA GenerationFixesView ==
    ASSUME TypeOK, [Next]_vars, NEW h \in Groups,
           generationID'[h] = generationID[h], members'[h] # {}
    PROVE  members'[h] = members[h] /\ leaderID'[h] = leaderID[h]
<1> USE DEF TypeOK
<1>1. members'[h] = members[h]
  BY NextGeneration
<1>2. CASE Tick
  BY <1>2 DEF Tick
<1>3. ASSUME NEW g \in Groups, NEW m \in MemberIDs, AddMember(g, m)
      PROVE  leaderID'[h] = leaderID[h]
  <2>1. g # h
    BY <1>3 DEF AddMember
  <2> QED
    BY <1>3, <2>1 DEF AddMember
<1>4. ASSUME NEW g \in Groups, NEW m \in MemberIDs, RemoveMember(g, m)
      PROVE  leaderID'[h] = leaderID[h]
  <2>1. CASE members[g] \ {m} = {}
    <3>1. g # h
      BY <1>4, <2>1 DEF RemoveMember
    <3> QED
      BY <1>4, <2>1, <3>1 DEF RemoveMember
  <2>2. CASE members[g] \ {m} # {}
    <3>1. g # h
      BY <1>4, <2>2 DEF RemoveMember
    <3> QED
      BY <1>4, <2>2, <3>1 DEF RemoveMember
  <2> QED
    BY <2>1, <2>2
<1>5. ASSUME NEW g \in Groups, NEW m \in MemberIDs, Heartbeat(g, m)
      PROVE  leaderID'[h] = leaderID[h]
  BY <1>5 DEF Heartbeat
<1>6. ASSUME NEW g \in Groups, CheckHeartbeatTimeouts(g)
      PROVE  leaderID'[h] = leaderID[h]
  <2> DEFINE left == members[g] \ Expired(g)
  <2>1. members' = [members EXCEPT ![g] = left] /\ ElectAfterEviction(g, left)
        /\ generationID' = [generationID EXCEPT ![g] = generationID[g] + GenerationsPassed(g)]
    BY <1>6 DEF CheckHeartbeatTimeouts
  <2>2. GenerationsPassed(g) \in Nat /\ (left # {} => GenerationsPassed(g) >= 1)
    BY <1>6, GenerationsCounted DEF CheckHeartbeatTimeouts
  <2>3. g # h
    BY <2>1, <2>2
  <2> QED
    BY <2>1, <2>3 DEF ElectAfterEviction
<1>7. CASE UNCHANGED vars
  BY <1>7 DEF vars
<1> QED
  BY <1>1, <1>2, <1>3, <1>4, <1>5, <1>6, <1>7 DEF Next, JoinGroup, LeaveGroup, HeartbeatRequest

\* A request that notices a step of the coordinator stays as it should be.
LEMMA NoticedOK ==
    ASSUME TypeOK, TypeOK', JoiningOK, [Next]_vars, NEW c \in Connections, NEW k \in Noticed(c)
    PROVE  k \in Joins /\ OneView(k)'
<1>1. PICK j \in joining[c] : k = [j EXCEPT !.views = j.views \cup {View(j.group)'}]
  BY DEF Noticed
<1>2. j \in Joins /\ OneView(j) /\ j.group \in Groups /\ j.generation \in Nat
  BY DEF JoiningOK, Joins
<1>3. /\ k.group = j.group /\ k.generation = j.generation
      /\ k.views = j.views \cup {View(j.group)'}
  BY <1>1, <1>2 DEF Joins
<1>4. k \in Joins
  <2>1. View(j.group)' \in [leader : MemberIDs \cup {NoMember}, members : SUBSET MemberIDs, generation : Nat]
    BY <1>2 DEF TypeOK, View
  <2> QED
    BY <1>1, <1>2, <2>1 DEF Joins
<1>5. /\ generationID[j.group] \in Nat /\ generationID'[j.group] \in Nat
      /\ generationID'[j.group] >= generationID[j.group]
  BY <1>2, NextGeneration DEF TypeOK
<1>6. ASSUME generationID'[j.group] = j.generation, members'[j.group] # {}
      PROVE  k.views = {View(j.group)'}
  <2>1. generationID'[j.group] = generationID[j.group]
    BY <1>2, <1>5, <1>6 DEF OneView
  <2>2. members'[j.group] = members[j.group] /\ leaderID'[j.group] = leaderID[j.group]
    BY <1>2, <1>6, <2>1, GenerationFixesView
  <2>3. View(j.group)' = View(j.group)
    BY <2>1, <2>2 DEF View
  <2>4. j.views = {View(j.group)}
    BY <1>2, <1>6, <2>1, <2>2 DEF OneView
  <2> QED
    BY <1>3, <2>3, <2>4
<1>7. j.generation <= generationID'[j.group]
  BY <1>2, <1>5 DEF OneView
<1> QED
  BY <1>3, <1>4, <1>6, <1>7 DEF OneView

\* Every step of the handlers keeps the requests as they should be.
LEMMA NextJoiningOK ==
    ASSUME TypeOK, JoiningOK, [HandlersNext]_handlerVars
    PROVE  JoiningOK'
<1>1. [Next]_vars /\ TypeOK'
  BY HandlersStep, NextTypeOK
<1>2. \A c \in Connections : \A k \in Noticed(c) : k \in Joins /\ OneView(k)'
  BY <1>1, NoticedOK
<1>3. ASSUME NEW c \in Connections, NEW g \in Groups, NEW m \in MemberIDs,
             handleJoinGroup(c, g, m)
      PROVE  JoiningOK'
  <2>1. PICK join : join = [group |-> g, member |-> m, generation |-> generationID[g] + 1,
                            views |-> {View(g)'}]
    OBVIOUS
  <2>2. joining' = [d \in Connections |-> IF d = c THEN {join} ELSE Noticed(d)]
    BY <1>3, <2>1 DEF handleJoinGroup
  <2>3. generationID'[g] = generationID[g] + 1 /\ generationID[g] \in Nat
    BY <1>3 DEF handleJoinGroup, JoinGroup, AddMember, TypeOK
  <2>4. /\ join \in Joins
        /\ join.group = g /\ join.generation = generationID[g] + 1 /\ join.views = {View(g)'}
    <3>1. View(g)' \in [leader : MemberIDs \cup {NoMember}, members : SUBSET MemberIDs, generation : Nat]
      BY <1>1 DEF TypeOK, View
    <3> QED
      BY <2>1, <2>3, <3>1 DEF Joins
  <2>5. OneView(join)'
    BY <2>3, <2>4 DEF OneView
  <2>6. joining' \in [Connections -> SUBSET Joins]
    BY <1>2, <2>2, <2>4
  <2>7. \A d \in Connections : \A j \in joining'[d] : OneView(j)'
    BY <1>2, <2>2, <2>5
  <2> QED
    BY <2>6, <2>7 DEF JoiningOK
<1>4. ASSUME NEW c \in Connections, AnswerJoin(c) PROVE JoiningOK'
  <2>1. joining' = [joining EXCEPT ![c] = {}] /\ UNCHANGED <<generationID, members, leaderID>>
    BY <1>4 DEF AnswerJoin, vars
  <2>2. joining' \in [Connections -> SUBSET Joins] /\ \A d \in Connections : joining'[d] \subseteq joining[d]
    BY <2>1 DEF JoiningOK
  <2> QED
    BY <2>1, <2>2 DEF JoiningOK, OneView, View
<1>5. CASE Others
  <2>1. joining' = [c \in Connections |-> Noticed(c)]
    BY <1>5 DEF Others
  <2>2. joining' \in [Connections -> SUBSET Joins]
    BY <1>2, <2>1
  <2>3. \A d \in Connections : \A j \in joining'[d] : OneView(j)'
    BY <1>2, <2>1
  <2> QED
    BY <2>2, <2>3 DEF JoiningOK
<1>6. CASE UNCHANGED handlerVars
  BY <1>6 DEF handlerVars, vars, JoiningOK, OneView, View
<1> QED
  BY <1>3, <1>4, <1>5, <1>6 DEF HandlersNext

\* From one view there is one answer.
LEMMA OneAnswer ==
    ASSUME NEW j, NEW v, j.views = {v}, NEW a \in Answers(j), v.generation \in Nat
    PROVE  /\ a.generation = v.generation /\ a.leader = v.leader
           /\ a.list = IF v.leader = j.member THEN v.members ELSE {}
<1>1. a.list \in Lists(j) /\ a.generation \in Generations(j) /\ a.leader \in Leaders(j)
  BY DEF Answers
<1>2. Ever(j) = v.members /\ Always(j) = v.members
  BY DEF Ever, Always
<1>3. Leaders(j) = {v.leader}
  BY <1>2 DEF Leaders
<1>4. \A n \in Generations(j) : n = v.generation
  <2>1. ASSUME NEW n \in Generations(j) PROVE n = v.generation
    <3>1. n \in Nat /\ v.generation <= n /\ n <= v.generation
      BY ConstantsAssumption DEF Generations
    <3> QED
      BY <3>1
  <2> QED
    BY <2>1
<1>5. a.list = IF v.leader = j.member THEN v.members ELSE {}
  <2>1. CASE v.leader = j.member
    <3>1. ~(Leaders(j) # {j.member})
      BY <1>3, <2>1
    <3>2. a.list \subseteq Ever(j) /\ Always(j) \subseteq a.list
      BY <1>1, <3>1 DEF Lists
    <3> QED
      BY <1>2, <2>1, <3>2
  <2>2. CASE v.leader # j.member
    <3>1. j.member \notin Leaders(j)
      BY <1>3, <2>2
    <3>2. a.list = {}
      BY <1>1, <3>1 DEF Lists
    <3> QED
      BY <2>2, <3>2
  <2> QED
    BY <2>1, <2>2
<1> QED
  BY <1>1, <1>3, <1>4, <1>5

\* With any number of connections, the coordinator's invariants hold, and an
\* answer to JoinGroup given while the group is still in the generation of that
\* join is the group's one view, whatever the unlocked reads return
\* (handleJoinGroup).
THEOREM JoinAnswers == HandlersSpec => [](TypeOK /\ LeaderIsMember /\ JoinAnswerConsistent)
<1>1. HandlersInit => TypeOK /\ LeaderIsMember /\ JoiningOK
  BY InitTypeOK, InitLeader DEF HandlersInit, JoiningOK
<1>2. TypeOK /\ LeaderIsMember /\ JoiningOK /\ [HandlersNext]_handlerVars
        => (TypeOK /\ LeaderIsMember /\ JoiningOK)'
  BY HandlersStep, NextTypeOK, NextLeader, NextJoiningOK
<1>3. TypeOK /\ JoiningOK => JoinAnswerConsistent
  <2> SUFFICES ASSUME TypeOK, JoiningOK, NEW c \in Connections, NEW j \in joining[c],
                      generationID[j.group] = j.generation, members[j.group] # {}, NEW a \in Answers(j)
               PROVE  /\ a.generation = j.generation /\ a.leader = leaderID[j.group]
                      /\ a.list = IF a.leader = j.member THEN members[j.group] ELSE {}
    BY DEF JoinAnswerConsistent
  <2>1. j.group \in Groups /\ j.generation \in Nat /\ j.views = {View(j.group)}
    BY DEF JoiningOK, OneView, Joins
  <2>2. PICK v : v = View(j.group)
    OBVIOUS
  <2>3. v.leader = leaderID[j.group] /\ v.members = members[j.group] /\ v.generation = j.generation
    BY <2>2 DEF View
  <2>4. /\ a.generation = v.generation /\ a.leader = v.leader
        /\ a.list = IF v.leader = j.member THEN v.members ELSE {}
    BY <2>1, <2>2, <2>3, OneAnswer
  <2> QED
    BY <2>3, <2>4
<1> QED
  BY <1>1, <1>2, <1>3, PTL DEF HandlersSpec
===============================================================================
