---------------------------- MODULE GroupHandlers ----------------------------
(***************************************************************************)
(* The handlers of several connections on top of GroupCoordinator.  What   *)
(* handleJoinGroup puts into its answer it reads after AddMember has       *)
(* released group.mu: LeaderID, the map of the members, GenerationID and   *)
(* LeaderID again, while other connections join, leave and are evicted.    *)
(*                                                                         *)
(* The reads are a data race.  Each of them, on its own, returns a value   *)
(* the group has had or passed through since AddMember returned, so the    *)
(* handler's request collects the views of the group, and an answer is any *)
(* combination of what they hold.  The Go runtime may also end the process *)
(* in the unlocked iteration, after which nothing more happens.            *)
(***************************************************************************)
EXTENDS GroupCoordinator

CONSTANT Connections

VARIABLE joining \* connection -> the JoinGroup request its handler is answering, if any

handlerVars == <<vars, joining>>

View(g) == [leader |-> leaderID[g], members |-> members[g], generation |-> generationID[g]]

HandlersInit == Init /\ joining = [c \in Connections |-> {}]

\* A step that changes a group adds to what the handlers may read of it.
Noticed(c) == {[j EXCEPT !.views = @ \cup {View(j.group)'}] : j \in joining[c]}

\* handleJoinGroup, up to the return of AddMember; the generation it started.
handleJoinGroup(c, g, m) ==
    LET join == [group |-> g, member |-> m, generation |-> generationID[g] + 1, views |-> {View(g)'}] IN
    /\ joining[c] = {}
    /\ JoinGroup(g, m)
    /\ joining' = [d \in Connections |-> IF d = c THEN {join} ELSE Noticed(d)]

\* Members in some view and in every view, and who may be read as the leader: an
\* eviction may pass the lead through members that it evicts as well.
Ever(j)    == UNION {v.members : v \in j.views}
Always(j)  == {m \in Ever(j) : \A v \in j.views : m \in v.members}
Leaders(j) == {v.leader : v \in j.views} \cup (Ever(j) \ Always(j))

\* The leader, and only the leader, gets the list of the members.
Lists(j) == {S \in SUBSET Ever(j) : Always(j) \subseteq S /\ j.member \in Leaders(j)}
                \cup {S \in {{}} : Leaders(j) # {j.member}}

\* The generations in the views, and those an eviction passes through.
Generations(j) == {n \in 0..MaxGeneration :
                    \E v, w \in j.views : v.generation <= n /\ n <= w.generation}

\* The answers the handler may put together now.
Answers(j) == [list : Lists(j), generation : Generations(j), leader : Leaders(j)]

\* The answer is written.
AnswerJoin(c) ==
    /\ joining[c] # {}
    /\ joining' = [joining EXCEPT ![c] = {}]
    /\ UNCHANGED vars

Others ==
    /\ \/ Tick
       \/ \E g \in Groups :
            \/ CheckHeartbeatTimeouts(g)
            \/ \E m \in MemberIDs : LeaveGroup(g, m) \/ HeartbeatRequest(g, m)
    /\ joining' = [c \in Connections |-> Noticed(c)]

HandlersNext ==
    \/ \E c \in Connections :
        \/ \E g \in Groups, m \in MemberIDs : handleJoinGroup(c, g, m)
        \/ AnswerJoin(c)
    \/ Others

HandlersSpec == HandlersInit /\ [][HandlersNext]_handlerVars
-------------------------------------------------------------------------------
\* An answer to JoinGroup is put together without the lock and may mix several
\* views of the group, but only one the group has already moved on from: if, as
\* the answer is given, the group still has the generation that this join
\* started and is not empty, every answer the handler can give names that
\* generation, its leader, and the members to the leader alone
\* (handleJoinGroup).
JoinAnswerConsistent ==
    \A c \in Connections : \A j \in joining[c] :
        generationID[j.group] = j.generation /\ members[j.group] # {} =>
            \A a \in Answers(j) :
                /\ a.generation = j.generation /\ a.leader = leaderID[j.group]
                /\ a.list = IF a.leader = j.member THEN members[j.group] ELSE {}
===============================================================================
