--------------------------- MODULE GroupCoordinator ---------------------------
(***************************************************************************)
(* Consumer group membership (internal/coordinator/group.go) as the        *)
(* JoinGroup, LeaveGroup and Heartbeat handlers drive it, and the session  *)
(* timeout scan.  Each operation on a group runs under group.mu, so it is  *)
(* one action.  Member ids are drawn from a finite set: generateUUIDShort  *)
(* takes the clock modulo a million, so an id may be issued again, even    *)
(* while another member still holds it.                                    *)
(***************************************************************************)
EXTENDS Integers, FiniteSets

CONSTANTS Groups, MemberIDs,
          Denied,          \* groups a session is not authorized for
          NoMember,        \* the empty LeaderID
          MaxGroups,       \* SetMaxGroups, 0: unlimited
          SessionTimeout,  \* every member's session timeout
          MaxGeneration,   \* bound: generations per group
          MaxClock         \* bound: number of clock ticks

ASSUME ConstantsAssumption ==
    /\ NoMember \notin MemberIDs /\ IsFiniteSet(MemberIDs) /\ Denied \subseteq Groups
    /\ MaxGroups \in Nat /\ SessionTimeout \in Nat
    /\ MaxGeneration \in Nat /\ MaxClock \in Nat

VARIABLES
    now,
    groups,         \* keys of gc.groups
    state,          \* group -> State
    leaderID,       \* group -> LeaderID
    generationID,   \* group -> GenerationID
    members,        \* group -> keys of Members
    lastHeartbeat   \* group -> member id -> LastHeartbeat

vars == <<now, groups, state, leaderID, generationID, members, lastHeartbeat>>

States == {"Empty", "PreparingRebalance", "CompletingRebalance", "Stable", "Dead"}

Init ==
    /\ now = 0 /\ groups = {}
    /\ state = [g \in Groups |-> "Empty"]
    /\ leaderID = [g \in Groups |-> NoMember]
    /\ generationID = [g \in Groups |-> 0]
    /\ members = [g \in Groups |-> {}]
    /\ lastHeartbeat = [g \in Groups |-> [m \in MemberIDs |-> 0]]

Tick ==
    /\ now < MaxClock
    /\ now' = now + 1
    /\ UNCHANGED <<groups, state, leaderID, generationID, members, lastHeartbeat>>

\* GetOrCreateGroup registers a new group, unless the cap is reached.
Registered(g) == groups \cup {g}
MayCreate(g) == g \in groups \/ MaxGroups = 0 \/ Cardinality(groups) < MaxGroups

\* AddMember: the first member becomes the leader, every join starts a rebalance.
LeaderAfterJoin(g, m) ==
    IF leaderID[g] = NoMember \/ Cardinality(members[g] \cup {m}) = 1 THEN m ELSE leaderID[g]

AddMember(g, m) ==
    /\ MayCreate(g)
    /\ generationID[g] < MaxGeneration
    /\ groups' = Registered(g)
    /\ members' = [members EXCEPT ![g] = @ \cup {m}]
    /\ leaderID' = [leaderID EXCEPT ![g] = LeaderAfterJoin(g, m)]
    /\ state' = [state EXCEPT ![g] = "PreparingRebalance"]
    /\ generationID' = [generationID EXCEPT ![g] = @ + 1]
    /\ lastHeartbeat' = [lastHeartbeat EXCEPT ![g][m] = now]
    /\ UNCHANGED now

\* RemoveMember, from LeaveGroup: any remaining member takes over from a leader
\* that leaves; the last one leaves an empty group in the same generation.
RemoveMember(g, m) ==
    LET left == members[g] \ {m} IN
    /\ g \in groups /\ m \in members[g]
    /\ left # {} => generationID[g] < MaxGeneration
    /\ members' = [members EXCEPT ![g] = left]
    /\ IF left = {}
         THEN /\ state' = [state EXCEPT ![g] = "Empty"]
              /\ leaderID' = [leaderID EXCEPT ![g] = NoMember]
              /\ UNCHANGED generationID
         ELSE /\ state' = [state EXCEPT ![g] = "PreparingRebalance"]
              /\ IF leaderID[g] = m
                   THEN \E l \in left : leaderID' = [leaderID EXCEPT ![g] = l]
                   ELSE UNCHANGED leaderID
              /\ generationID' = [generationID EXCEPT ![g] = @ + 1]
    /\ lastHeartbeat' = [lastHeartbeat EXCEPT ![g][m] = 0]
    /\ UNCHANGED <<now, groups>>

\* Heartbeat: refused while a rebalance is in progress, else the timestamp moves.
\* No operation ends a rebalance, so a present member's heartbeat is always refused.
Heartbeat(g, m) ==
    /\ g \in groups /\ m \in members[g]
    /\ lastHeartbeat' = IF state[g] = "PreparingRebalance" THEN lastHeartbeat
                        ELSE [lastHeartbeat EXCEPT ![g][m] = now]
    /\ UNCHANGED <<now, groups, state, leaderID, generationID, members>>

Expired(g) == {m \in members[g] : now - lastHeartbeat[g][m] > SessionTimeout}

\* CheckHeartbeatTimeouts, for one group: the expired members are deleted one
\* after the other in map order, each deletion that leaves someone starts a new
\* generation, and a leader that goes is replaced by whoever is left.
GenerationsPassedMutant(g) == 0
GenerationsPassed(g) ==
    IF Expired(g) = members[g] THEN Cardinality(Expired(g)) - 1 ELSE Cardinality(Expired(g))

ElectAfterEvictionMutant(g, left) ==
    \E l \in members[g] : leaderID' = [leaderID EXCEPT ![g] = l]
ElectAfterEviction(g, left) ==
    CASE leaderID[g] \notin Expired(g) -> UNCHANGED leaderID
      [] leaderID[g] \in Expired(g) /\ left = {} -> leaderID' = [leaderID EXCEPT ![g] = NoMember]
      [] OTHER -> \E l \in left : leaderID' = [leaderID EXCEPT ![g] = l]

CheckHeartbeatTimeouts(g) ==
    LET left == members[g] \ Expired(g) IN
    /\ g \in groups /\ Expired(g) # {}
    /\ generationID[g] + GenerationsPassed(g) <= MaxGeneration
    /\ members' = [members EXCEPT ![g] = left]
    /\ ElectAfterEviction(g, left)
    /\ state' = [state EXCEPT ![g] = IF left = {} THEN "Empty" ELSE "PreparingRebalance"]
    /\ generationID' = [generationID EXCEPT ![g] = @ + GenerationsPassed(g)]
    /\ lastHeartbeat' = [lastHeartbeat EXCEPT
                            ![g] = [m \in MemberIDs |-> IF m \in Expired(g) THEN 0 ELSE @[m]]]
    /\ UNCHANGED <<now, groups>>

\* The request handlers pass on what authorizeGroup lets through; every other
\* request is answered with an error and changes nothing.
Authorized(g) == g \notin Denied
JoinGroup(g, m) == Authorized(g) /\ AddMember(g, m)
LeaveGroup(g, m) == Authorized(g) /\ RemoveMember(g, m)
HeartbeatRequest(g, m) == Authorized(g) /\ Heartbeat(g, m)

Next ==
    \/ Tick
    \/ \E g \in Groups :
        \/ CheckHeartbeatTimeouts(g)
        \/ \E m \in MemberIDs : JoinGroup(g, m) \/ LeaveGroup(g, m) \/ HeartbeatRequest(g, m)

Spec == Init /\ [][Next]_vars /\ WF_vars(Tick)
-------------------------------------------------------------------------------
\* Every variable has its type, and only groups that were created have members.
TypeOK ==
    /\ now \in Nat /\ groups \subseteq Groups
    /\ state \in [Groups -> States]
    /\ leaderID \in [Groups -> MemberIDs \cup {NoMember}]
    /\ generationID \in [Groups -> Nat]
    /\ members \in [Groups -> SUBSET MemberIDs]
    /\ lastHeartbeat \in [Groups -> [MemberIDs -> Nat]]
    /\ \A g \in Groups : members[g] # {} => g \in groups

\* The leader named to every joining member is one of the members: however
\* joins, leaves, id collisions and evictions interleave, a group with members
\* has a leader among them and an empty group has none (AddMember,
\* RemoveMember, CheckHeartbeatTimeouts).
LeaderIsMember ==
    \A g \in Groups : IF members[g] = {} THEN leaderID[g] = NoMember ELSE leaderID[g] \in members[g]

\* Two different non-empty memberships never share a generation: a step that
\* changes who is in a group, and leaves someone in it, starts a generation, so
\* a member can tell a stale assignment by its generation.  Generations never
\* go back.
GenerationIdentifiesMembers ==
    [][\A g \in Groups :
        /\ generationID'[g] >= generationID[g]
        /\ (members'[g] # members[g] /\ members'[g] # {}) => generationID'[g] > generationID[g]]_vars
===============================================================================
