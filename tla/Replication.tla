------------------------------ MODULE Replication ------------------------------
(***************************************************************************)
(* Replication of one partition (internal/replication): the leader's       *)
(* ReplicaManager, which follows the log end of every replica and keeps    *)
(* the high watermark, and the ReplicationFetcher of each follower.        *)
(*                                                                         *)
(* Neither is called by the broker yet.  What is outside the package is    *)
(* modelled from its signatures: the logs themselves are their end         *)
(* offsets; the fetch callback copies records from the leader's log into   *)
(* the follower's and returns the offset after them; a report of a log end *)
(* reaches UpdateFollowerLEO late, repeatedly or out of order.  A task is  *)
(* an object: fetchBatch copies pointers, so it can still hold a task that *)
(* was removed or replaced in the map.                                     *)
(***************************************************************************)
EXTENDS Integers, Sequences, FiniteSetsExt

CONSTANTS Leader, Followers,
          BatchSize,   \* records a fetch may return
          MaxOffset,   \* bound: records of the leader
          MaxTasks     \* bound: tasks registered per follower

ASSUME ConstantsAssumption ==
    /\ Leader \notin Followers /\ IsFiniteSet(Followers)
    /\ BatchSize \in Nat \ {0} /\ MaxOffset \in Nat /\ MaxTasks \in Nat

Replicas == Followers \cup {Leader}

VARIABLES
    created,        \* is the partition in rm.partitions
    leo,            \* replica -> Replica.LEO
    highWatermark,  \* PartitionState.HighWatermark
    logEnd,         \* replica -> end of its log
    reports,        \* reported log ends, as <<replica, offset>>
    task,           \* follower -> the task in rf.tasks, 0: none
    fetchOffset,    \* follower -> FetchOffset of each of its task objects
    quit,           \* follower -> has its quit channel been closed
    pc,             \* follower -> where its fetch loop is
    current,        \* follower -> the task fetchBatch is at
    nextOffset      \* follower -> what the callback returned

manager == <<created, leo, highWatermark>>
fetcher == <<task, fetchOffset, quit, pc, current, nextOffset>>
vars    == <<manager, logEnd, reports, fetcher>>

Init ==
    /\ created = FALSE /\ leo = [r \in Replicas |-> 0] /\ highWatermark = 0
    /\ logEnd = [r \in Replicas |-> 0] /\ reports = {}
    /\ task = [f \in Followers |-> 0] /\ fetchOffset = [f \in Followers |-> <<>>]
    /\ quit = [f \in Followers |-> FALSE] /\ pc = [f \in Followers |-> "idle"]
    /\ current = [f \in Followers |-> 0] /\ nextOffset = [f \in Followers |-> 0]
-------------------------------------------------------------------------------
(* ReplicaManager *)

\* CreatePartition: a second call finds the first one's state.
CreatePartition ==
    /\ ~created
    /\ created' = TRUE /\ leo' = [r \in Replicas |-> 0] /\ highWatermark' = 0
    /\ UNCHANGED <<logEnd, reports, fetcher>>

\* The lowest log end of the in-sync replicas, which are all of them.
MinISRLEOMutant(l) == Max({l[r] : r \in Replicas})
MinISRLEO(l) == Min({l[r] : r \in Replicas})

\* UpdateFollowerLEO stores what was reported, older reports too; the high
\* watermark only goes up.
AdvancedMutant(l) == MinISRLEO(l)
Advanced(l) == IF MinISRLEO(l) > highWatermark THEN MinISRLEO(l) ELSE highWatermark
UpdateFollowerLEO(r, o) ==
    /\ created /\ <<r, o>> \in reports
    /\ leo' = [leo EXCEPT ![r] = o]
    /\ highWatermark' = Advanced(leo')
    /\ UNCHANGED <<created, logEnd, reports, fetcher>>

GetHighWatermark == IF created THEN highWatermark ELSE 0
-------------------------------------------------------------------------------
(* ReplicationFetcher *)

\* AddFetchTask puts a new object into the map, also over an old one.  A follower
\* is told to start at or below the end of its log.
AddFetchTask(f, o) ==
    /\ Len(fetchOffset[f]) < MaxTasks /\ o <= logEnd[f]
    /\ fetchOffset' = [fetchOffset EXCEPT ![f] = Append(@, o)]
    /\ task' = [task EXCEPT ![f] = Len(fetchOffset[f]) + 1]
    /\ UNCHANGED <<manager, logEnd, reports, quit, pc, current, nextOffset>>

RemoveFetchTask(f) ==
    /\ task[f] # 0 /\ task' = [task EXCEPT ![f] = 0]
    /\ UNCHANGED <<manager, logEnd, reports, fetchOffset, quit, pc, current, nextOffset>>

\* fetchBatch copies the tasks under the read lock ...
CopyTasks(f) ==
    /\ pc[f] = "idle" /\ task[f] # 0
    /\ pc' = [pc EXCEPT ![f] = "fetch"] /\ current' = [current EXCEPT ![f] = task[f]]
    /\ UNCHANGED <<manager, logEnd, reports, quit, task, fetchOffset, nextOffset>>

\* ... calls the callback without it ...
Fetched(o) == IF o + BatchSize < logEnd[Leader] THEN o + BatchSize
              ELSE IF o < logEnd[Leader] THEN logEnd[Leader] ELSE o
CallFetch(f) ==
    LET n == Fetched(fetchOffset[f][current[f]]) IN
    /\ pc[f] = "fetch"
    /\ logEnd' = [logEnd EXCEPT ![f] = IF n > @ THEN n ELSE @]
    /\ nextOffset' = [nextOffset EXCEPT ![f] = n]
    /\ pc' = [pc EXCEPT ![f] = "store"]
    /\ UNCHANGED <<manager, reports, quit, task, fetchOffset, current>>

\* ... which may return an error ...
FetchFails(f) ==
    /\ pc[f] = "fetch"
    /\ pc' = [pc EXCEPT ![f] = "idle"] /\ current' = [current EXCEPT ![f] = 0]
    /\ UNCHANGED <<manager, logEnd, reports, quit, task, fetchOffset, nextOffset>>

\* ... and moves the task it holds forward.
StoredMutant(f) == nextOffset[f] + 1
Stored(f) == IF nextOffset[f] > fetchOffset[f][current[f]] THEN nextOffset[f]
             ELSE fetchOffset[f][current[f]]
HeldMutant(f) == 1
Held(f) == current[f]
StoreOffset(f) ==
    /\ pc[f] = "store"
    /\ fetchOffset' = [fetchOffset EXCEPT ![f][Held(f)] = Stored(f)]
    /\ pc' = [pc EXCEPT ![f] = "idle"]
    /\ current' = [current EXCEPT ![f] = 0] /\ nextOffset' = [nextOffset EXCEPT ![f] = 0]
    /\ UNCHANGED <<manager, logEnd, reports, quit, task>>

\* Stop closes the quit channel, and waits for the loop ...
Stop(f) ==
    /\ ~quit[f] /\ quit' = [quit EXCEPT ![f] = TRUE]
    /\ UNCHANGED <<manager, logEnd, reports, task, fetchOffset, pc, current, nextOffset>>

\* ... whose select takes the closed channel or, as likely, a tick that is due.
LoopExitsMutant(f) ==
    /\ pc[f] = "idle" /\ quit[f] /\ task[f] = 0 /\ pc' = [pc EXCEPT ![f] = "stopped"]
    /\ UNCHANGED <<manager, logEnd, reports, quit, task, fetchOffset, current, nextOffset>>
LoopExits(f) ==
    /\ pc[f] = "idle" /\ quit[f] /\ pc' = [pc EXCEPT ![f] = "stopped"]
    /\ UNCHANGED <<manager, logEnd, reports, quit, task, fetchOffset, current, nextOffset>>
-------------------------------------------------------------------------------
(* Outside the package *)

LeaderAppends ==
    /\ logEnd[Leader] < MaxOffset
    /\ logEnd' = [logEnd EXCEPT ![Leader] = @ + 1]
    /\ UNCHANGED <<manager, reports, fetcher>>

Report(r) ==
    /\ <<r, logEnd[r]>> \notin reports
    /\ reports' = reports \cup {<<r, logEnd[r]>>}
    /\ UNCHANGED <<manager, logEnd, fetcher>>

Next ==
    \/ CreatePartition \/ LeaderAppends
    \/ \E r \in Replicas : Report(r)
    \/ \E m \in reports : UpdateFollowerLEO(m[1], m[2])
    \/ \E f \in Followers :
        \/ RemoveFetchTask(f) \/ \E o \in 0..MaxOffset : AddFetchTask(f, o)
        \/ CopyTasks(f) \/ CallFetch(f) \/ FetchFails(f) \/ StoreOffset(f)
        \/ Stop(f) \/ LoopExits(f)

\* The fetch loop runs at every tick, the leader is not unreachable for ever, and
\* a select does not overlook a channel that is ready for ever.
Fairness ==
    \A f \in Followers : /\ WF_vars(CopyTasks(f)) /\ SF_vars(CallFetch(f))
                         /\ WF_vars(StoreOffset(f)) /\ SF_vars(LoopExits(f))

Spec == Init /\ [][Next]_vars /\ Fairness
-------------------------------------------------------------------------------
\* Every variable has its type, and fetchBatch is at a task while it is busy.
TypeOK ==
    /\ created \in BOOLEAN /\ leo \in [Replicas -> 0..MaxOffset] /\ highWatermark \in 0..MaxOffset
    /\ logEnd \in [Replicas -> 0..MaxOffset] /\ reports \subseteq Replicas \X (0..MaxOffset)
    /\ fetchOffset \in [Followers -> Seq(0..MaxOffset)]
    /\ pc \in [Followers -> {"idle", "fetch", "store", "stopped"}]
    /\ quit \in [Followers -> BOOLEAN] /\ task \in [Followers -> Nat] /\ current \in [Followers -> Nat]
    /\ nextOffset \in [Followers -> 0..MaxOffset]
    /\ \A f \in Followers : /\ task[f] <= Len(fetchOffset[f])
                            /\ current[f] <= Len(fetchOffset[f])
                            /\ pc[f] \in {"idle", "stopped"} <=> current[f] = 0

\* Every record below the high watermark is in the log of every in-sync replica,
\* whatever reports are late, repeated or out of order (UpdateFollowerLEO).
HighWatermarkReplicated == \A r \in Replicas : GetHighWatermark <= logEnd[r]

\* The high watermark never goes back, although an old report takes the log end of
\* a replica back (UpdateFollowerLEO).
HighWatermarkMonotone == [][GetHighWatermark' >= GetHighWatermark]_vars

\* No task is ahead of the follower's log, so a fetch never leaves a hole in it,
\* whether the task was replaced or removed while fetchBatch held it (fetchBatch,
\* AddFetchTask).
FetchesContiguous ==
    \A f \in Followers : \A i \in 1..Len(fetchOffset[f]) : fetchOffset[f][i] <= logEnd[f]

\* A follower that is not stopped and whose task stays registered gets everything
\* the leader has, however often the task was replaced (fetchBatch, Start).
FollowersCatchUp ==
    \A f \in Followers :
        (<>[](task[f] # 0) /\ [](~quit[f])) => <>[](logEnd[f] = logEnd[Leader])

\* Stop returns: the loop ends even while there is always a tick to serve and a
\* task to fetch (Stop, Start).
StopReturns == \A f \in Followers : quit[f] ~> pc[f] = "stopped"
===============================================================================
