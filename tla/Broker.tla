-------------------------------- MODULE Broker --------------------------------
(***************************************************************************)
(* The broker as its clients see it (internal/server): connections that    *)
(* TCPServer accepts, one handler goroutine each, and the Produce, Fetch,  *)
(* OffsetCommit and OffsetFetch requests they serve on the shared table of *)
(* partition logs and the OffsetManager, for one consumer group.           *)
(*                                                                         *)
(* A step is what a handler does between two lock operations, so handlers  *)
(* interleave inside getOrCreatePartitionLog, between two appends of one   *)
(* batch and between the read and the LEO call of a fetch.  A request      *)
(* names one partition; a partition's directory is the sequence of records *)
(* in it (PartitionLog models it in detail).  The table and the committed  *)
(* offsets are in memory only and a restart empties them.                  *)
(***************************************************************************)
EXTENDS Integers, Sequences, FiniteSets

CONSTANTS Connections,
          Partitions,     \* topic partitions a client may name
          Consumed,       \* those the group consumes
          Denied,         \* those the ACL rules close to the clients
          Invalid,        \* those whose name isValidTopicName rejects
          MaxPartitions,  \* SetMaxPartitions, 0: unlimited
          MaxFetch,       \* MaxBytes of a fetch request, in records
          MaxRecords,     \* bound: records of all produce requests together
          Faults          \* operations that may fail: open, read, append; or "crash"

ASSUME ConstantsAssumption ==
    /\ Consumed \subseteq Partitions /\ Denied \subseteq Partitions /\ Invalid \subseteq Partitions /\ IsFiniteSet(Partitions)
    /\ MaxPartitions \in Nat /\ MaxRecords \in Nat
    /\ MaxFetch \in Nat \ {0}
    /\ Faults \subseteq {"open", "read", "append", "crash"}

VARIABLES
    pc,          \* connection -> where its handler is
    job,         \* connection -> the request it is serving
    partitions,  \* h.partitions: partition -> its log in logs[p], 0: no entry
    logs,        \* partition -> nextOffset of each PartitionLog opened on it
    disk,        \* partition -> the records in its directory
    offsets,     \* OffsetManager.offsets: partition -> offset, -1: none
    position,    \* client: connection -> partition -> next offset to fetch, -1: unknown
    produced,    \* history: number of records of the produce requests so far
    acked,       \* history: produce answers with error code 0
    delivered    \* history: partition -> offsets the group has received

table   == <<partitions, logs>>
client  == <<position, delivered>>
vars    == <<pc, job, table, disk, offsets, client, produced, acked>>

NoJob == [api |-> "none", part |-> 0, req |-> 0, n |-> 0, sent |-> 0, first |-> -1,
          log |-> 0, got |-> {}, hw |-> 0]
Offset(p, i) == disk[p][i].offset
NoOffsets == [p \in Consumed |-> -1]
OnDisk(p) == {disk[p][i] : i \in 1..Len(disk[p])}

Init ==
    /\ pc = [c \in Connections |-> "none"] /\ job = [c \in Connections |-> NoJob]
    /\ partitions = [p \in Partitions |-> 0] /\ logs = [p \in Partitions |-> <<>>]
    /\ disk = [p \in Partitions |-> <<>>] /\ offsets = NoOffsets
    /\ position = [c \in Connections |-> [p \in Consumed |-> -1]]
    /\ produced = 0 /\ acked = {} /\ delivered = [p \in Consumed |-> {}]
-------------------------------------------------------------------------------
(* Connections and restarts *)

\* TCPServer accepts a connection and starts its handler.
Accept(c) ==
    /\ pc[c] = "none" /\ pc' = [pc EXCEPT ![c] = "idle"]
    /\ UNCHANGED <<job, table, disk, offsets, client, produced, acked>>

\* The client is gone: Handle returns, at the next read or when it writes the
\* answer, which is then lost.
Disconnect(c) ==
    /\ pc[c] \in {"idle", "respond", "error"}
    /\ pc' = [pc EXCEPT ![c] = "none"] /\ job' = [job EXCEPT ![c] = NoJob]
    /\ position' = [position EXCEPT ![c] = [p \in Consumed |-> -1]]
    /\ UNCHANGED <<table, disk, offsets, delivered, produced, acked>>

\* The process ends, at any point, and is started again.
Restart ==
    /\ "crash" \in Faults
    /\ pc' = [c \in Connections |-> "none"] /\ job' = [c \in Connections |-> NoJob]
    /\ partitions' = [p \in Partitions |-> 0] /\ logs' = [p \in Partitions |-> <<>>]
    /\ offsets' = NoOffsets
    /\ position' = [c \in Connections |-> [p \in Consumed |-> -1]]
    /\ UNCHANGED <<disk, produced, acked, delivered>>
-------------------------------------------------------------------------------
(* getOrCreatePartitionLog *)

\* What the ACL rules and the check of the topic's name let through.
authorizeTopic(p) == p \notin Denied
isValidTopicName(p) == p \notin Invalid

Begin(c, api, p, req, n) ==
    /\ pc[c] = "idle"
    /\ job' = [job EXCEPT ![c] = [NoJob EXCEPT !.api = api, !.part = p, !.req = req, !.n = n]]
    /\ pc' = [pc EXCEPT ![c] = IF authorizeTopic(p) /\ isValidTopicName(p)
                               THEN "lookup" ELSE "error"]

\* What the handler does once it has the log.
Opened(c, l) ==
    /\ job' = [job EXCEPT ![c].log = l]
    /\ pc' = [pc EXCEPT ![c] = IF job[c].api = "produce" THEN "append" ELSE "read"]

\* The look at the table under the read lock.
Lookup(c) ==
    /\ pc[c] = "lookup"
    /\ \/ partitions[job[c].part] # 0 /\ Opened(c, partitions[job[c].part])
       \/ /\ partitions[job[c].part] = 0
          /\ pc' = [pc EXCEPT ![c] = "create"] /\ UNCHANGED job
    /\ UNCHANGED <<table, disk, offsets, client, produced, acked>>

\* Under the write lock: look again, check the cap, open the log.  NewPartitionLog
\* counts the records of the directory.
FoundAgainMutant(p) == FALSE
FoundAgain(p) == partitions[p] # 0
InTable == {p \in Partitions : partitions[p] # 0}
AtCapMutant == MaxPartitions > 0 /\ Cardinality(InTable) > MaxPartitions
AtCap == MaxPartitions > 0 /\ Cardinality(InTable) >= MaxPartitions
Create(c) ==
    LET p == job[c].part IN
    /\ pc[c] = "create"
    /\ \/ FoundAgain(p) /\ Opened(c, partitions[p]) /\ UNCHANGED table
       \/ /\ ~FoundAgain(p) /\ AtCap
          /\ pc' = [pc EXCEPT ![c] = "error"] /\ UNCHANGED <<job, table>>
       \/ /\ ~FoundAgain(p) /\ ~AtCap /\ "open" \in Faults
          /\ pc' = [pc EXCEPT ![c] = "error"] /\ UNCHANGED <<job, table>>
       \/ /\ ~FoundAgain(p) /\ ~AtCap
          /\ logs' = [logs EXCEPT ![p] = Append(@, Len(disk[p]))]
          /\ partitions' = [partitions EXCEPT ![p] = Len(logs[p]) + 1]
          /\ Opened(c, Len(logs[p]) + 1)
    /\ UNCHANGED <<disk, offsets, client, produced, acked>>

\* An answer with an error code.
RespondError(c) ==
    /\ pc[c] = "error"
    /\ pc' = [pc EXCEPT ![c] = "idle"] /\ job' = [job EXCEPT ![c] = NoJob]
    /\ UNCHANGED <<table, disk, offsets, client, produced, acked>>
-------------------------------------------------------------------------------
(* handleProduce *)

Produce(c, p, n) ==
    /\ produced + n <= MaxRecords /\ produced' = produced + n
    /\ Begin(c, "produce", p, produced + 1, n)
    /\ UNCHANGED <<table, disk, offsets, client, acked>>

\* PartitionLog.Append of the next record of the batch.
FirstMutant(c, o) == o
First(c, o) == IF job[c].first = -1 THEN o ELSE job[c].first
AppendNext(c) ==
    LET p == job[c].part
        o == logs[p][job[c].log] IN
    /\ pc[c] = "append" /\ job[c].sent < job[c].n
    /\ disk' = [disk EXCEPT ![p] =
                    Append(@, [offset |-> o, req |-> job[c].req, no |-> job[c].sent + 1])]
    /\ logs' = [logs EXCEPT ![p][job[c].log] = o + 1]
    /\ job' = [job EXCEPT ![c].sent = @ + 1, ![c].first = First(c, o)]
    /\ UNCHANGED <<pc, partitions, offsets, client, produced, acked>>

\* The batch is written; an append that fails ends the loop the same way.
AppendDone(c) ==
    /\ pc[c] = "append"
    /\ job[c].sent = job[c].n \/ "append" \in Faults
    /\ pc' = [pc EXCEPT ![c] = "respond"]
    /\ job' = [job EXCEPT ![c].first = IF @ = -1 THEN 0 ELSE @]
    /\ UNCHANGED <<table, disk, offsets, client, produced, acked>>

RespondProduce(c) ==
    /\ pc[c] = "respond" /\ job[c].api = "produce"
    /\ acked' = acked \cup {[part |-> job[c].part, req |-> job[c].req, n |-> job[c].sent,
                             base |-> job[c].first]}
    /\ pc' = [pc EXCEPT ![c] = "idle"] /\ job' = [job EXCEPT ![c] = NoJob]
    /\ UNCHANGED <<table, disk, offsets, client, produced>>
-------------------------------------------------------------------------------
(* handleFetch, handleOffsetCommit and handleOffsetFetch, from a consumer that *)
(* starts at the committed offset, or at 0 when there is none                  *)

Fetch(c, p) ==
    /\ position[c][p] # -1
    /\ Begin(c, "fetch", p, 0, 0)
    /\ UNCHANGED <<table, disk, offsets, client, produced, acked>>

\* ReadZeroCopy from the requested offset.
FetchRead(c) ==
    LET p == job[c].part
        wanted == {r \in OnDisk(p) : /\ r.offset >= position[c][p]
                                     /\ r.offset < position[c][p] + MaxFetch} IN
    /\ pc[c] = "read"
    /\ \/ /\ job' = [job EXCEPT ![c].got = {r.offset : r \in wanted}]
          /\ pc' = [pc EXCEPT ![c] = "hw"]
       \/ "read" \in Faults /\ pc' = [pc EXCEPT ![c] = "error"] /\ UNCHANGED job
    /\ UNCHANGED <<table, disk, offsets, client, produced, acked>>

\* The LEO read after it is the high watermark of the answer.
HighWatermarkMutant(c) == logs[job[c].part][job[c].log] - 1
HighWatermark(c) == logs[job[c].part][job[c].log]
FetchHighWatermark(c) ==
    /\ pc[c] = "hw"
    /\ job' = [job EXCEPT ![c].hw = HighWatermark(c)]
    /\ pc' = [pc EXCEPT ![c] = "respond"]
    /\ UNCHANGED <<table, disk, offsets, client, produced, acked>>

RespondFetch(c) ==
    LET p == job[c].part IN
    /\ pc[c] = "respond" /\ job[c].api = "fetch"
    /\ delivered' = [delivered EXCEPT ![p] = @ \cup job[c].got]
    /\ position' = [position EXCEPT ![c][p] = @ + Cardinality(job[c].got)]
    /\ pc' = [pc EXCEPT ![c] = "idle"] /\ job' = [job EXCEPT ![c] = NoJob]
    /\ UNCHANGED <<table, disk, offsets, produced, acked>>

\* CommitOffset overwrites whatever another member committed.
CommitOffset(p, o) == offsets' = [offsets EXCEPT ![p] = o]
OffsetCommit(c, p) ==
    /\ pc[c] = "idle" /\ position[c][p] # -1 /\ authorizeTopic(p)
    /\ CommitOffset(p, position[c][p])
    /\ UNCHANGED <<pc, job, table, disk, client, produced, acked>>

FetchOffsetMutant(p) == offsets[p] + 1
FetchOffset(p) == offsets[p]
OffsetFetch(c, p) ==
    /\ pc[c] = "idle"
    /\ position' = [position EXCEPT ![c][p] = IF FetchOffset(p) = -1 THEN 0 ELSE FetchOffset(p)]
    /\ UNCHANGED <<pc, job, table, disk, offsets, delivered, produced, acked>>
-------------------------------------------------------------------------------
HandlerStep(c) ==
    \/ Lookup(c) \/ Create(c) \/ RespondError(c)
    \/ AppendNext(c) \/ AppendDone(c) \/ RespondProduce(c)
    \/ FetchRead(c) \/ FetchHighWatermark(c) \/ RespondFetch(c)

ClientStep(c) ==
    \/ Accept(c) \/ Disconnect(c)
    \/ \E p \in Partitions, n \in 1..MaxRecords : Produce(c, p, n)
    \/ \E p \in Consumed : Fetch(c, p) \/ OffsetCommit(c, p) \/ OffsetFetch(c, p)

Next == Restart \/ \E c \in Connections : HandlerStep(c) \/ ClientStep(c)

Spec == Init /\ [][Next]_vars
-------------------------------------------------------------------------------
\* Two handlers that create a partition, or append to it, at the same time never
\* give one offset to two records: the log in the table is the only one on its
\* directory (getOrCreatePartitionLog, PartitionLog.Append).
OffsetsNeverShared ==
    \A p \in Partitions : \A i, j \in 1..Len(disk[p]) : Offset(p, i) = Offset(p, j) => i = j

\* However many clients name new topics at once, the broker creates no more
\* partitions than it may (getOrCreatePartitionLog).
PartitionsCapped == MaxPartitions > 0 => Cardinality(InTable) <= MaxPartitions

\* A produce answer without an error names the offset of the first record of its
\* batch, and the records appended for it are in the log behind it, in order,
\* whatever other producers appended in between and wherever an append failed
\* (handleProduce).
AckNamesBatch ==
    \A a \in acked : \A i \in 1..a.n :
        \E r \in OnDisk(a.part) :
            /\ r.req = a.req /\ r.no = i
            /\ i = 1 => r.offset = a.base
            /\ \A q \in OnDisk(a.part) : q.req = a.req /\ q.no < i => q.offset < r.offset

\* The high watermark of a fetch answer lies above every record in it, although
\* it is read after the records without a lock in between (handleFetch).
HighWatermarkCovers ==
    \A c \in Connections :
        pc[c] = "respond" /\ job[c].api = "fetch" => \A o \in job[c].got : o < job[c].hw

\* At least once: every record below the committed offset has reached the group,
\* over consumers that come and go, late commits and restarts (handleOffsetCommit,
\* handleOffsetFetch, handleFetch).
CommittedWasDelivered ==
    \A p \in Consumed : \A o \in 0..(offsets[p] - 1) : o \in delivered[p]
===============================================================================
