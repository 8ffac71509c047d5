----------------------------- MODULE BrokerProofs -----------------------------
(***************************************************************************)
(* Proofs about Broker, for any number of connections and partitions, any  *)
(* ACL rules, limits, bounds and faults.                                   *)
(*                                                                         *)
(* Every property rests on OneLog: the check under the write lock leaves   *)
(* at most one log per directory, whose next offset is the number of       *)
(* records there, over restarts too.  With it the offsets on disk are the  *)
(* positions (InOrder), a fetched range stays below the log end            *)
(* (FetchedBy), a batch keeps its order among those of other producers     *)
(* (Batches), and a consumer's position never leaves out a record          *)
(* (ConsumedBy).                                                           *)
(***************************************************************************)
EXTENDS Broker, FiniteSetTheorems, SequenceTheorems, TLAPS

Places == {"none", "idle", "lookup", "create", "error", "append", "read", "hw", "respond"}
OnDiskRecord == [offset : Nat, req : Nat, no : Nat]
Ack == [part : Partitions, req : Nat, n : Nat, base : Int]
Job == [api : {"none", "produce", "fetch"}, part : Partitions \cup {0}, req : Nat, n : Nat,
        sent : Nat, first : Int, log : Nat, got : SUBSET Nat, hw : Int]

TypeOK ==
    /\ pc \in [Connections -> Places] /\ job \in [Connections -> Job]
    /\ partitions \in [Partitions -> Nat] /\ logs \in [Partitions -> Seq(Nat)]
    /\ disk \in [Partitions -> Seq(OnDiskRecord)]
    /\ offsets \in [Consumed -> Int]
    /\ position \in [Connections -> [Consumed -> Int]]
    /\ delivered \in [Consumed -> SUBSET Nat]
    /\ produced \in Nat /\ acked \subseteq Ack

\* The log in the table is the only one on its directory and counts its records.
OneLog ==
    \A p \in Partitions :
        /\ Len(logs[p]) = partitions[p] /\ partitions[p] \in {0, 1}
        /\ partitions[p] = 1 => logs[p][1] = Len(disk[p])

\* A record's offset is its position in the directory.
InOrder == \A p \in Partitions : \A i \in 1..Len(disk[p]) : disk[p][i].offset = i - 1

\* What a handler serves, and the log it has, fit where it is.
ServingBy(c) ==
    /\ job[c].api = "none" <=> pc[c] \in {"none", "idle"}
    /\ job[c].api # "none" => job[c].part \in Partitions
    /\ job[c].api = "fetch" => job[c].part \in Consumed
    /\ pc[c] = "append" => job[c].api = "produce"
    /\ pc[c] \in {"read", "hw"} => job[c].api = "fetch"
    /\ pc[c] \in {"lookup", "create"} => job[c].sent = 0 /\ job[c].first = -1
    /\ pc[c] \in {"append", "read", "hw"} => job[c].log = 1 /\ partitions[job[c].part] = 1

\* The first n records of request req are in partition p, in order, from base.
Batch(p, req, n, base) ==
    \A i \in 1..n :
        \E r \in OnDisk(p) :
            /\ r.req = req /\ r.no = i
            /\ i = 1 => r.offset = base
            /\ \A q \in OnDisk(p) : q.req = req /\ q.no < i => q.offset < r.offset

\* A handler has written the first records of its request and no others.
WrittenBy(c) ==
    job[c].api = "produce" =>
        /\ \A r \in OnDisk(job[c].part) : r.req = job[c].req => r.no <= job[c].sent
        /\ Batch(job[c].part, job[c].req, job[c].sent, job[c].first)
        /\ pc[c] = "append" => (job[c].sent = 0 <=> job[c].first = -1)

\* A produce request has one number, and one handler until it is answered.
Numbered ==
    /\ \A p \in Partitions : \A r \in OnDisk(p) : r.req <= produced
    /\ \A a \in acked : a.req <= produced
    /\ \A c \in Connections : job[c].api = "produce" =>
        /\ job[c].req <= produced
        /\ \A a \in acked : a.req # job[c].req
        /\ \A d \in Connections \ {c} : job[d].api = "produce" => job[d].req # job[c].req

Batches ==
    /\ Numbered
    /\ \A a \in acked : Batch(a.part, a.req, a.n, a.base)
    /\ \A c \in Connections : WrittenBy(c)

\* What a fetch has read starts at the consumer's position, has no holes and
\* ends below the log end.
FetchedBy(c) ==
    job[c].api = "fetch" /\ pc[c] \in {"hw", "respond"} =>
        LET start == position[c][job[c].part] IN
        /\ \E k \in Nat : job[c].got = start..(start + k - 1)
        /\ pc[c] = "hw" => \A o \in job[c].got : o < Len(disk[job[c].part])
        /\ pc[c] = "respond" => \A o \in job[c].got : o < job[c].hw

\* Everything below a position has been delivered.
ConsumedBy(c) ==
    \A p \in Consumed :
        /\ position[c][p] >= -1
        /\ \A o \in 0..(position[c][p] - 1) : o \in delivered[p]
        /\ job[c].api = "fetch" /\ job[c].part = p => position[c][p] >= 0

\* ... and everything below a committed offset.
Committed ==
    \A p \in Consumed : offsets[p] >= -1 /\ \A o \in 0..(offsets[p] - 1) : o \in delivered[p]

Handlers == \A c \in Connections : ServingBy(c) /\ FetchedBy(c) /\ ConsumedBy(c)

IInv == TypeOK /\ OneLog /\ InOrder /\ PartitionsCapped /\ Handlers /\ Batches /\ Committed
-------------------------------------------------------------------------------
LEMMA NoJobTyped == NoJob \in Job /\ NoJob.api = "none"
  BY DEF NoJob, Job

\* The request a handler is given.
NewJob(api, p, req, n) == [NoJob EXCEPT !.api = api, !.part = p, !.req = req, !.n = n]

LEMMA NewJobFields ==
    ASSUME NEW api \in {"produce", "fetch"}, NEW p \in Partitions, NEW req \in Nat, NEW n \in Nat
    PROVE  /\ NewJob(api, p, req, n) \in Job
           /\ NewJob(api, p, req, n).api = api /\ NewJob(api, p, req, n).part = p
           /\ NewJob(api, p, req, n).req = req
           /\ NewJob(api, p, req, n).sent = 0 /\ NewJob(api, p, req, n).first = -1
<1> DEFINE Rec(a, q, r, m) == [api |-> a, part |-> q, req |-> r, n |-> m, sent |-> 0,
                               first |-> -1, log |-> 0, got |-> {}, hw |-> 0]
           new == Rec(api, p, req, n)
<1>1. NewJob(api, p, req, n) = new
  <2>1. [NoJob EXCEPT !.api = api] = Rec(api, 0, 0, 0)
    BY DEF NoJob
  <2>2. [Rec(api, 0, 0, 0) EXCEPT !.part = p] = Rec(api, p, 0, 0)
    OBVIOUS
  <2>3. [Rec(api, p, 0, 0) EXCEPT !.req = req] = Rec(api, p, req, 0)
    OBVIOUS
  <2>4. [Rec(api, p, req, 0) EXCEPT !.n = n] = new
    OBVIOUS
  <2> HIDE DEF Rec
  <2> QED
    BY <2>1, <2>2, <2>3, <2>4 DEF NewJob
<1>2. new \in Job
  BY DEF Job
<1>3. /\ new.api = api /\ new.part = p /\ new.req = req /\ new.n = n
      /\ new.sent = 0 /\ new.first = -1
  OBVIOUS
<1> HIDE DEF new
<1> QED
  BY <1>1, <1>2, <1>3

LEMMA JobFields ==
    ASSUME TypeOK, NEW c \in Connections
    PROVE  /\ job[c] \in Job /\ job[c].api \in {"none", "produce", "fetch"}
           /\ job[c].req \in Nat /\ job[c].n \in Nat /\ job[c].sent \in Nat /\ job[c].first \in Int
           /\ job[c].log \in Nat /\ job[c].got \in SUBSET Nat /\ job[c].hw \in Int
           /\ pc[c] \in Places
  BY DEF TypeOK, Job

\* One field of a request changes.
LEMMA JobUpdate ==
    ASSUME NEW j \in Job
    PROVE  /\ \A l \in Nat : [j EXCEPT !.log = l] \in Job
           /\ \A f \in Int : [j EXCEPT !.first = f] \in Job
           /\ \A g \in SUBSET Nat : [j EXCEPT !.got = g] \in Job
           /\ \A h \in Int : [j EXCEPT !.hw = h] \in Job
           /\ \A f \in Int, n \in Nat : [j EXCEPT !.sent = n, !.first = f] \in Job
  BY DEF Job

\* The types, after a step of one handler.
LEMMA HandlerTyped ==
    ASSUME TypeOK, NEW c \in Connections, NEW j \in Job, NEW at \in Places,
           job' = [job EXCEPT ![c] = j], pc' = [pc EXCEPT ![c] = at]
    PROVE  /\ job' \in [Connections -> Job] /\ pc' \in [Connections -> Places]
           /\ job'[c] = j /\ pc'[c] = at
           /\ \A d \in Connections \ {c} : job'[d] = job[d] /\ pc'[d] = pc[d]
  BY DEF TypeOK

LEMMA InitInv == Init => IInv
<1> SUFFICES ASSUME Init PROVE IInv
  OBVIOUS
<1> USE ConstantsAssumption
<1>1. TypeOK
  BY NoJobTyped DEF Init, TypeOK, Places, NoOffsets
<1>2. OneLog /\ InOrder
  BY DEF Init, OneLog, InOrder
<1>3. \A p \in Partitions : OnDisk(p) = {}
  BY DEF Init, OnDisk
<1>4. Batches
  BY <1>3, NoJobTyped DEF Init, Batches, Numbered, WrittenBy
<1>5. Handlers /\ Committed
  BY NoJobTyped DEF Init, Handlers, ServingBy, FetchedBy, ConsumedBy, Committed, NoOffsets
<1>6. PartitionsCapped
  <2>1. InTable = {}
    BY DEF Init, InTable
  <2> QED
    BY <2>1, FS_EmptySet DEF PartitionsCapped
<1> QED
  BY <1>1, <1>2, <1>4, <1>5, <1>6 DEF IInv
-------------------------------------------------------------------------------
(* A step of one handler *)

HandlerOnly(c) ==
    \A d \in Connections \ {c} : pc'[d] = pc[d] /\ job'[d] = job[d] /\ position'[d] = position[d]

\* What the other handlers rely on only grows.
LEMMA HandlerInv ==
    ASSUME IInv, NEW c \in Connections, HandlerOnly(c),
           TypeOK', OneLog', InOrder', PartitionsCapped', Batches', Committed',
           \A p \in Partitions : partitions[p] = 1 => partitions'[p] = 1,
           \A p \in Partitions : Len(disk'[p]) >= Len(disk[p]),
           \A p \in Consumed : delivered[p] \subseteq delivered'[p],
           ServingBy(c)', FetchedBy(c)', ConsumedBy(c)'
    PROVE  IInv'
<1>1. ASSUME NEW d \in Connections \ {c} PROVE ServingBy(d)' /\ FetchedBy(d)' /\ ConsumedBy(d)'
  <2>1. pc'[d] = pc[d] /\ job'[d] = job[d] /\ position'[d] = position[d]
    BY DEF HandlerOnly
  <2>2. ServingBy(d) /\ FetchedBy(d) /\ ConsumedBy(d)
    BY DEF IInv, Handlers
  <2>3. ServingBy(d)'
    BY <2>1, <2>2 DEF ServingBy
  <2>4. ConsumedBy(d)'
    BY <2>1, <2>2 DEF ConsumedBy
  <2>5. FetchedBy(d)'
    <3> SUFFICES ASSUME job[d].api = "fetch", pc[d] \in {"hw", "respond"} PROVE FetchedBy(d)'
      BY <2>1 DEF FetchedBy
    <3> DEFINE start == position[d][job[d].part]
    <3>1. PICK k \in Nat : job[d].got = start..(start + k - 1)
      BY <2>2 DEF FetchedBy
    <3>2. job[d].part \in Partitions /\ job[d].got \in SUBSET Nat
      BY <2>2, JobFields DEF ServingBy, IInv
    <3>3. Len(disk[job[d].part]) \in Nat /\ Len(disk'[job[d].part]) \in Nat
      BY <3>2 DEF IInv, TypeOK
    <3>4. pc[d] = "hw" => \A o \in job[d].got : o < Len(disk'[job[d].part])
      BY <2>2, <3>2, <3>3 DEF FetchedBy
    <3>5. pc[d] = "respond" => \A o \in job[d].got : o < job[d].hw
      BY <2>2 DEF FetchedBy
    <3> QED
      BY <2>1, <3>1, <3>4, <3>5 DEF FetchedBy
  <2> QED
    BY <2>3, <2>4, <2>5
<1> QED
  BY <1>1 DEF IInv, Handlers

\* A handler that writes nothing leaves the batches as they are.
LEMMA BatchesKept ==
    ASSUME IInv, NEW c \in Connections, HandlerOnly(c), UNCHANGED <<disk, produced, acked>>,
           job'[c].api # "none" => job'[c].api = job[c].api /\ job'[c].part = job[c].part,
           job'[c].api = "produce" =>
                /\ job'[c].req = job[c].req /\ job'[c].sent = job[c].sent
                /\ job'[c].sent = 0 \/ job'[c].first = job[c].first
                /\ pc'[c] = "append" => (job'[c].sent = 0 <=> job'[c].first = -1)
    PROVE  Batches'
<1>5. \A p : OnDisk(p)' = OnDisk(p)
  BY DEF OnDisk
<1>6. \A p, r, n, b : Batch(p, r, n, b)' <=> Batch(p, r, n, b)
  BY <1>5 DEF Batch
<1>7. \A d \in Connections \ {c} : job'[d] = job[d] /\ pc'[d] = pc[d]
  BY DEF HandlerOnly
<1>8. Numbered'
  BY <1>5, <1>7 DEF IInv, Batches, Numbered
<1>9. \A d \in Connections \ {c} : WrittenBy(d)'
  BY <1>5, <1>6, <1>7 DEF IInv, Batches, WrittenBy
<1>10. WrittenBy(c)'
  <2> SUFFICES ASSUME job'[c].api = "produce" PROVE WrittenBy(c)'
    BY DEF WrittenBy
  <2>1. job[c].api = "produce" /\ job'[c].part = job[c].part /\ WrittenBy(c)
    BY DEF IInv, Batches
  <2>2. Batch(job[c].part, job[c].req, job[c].sent, job'[c].first)
    <3>1. CASE job'[c].sent = 0
      BY <3>1 DEF Batch
    <3>2. CASE job'[c].first = job[c].first
      BY <2>1, <3>2 DEF WrittenBy
    <3> QED
      BY <3>1, <3>2
  <2> QED
    BY <1>5, <1>6, <2>1, <2>2 DEF WrittenBy
<1> QED
  BY <1>6, <1>8, <1>9, <1>10 DEF IInv, Batches

\* A step that leaves the table, the files and the clients alone.
Quiet(c) ==
    /\ HandlerOnly(c)
    /\ UNCHANGED <<partitions, logs, disk, offsets, position, delivered, produced, acked>>

LEMMA QuietInv ==
    ASSUME IInv, NEW c \in Connections, Quiet(c), TypeOK', ServingBy(c)', FetchedBy(c)',
           job'[c].api # "none" => job'[c].api = job[c].api /\ job'[c].part = job[c].part,
           job'[c].api = "produce" =>
                /\ job'[c].req = job[c].req /\ job'[c].sent = job[c].sent
                /\ job'[c].sent = 0 \/ job'[c].first = job[c].first
                /\ pc'[c] = "append" => (job'[c].sent = 0 <=> job'[c].first = -1)
    PROVE  IInv'
<1>1. UNCHANGED <<partitions, logs, disk, offsets, position, delivered, produced, acked>> /\ HandlerOnly(c)
  BY DEF Quiet
<1>2. OneLog' /\ InOrder' /\ PartitionsCapped' /\ Committed'
  BY <1>1 DEF IInv, OneLog, InOrder, PartitionsCapped, InTable, Committed
<1>3. /\ \A p \in Partitions : Len(disk'[p]) >= Len(disk[p])
      /\ \A p \in Consumed : delivered[p] \subseteq delivered'[p]
      /\ \A p \in Partitions : partitions[p] = 1 => partitions'[p] = 1
  BY <1>1 DEF IInv, TypeOK
<1>4. ConsumedBy(c)'
  BY <1>1 DEF IInv, Handlers, ConsumedBy
<1>5. Batches'
  BY <1>1, BatchesKept
<1> QED
  BY <1>1, <1>2, <1>3, <1>4, <1>5, HandlerInv
-------------------------------------------------------------------------------
(* Connections, lookups and errors *)

LEMMA AcceptInv == ASSUME IInv, NEW c \in Connections, Accept(c) PROVE IInv'
<1>1. /\ Quiet(c) /\ UNCHANGED job /\ pc[c] = "none" /\ pc' = [pc EXCEPT ![c] = "idle"]
      /\ pc'[c] = "idle"
  BY DEF Accept, Quiet, HandlerOnly, table, client, IInv, TypeOK
<1>2. TypeOK'
  BY <1>1 DEF IInv, TypeOK, Quiet, Places
<1>3. job'[c].api = "none"
  BY <1>1 DEF IInv, Handlers, ServingBy
<1>4. ServingBy(c)' /\ FetchedBy(c)'
  BY <1>1, <1>3 DEF ServingBy, FetchedBy
<1> QED
  BY <1>1, <1>2, <1>3, <1>4, QuietInv

\* A handler that is done with its request.
LEMMA ForgetInv ==
    ASSUME IInv, NEW c \in Connections, Quiet(c), pc'[c] = "idle",
           pc' = [pc EXCEPT ![c] = "idle"], job' = [job EXCEPT ![c] = NoJob]
    PROVE  IInv'
<1>1. job'[c] = NoJob /\ job'[c].api = "none" /\ TypeOK'
  BY NoJobTyped DEF IInv, TypeOK, Quiet, Places
<1>2. ServingBy(c)' /\ FetchedBy(c)'
  BY <1>1 DEF ServingBy, FetchedBy
<1> QED
  BY <1>1, <1>2, QuietInv

LEMMA RespondErrorInv == ASSUME IInv, NEW c \in Connections, RespondError(c) PROVE IInv'
<1>1. /\ Quiet(c) /\ pc'[c] = "idle"
      /\ pc' = [pc EXCEPT ![c] = "idle"] /\ job' = [job EXCEPT ![c] = NoJob]
  BY DEF RespondError, Quiet, HandlerOnly, table, client, IInv, TypeOK
<1> QED
  BY <1>1, ForgetInv

\* A handler that fails answers with an error.
LEMMA ErrorInv ==
    ASSUME IInv, NEW c \in Connections, Quiet(c), pc[c] \in {"create", "read"},
           pc' = [pc EXCEPT ![c] = "error"], UNCHANGED job
    PROVE  IInv'
<1>1. TypeOK' /\ pc'[c] = "error" /\ job'[c] = job[c]
  BY DEF IInv, TypeOK, Quiet, Places
<1>2. ServingBy(c)' /\ FetchedBy(c)'
  BY <1>1 DEF IInv, Handlers, ServingBy, FetchedBy, Quiet
<1> QED
  BY <1>1, <1>2, QuietInv

\* A handler that has found the log in the table goes on with it.
LEMMA FoundInv ==
    ASSUME IInv, NEW c \in Connections, Quiet(c), pc[c] \in {"lookup", "create"},
           partitions[job[c].part] # 0, Opened(c, partitions[job[c].part])
    PROVE  IInv'
<1>1. job[c].part \in Partitions /\ ServingBy(c)
  BY DEF IInv, Handlers, ServingBy
<1>2. partitions[job[c].part] = 1
  BY <1>1 DEF IInv, OneLog
<1> DEFINE at == IF job[c].api = "produce" THEN "append" ELSE "read"
           j  == [job[c] EXCEPT !.log = 1]
<1>3. job' = [job EXCEPT ![c] = j] /\ pc' = [pc EXCEPT ![c] = at] /\ j \in Job /\ at \in Places
  BY <1>2, JobFields, JobUpdate DEF Opened, Places, IInv
<1> HIDE DEF at, j
<1>4. job'[c] = [job[c] EXCEPT !.log = 1] /\ pc'[c] = at /\ TypeOK'
  BY <1>3, HandlerTyped DEF IInv, TypeOK, Quiet, j
<1> USE DEF at
<1>5. /\ job'[c].log = 1 /\ job'[c].api = job[c].api /\ job'[c].part = job[c].part
      /\ job'[c].req = job[c].req /\ job'[c].sent = job[c].sent /\ job'[c].first = job[c].first
  BY <1>4, JobFields DEF Job, IInv
<1>6. ServingBy(c)' /\ FetchedBy(c)'
  BY <1>1, <1>2, <1>4, <1>5, JobFields DEF ServingBy, FetchedBy, Quiet, IInv
<1> QED
  BY <1>1, <1>4, <1>5, <1>6, QuietInv DEF ServingBy

LEMMA LookupInv == ASSUME IInv, NEW c \in Connections, Lookup(c) PROVE IInv'
<1>1. pc[c] = "lookup" /\ Quiet(c)
  BY DEF Lookup, Opened, Quiet, HandlerOnly, table, client, IInv, TypeOK
<1>2. CASE partitions[job[c].part] # 0 /\ Opened(c, partitions[job[c].part])
  BY <1>1, <1>2, FoundInv
<1>3. CASE pc' = [pc EXCEPT ![c] = "create"] /\ UNCHANGED job
  <2>1. TypeOK' /\ pc'[c] = "create" /\ job'[c] = job[c]
    BY <1>1, <1>3 DEF IInv, TypeOK, Quiet, Places
  <2>2. ServingBy(c)' /\ FetchedBy(c)'
    BY <1>1, <2>1 DEF IInv, Handlers, ServingBy, FetchedBy, Quiet
  <2> QED
    BY <1>1, <2>1, <2>2, QuietInv
<1> QED
  BY <1>2, <1>3 DEF Lookup

\* A new log counts the records of the directory, and the table stays below
\* the cap.
LEMMA CreateInv == ASSUME IInv, NEW c \in Connections, Create(c) PROVE IInv'
<1> DEFINE p == job[c].part
<1>1. pc[c] = "create" /\ p \in Partitions /\ ServingBy(c)
  BY DEF Create, IInv, Handlers, ServingBy
<1>2. CASE FoundAgain(p) /\ Opened(c, partitions[p]) /\ UNCHANGED table
  <2>1. Quiet(c)
    BY <1>2 DEF Create, Opened, Quiet, HandlerOnly, table, client, IInv, TypeOK
  <2> QED
    BY <1>1, <1>2, <2>1, FoundInv DEF FoundAgain
<1>3. CASE pc' = [pc EXCEPT ![c] = "error"] /\ UNCHANGED <<job, table>>
  <2>1. Quiet(c)
    BY <1>3 DEF Create, Quiet, HandlerOnly, table, client, IInv, TypeOK
  <2> QED
    BY <1>1, <1>3, <2>1, ErrorInv
<1>4. CASE /\ ~FoundAgain(p) /\ ~AtCap
           /\ logs' = [logs EXCEPT ![p] = Append(@, Len(disk[p]))]
           /\ partitions' = [partitions EXCEPT ![p] = Len(logs[p]) + 1]
           /\ Opened(c, Len(logs[p]) + 1)
  <2>1. partitions[p] = 0 /\ Len(logs[p]) = 0 /\ logs[p] = <<>>
    BY <1>1, <1>4 DEF FoundAgain, IInv, OneLog, TypeOK
  <2>2. Len(disk[p]) \in Nat
    BY <1>1 DEF IInv, TypeOK
  <2>3. /\ logs' = [logs EXCEPT ![p] = <<Len(disk[p])>>]
        /\ partitions' = [partitions EXCEPT ![p] = 1]
        /\ UNCHANGED <<disk, offsets, position, delivered, produced, acked>>
    BY <1>4, <2>1, <2>2 DEF Create, client
  <2> DEFINE at == IF job[c].api = "produce" THEN "append" ELSE "read"
             j  == [job[c] EXCEPT !.log = 1]
  <2>a. job' = [job EXCEPT ![c] = j] /\ pc' = [pc EXCEPT ![c] = at] /\ j \in Job /\ at \in Places
    <3>1. Len(logs[p]) + 1 = 1 /\ Opened(c, Len(logs[p]) + 1)
      BY <1>4, <2>1
    <3>2. job' = [job EXCEPT ![c].log = 1] /\ pc' = [pc EXCEPT ![c] = at]
      BY <3>1 DEF Opened
    <3> QED
      BY <3>2, JobFields, JobUpdate DEF Places, IInv
  <2> HIDE DEF at, j
  <2>4. /\ job'[c] = [job[c] EXCEPT !.log = 1] /\ pc'[c] = at
        /\ \A d \in Connections \ {c} : job'[d] = job[d] /\ pc'[d] = pc[d]
        /\ job' \in [Connections -> Job] /\ pc' \in [Connections -> Places]
    BY <2>a, HandlerTyped DEF IInv, j
  <2> USE DEF at
  <2>5. TypeOK'
    <3>1. <<Len(disk[p])>> \in Seq(Nat)
      BY <2>2
    <3>2. logs' \in [Partitions -> Seq(Nat)] /\ partitions' \in [Partitions -> Nat]
      BY <2>3, <3>1 DEF IInv, TypeOK
    <3> QED
      BY <2>3, <2>4, <3>2 DEF IInv, TypeOK
  <2>6. /\ job'[c].log = 1 /\ job'[c].api = job[c].api /\ job'[c].part = job[c].part
        /\ job'[c].req = job[c].req /\ job'[c].sent = job[c].sent /\ job'[c].first = job[c].first
    BY <2>4, JobFields DEF Job, IInv
  <2>7. /\ partitions'[p] = 1 /\ \A q \in Partitions \ {p} : partitions'[q] = partitions[q]
        /\ logs'[p] = <<Len(disk[p])>> /\ \A q \in Partitions \ {p} : logs'[q] = logs[q]
    BY <1>1, <2>3 DEF IInv, TypeOK
  <2>8. OneLog' /\ InOrder' /\ Committed'
    BY <2>3, <2>7 DEF IInv, OneLog, InOrder, Committed
  <2>9. ServingBy(c)' /\ FetchedBy(c)' /\ ConsumedBy(c)'
    BY <1>1, <2>3, <2>4, <2>6, <2>7, JobFields
       DEF ServingBy, FetchedBy, ConsumedBy, IInv, Handlers
  <2>10. PartitionsCapped'
    <3>1. InTable' = InTable \cup {p} /\ p \notin InTable
      BY <1>1, <2>1, <2>7 DEF InTable
    <3>2. IsFiniteSet(InTable)
      BY ConstantsAssumption, FS_Subset DEF InTable
    <3>3. Cardinality(InTable') = Cardinality(InTable) + 1 /\ Cardinality(InTable) \in Nat
      BY <3>1, <3>2, FS_AddElement, FS_CardinalityType
    <3> QED
      BY <1>4, <3>3, ConstantsAssumption DEF AtCap, PartitionsCapped
  <2>11. HandlerOnly(c)
    BY <2>3, <2>4 DEF HandlerOnly
  <2>12. Batches'
    BY <1>1, <2>3, <2>6, <2>11, BatchesKept DEF ServingBy
  <2>13. /\ \A q \in Partitions : partitions[q] = 1 => partitions'[q] = 1
         /\ \A q \in Partitions : Len(disk'[q]) >= Len(disk[q])
         /\ \A q \in Consumed : delivered[q] \subseteq delivered'[q]
    BY <2>3, <2>7 DEF IInv, TypeOK
  <2> QED
    BY <2>5, <2>8, <2>9, <2>10, <2>11, <2>12, <2>13, HandlerInv
<1> QED
  BY <1>2, <1>3, <1>4 DEF Create
-------------------------------------------------------------------------------
(* handleProduce *)

LEMMA AppendDoneInv == ASSUME IInv, NEW c \in Connections, AppendDone(c) PROVE IInv'
<1>1. /\ pc[c] = "append" /\ ServingBy(c) /\ job[c].api = "produce" /\ WrittenBy(c)
  BY DEF AppendDone, IInv, Handlers, ServingBy, Batches
<1> DEFINE base == IF job[c].first = -1 THEN 0 ELSE job[c].first
           j == [job[c] EXCEPT !.first = base]
<1>2. /\ pc' = [pc EXCEPT ![c] = "respond"] /\ job' = [job EXCEPT ![c] = j]
      /\ UNCHANGED <<partitions, logs, disk, offsets, position, delivered, produced, acked>>
  <2>1. job' = [job EXCEPT ![c] = j]
    BY DEF AppendDone
  <2> QED
    BY <2>1 DEF AppendDone, table, client
<1>j. j \in Job
  <2>1. base \in Int /\ job[c] \in Job
    BY JobFields DEF IInv
  <2> HIDE DEF base
  <2> QED
    BY <2>1, JobUpdate
<1> HIDE DEF j
<1>3. /\ job'[c] = j /\ pc'[c] = "respond" /\ HandlerOnly(c)
      /\ job' \in [Connections -> Job] /\ pc' \in [Connections -> Places]
  <2>1. "respond" \in Places /\ TypeOK
    BY DEF Places, IInv
  <2>2. UNCHANGED position
    BY <1>2
  <2> QED
    BY <1>2, <1>j, <2>1, <2>2, HandlerTyped DEF HandlerOnly
<1> USE DEF j
<1>4. /\ job'[c].api = "produce" /\ job'[c].part = job[c].part /\ job'[c].req = job[c].req
      /\ job'[c].sent = job[c].sent
      /\ job'[c].first = IF job[c].first = -1 THEN 0 ELSE job[c].first
  BY <1>1, <1>3, JobFields DEF Job, IInv
<1>5. TypeOK'
  BY <1>2, <1>3 DEF IInv, TypeOK
<1>6. ServingBy(c)' /\ FetchedBy(c)' /\ Quiet(c)
  BY <1>1, <1>2, <1>3, <1>4 DEF ServingBy, FetchedBy, Quiet
<1>7. job'[c].sent = 0 \/ job'[c].first = job[c].first
  BY <1>1, <1>4 DEF WrittenBy
<1> QED
  BY <1>1, <1>3, <1>4, <1>5, <1>6, <1>7, QuietInv

\* The offsets in a directory are the numbers below the log end.
LEMMA DiskOffsets ==
    ASSUME IInv, NEW p \in Partitions
    PROVE  /\ Len(disk[p]) \in Nat
           /\ \A r \in OnDisk(p) : r \in OnDiskRecord /\ r.offset \in 0..(Len(disk[p]) - 1)
           /\ \A o \in 0..(Len(disk[p]) - 1) : \E r \in OnDisk(p) : r.offset = o
<1>1. disk[p] \in Seq(OnDiskRecord) /\ Len(disk[p]) \in Nat
  BY DEF IInv, TypeOK
<1>2. \A i \in 1..Len(disk[p]) : disk[p][i] \in OnDiskRecord /\ disk[p][i].offset = i - 1
  BY <1>1 DEF IInv, InOrder
<1>3. ASSUME NEW r \in OnDisk(p) PROVE r \in OnDiskRecord /\ r.offset \in 0..(Len(disk[p]) - 1)
  BY <1>1, <1>2 DEF OnDisk
<1>4. ASSUME NEW o \in 0..(Len(disk[p]) - 1) PROVE \E r \in OnDisk(p) : r.offset = o
  <2>1. o + 1 \in 1..Len(disk[p]) /\ disk[p][o + 1] \in OnDisk(p)
    BY <1>1 DEF OnDisk
  <2> QED
    BY <1>2, <2>1
<1> QED
  BY <1>1, <1>3, <1>4

LEMMA AppendNextInv == ASSUME IInv, NEW c \in Connections, AppendNext(c) PROVE IInv'
<1>1. /\ pc[c] = "append" /\ ServingBy(c) /\ job[c].api = "produce" /\ job[c].part \in Partitions
      /\ WrittenBy(c) /\ job[c].log = 1 /\ partitions[job[c].part] = 1
  BY DEF AppendNext, IInv, Handlers, ServingBy, Batches
<1>p. PICK p \in Partitions : p = job[c].part
  BY <1>1
<1>o. PICK o \in Nat : o = Len(disk[p])
  BY DEF IInv, TypeOK
<1>r. PICK req \in Nat, sent \in Nat, base \in Int :
        req = job[c].req /\ sent = job[c].sent /\ base = First(c, o)
  BY JobFields DEF First, IInv
<1> DEFINE j   == [job[c] EXCEPT !.sent = sent + 1, !.first = base]
           new == [offset |-> o, req |-> req, no |-> sent + 1]
<1>2. /\ logs[p] \in Seq(Nat) /\ Len(logs[p]) = 1 /\ logs[p][1] = o /\ disk[p] \in Seq(OnDiskRecord)
  BY <1>1, <1>p, <1>o DEF IInv, TypeOK, OneLog
<1>3. /\ disk' = [disk EXCEPT ![p] = Append(disk[p], new)]
      /\ logs' = [logs EXCEPT ![p] = [logs[p] EXCEPT ![1] = o + 1]]
      /\ UNCHANGED <<pc, partitions, offsets, position, delivered, produced, acked>>
  BY <1>1, <1>p, <1>r, <1>2 DEF AppendNext, client
<1>4. job' = [job EXCEPT ![c] = j]
  BY <1>1, <1>p, <1>r, <1>2 DEF AppendNext
<1>5. job[c] \in Job /\ job[c].first \in Int /\ sent + 1 \in Nat
  BY JobFields DEF IInv
<1>6. j \in Job
  BY <1>5, JobUpdate
<1>7. /\ j.api = "produce" /\ j.part = p /\ j.req = req /\ j.sent = sent + 1
      /\ j.first = base /\ j.log = 1
  BY <1>1, <1>p, <1>r, <1>5 DEF Job
<1>8. new \in OnDiskRecord /\ new.offset = o /\ new.req = req /\ new.no = sent + 1
  BY DEF OnDiskRecord
<1> HIDE DEF j, new
<1>9. /\ job'[c] = j /\ job' \in [Connections -> Job] /\ pc'[c] = "append"
      /\ \A d \in Connections \ {c} : job'[d] = job[d]
  BY <1>1, <1>3, <1>4, <1>6 DEF IInv, TypeOK
<1>10. /\ disk'[p] = Append(disk[p], new) /\ disk'[p] \in Seq(OnDiskRecord)
       /\ Len(disk'[p]) = o + 1 /\ disk'[p][o + 1] = new
       /\ \A i \in 1..o : disk'[p][i] = disk[p][i]
       /\ \A q \in Partitions \ {p} : disk'[q] = disk[q]
  BY <1>2, <1>3, <1>8, <1>o DEF IInv, TypeOK
<1>11. /\ logs'[p] \in Seq(Nat) /\ Len(logs'[p]) = 1 /\ logs'[p][1] = o + 1
       /\ \A q \in Partitions \ {p} : logs'[q] = logs[q]
  <2>1. /\ logs'[p] = [logs[p] EXCEPT ![1] = o + 1]
        /\ \A q \in Partitions \ {p} : logs'[q] = logs[q]
    BY <1>3 DEF IInv, TypeOK
  <2>2. 1 \in 1..Len(logs[p]) /\ o + 1 \in Nat
    BY <1>2
  <2> QED
    BY <1>2, <2>1, <2>2, ExceptSeq
<1>12. TypeOK'
  <2>1. logs' \in [Partitions -> Seq(Nat)]
    BY <1>3, <1>11 DEF IInv, TypeOK
  <2>2. disk' \in [Partitions -> Seq(OnDiskRecord)]
    BY <1>3, <1>10 DEF IInv, TypeOK
  <2> QED
    BY <1>3, <1>9, <2>1, <2>2 DEF IInv, TypeOK
<1>13. OneLog'
  BY <1>1, <1>3, <1>10, <1>11, SMTT(30) DEF IInv, OneLog
<1>14. InOrder'
  <2>1. \A i \in 1..(o + 1) : disk'[p][i].offset = i - 1
    BY <1>o, <1>8, <1>10 DEF IInv, InOrder
  <2> QED
    BY <1>10, <2>1, ZenonT(30) DEF IInv, InOrder
<1>15. PartitionsCapped' /\ Committed'
  BY <1>3 DEF IInv, PartitionsCapped, InTable, Committed
<1>16. /\ OnDisk(p)' = OnDisk(p) \cup {new}
       /\ \A q \in Partitions \ {p} : OnDisk(q)' = OnDisk(q)
       /\ \A r \in OnDisk(p) : r \in OnDiskRecord /\ r.offset < o
  <2>1. OnDisk(p)' = {disk'[p][i] : i \in 1..(o + 1)} /\ OnDisk(p) = {disk[p][i] : i \in 1..o}
    BY <1>o, <1>10 DEF OnDisk
  <2>2. OnDisk(p)' = OnDisk(p) \cup {new}
    BY <1>10, <2>1
  <2>3. \A q \in Partitions \ {p} : OnDisk(q)' = OnDisk(q)
    BY <1>10 DEF OnDisk
  <2> QED
    BY <1>o, <2>2, <2>3, DiskOffsets
<1>17. ASSUME NEW q \in Partitions, NEW rq \in Nat, NEW n \in Nat, NEW b, Batch(q, rq, n, b),
              q # p \/ rq # req
       PROVE  Batch(q, rq, n, b)'
  <2>1. CASE q # p
    BY <1>16, <1>17, <2>1 DEF Batch
  <2>2. CASE q = p
    BY <1>8, <1>16, <1>17, <2>2 DEF Batch
  <2> QED
    BY <2>1, <2>2
<1>18. Numbered'
  BY <1>1, <1>3, <1>r, <1>7, <1>8, <1>9, <1>16 DEF IInv, Batches, Numbered
<1>19. WrittenBy(c)'
  <2>1. \A r \in OnDisk(p)' : r.req = req => r.no <= sent + 1
    BY <1>1, <1>p, <1>r, <1>8, <1>16 DEF WrittenBy, OnDiskRecord
  <2>2. ASSUME NEW i \in 1..(sent + 1)
        PROVE  \E r \in OnDisk(p)' :
                  /\ r.req = req /\ r.no = i
                  /\ i = 1 => r.offset = base
                  /\ \A q \in OnDisk(p)' : q.req = req /\ q.no < i => q.offset < r.offset
    <3>1. CASE i = sent + 1
      <4>1. i = 1 => base = o
        BY <1>1, <1>r, <3>1 DEF First, WrittenBy
      <4> QED
        BY <1>8, <1>16, <3>1, <4>1
    <3>2. CASE i # sent + 1
      <4>1. i \in 1..sent /\ base = job[c].first
        BY <1>1, <1>r, <3>2 DEF First, WrittenBy
      <4>2. PICK r \in OnDisk(p) :
                  /\ r.req = req /\ r.no = i
                  /\ i = 1 => r.offset = base
                  /\ \A q \in OnDisk(p) : q.req = req /\ q.no < i => q.offset < r.offset
        BY <1>1, <1>p, <1>r, <4>1 DEF WrittenBy, Batch
      <4> QED
        BY <1>8, <1>16, <4>1, <4>2
    <3> QED
      BY <3>1, <3>2
  <2>3. Batch(p, req, sent + 1, base)'
    BY <2>2 DEF Batch
  <2>4. base # -1
    BY <1>r, <1>5 DEF First
  <2> QED
    BY <1>7, <1>9, <2>1, <2>3, <2>4 DEF WrittenBy
<1>20. \A d \in Connections \ {c} : WrittenBy(d)'
  <2> SUFFICES ASSUME NEW d \in Connections \ {c}, job[d].api = "produce" PROVE WrittenBy(d)'
    BY <1>9 DEF WrittenBy
  <2>1. WrittenBy(d) /\ job[d].part \in Partitions /\ job[d].req # req
    BY <1>1, <1>r DEF IInv, Batches, Numbered, Handlers, ServingBy
  <2>2. Batch(job[d].part, job[d].req, job[d].sent, job[d].first)'
    BY <1>9, <1>17, <2>1, JobFields DEF WrittenBy, IInv
  <2>3. \A r \in OnDisk(job[d].part)' : r.req = job[d].req => r.no <= job[d].sent
    BY <1>8, <1>9, <1>16, <2>1 DEF WrittenBy
  <2> QED
    BY <1>3, <1>9, <2>1, <2>2, <2>3 DEF WrittenBy
<1>21. \A a \in acked' : Batch(a.part, a.req, a.n, a.base)'
  <2>1. \A a \in acked : a.part \in Partitions /\ a.req \in Nat /\ a.n \in Nat /\ a.req # req
    BY <1>1, <1>r DEF IInv, TypeOK, Ack, Batches, Numbered
  <2> QED
    BY <1>3, <1>17, <2>1 DEF IInv, Batches
<1>22. Batches'
  BY <1>18, <1>19, <1>20, <1>21 DEF Batches
<1>23. ServingBy(c)' /\ FetchedBy(c)' /\ ConsumedBy(c)'
  BY <1>1, <1>p, <1>3, <1>7, <1>9 DEF ServingBy, FetchedBy, ConsumedBy, IInv, Handlers
<1>24. HandlerOnly(c) /\ \A q \in Partitions : Len(disk'[q]) >= Len(disk[q])
  BY <1>o, <1>3, <1>9, <1>10 DEF HandlerOnly, IInv, TypeOK
<1> QED
  BY <1>3, <1>12, <1>13, <1>14, <1>15, <1>22, <1>23, <1>24, HandlerInv

LEMMA RespondProduceInv == ASSUME IInv, NEW c \in Connections, RespondProduce(c) PROVE IInv'
<1> DEFINE a == [part |-> job[c].part, req |-> job[c].req, n |-> job[c].sent, base |-> job[c].first]
<1>1. /\ pc[c] = "respond" /\ job[c].api = "produce" /\ job[c].part \in Partitions /\ WrittenBy(c)
  BY DEF RespondProduce, IInv, Handlers, ServingBy, Batches
<1>2. /\ acked' = acked \cup {a}
      /\ pc' = [pc EXCEPT ![c] = "idle"] /\ job' = [job EXCEPT ![c] = NoJob]
      /\ UNCHANGED <<partitions, logs, disk, offsets, position, delivered, produced>>
  BY DEF RespondProduce, table, client
<1>3. a \in Ack /\ a.part = job[c].part /\ a.req = job[c].req /\ a.n = job[c].sent /\ a.base = job[c].first
  BY <1>1, JobFields DEF Ack, IInv
<1> HIDE DEF a
<1>4. /\ job'[c].api = "none" /\ pc'[c] = "idle"
      /\ \A d \in Connections \ {c} : job'[d] = job[d] /\ pc'[d] = pc[d]
      /\ job' \in [Connections -> Job] /\ pc' \in [Connections -> Places]
  <2>1. "idle" \in Places /\ TypeOK
    BY DEF Places, IInv
  <2> QED
    BY <1>2, <2>1, NoJobTyped, HandlerTyped
<1>5. TypeOK'
  BY <1>2, <1>3, <1>4 DEF IInv, TypeOK
<1>6. OneLog' /\ InOrder' /\ PartitionsCapped' /\ Committed'
  BY <1>2 DEF IInv, OneLog, InOrder, PartitionsCapped, InTable, Committed
<1>7. ServingBy(c)' /\ FetchedBy(c)' /\ ConsumedBy(c)'
  BY <1>2, <1>4 DEF ServingBy, FetchedBy, ConsumedBy, IInv, Handlers
<1>8. Batches'
  <2>1. \A p : OnDisk(p)' = OnDisk(p)
    BY <1>2 DEF OnDisk
  <2>2. \A p, r, n, b : Batch(p, r, n, b)' <=> Batch(p, r, n, b)
    BY <2>1 DEF Batch
  <2>3. Numbered'
    BY <1>1, <1>2, <1>3, <1>4, <2>1 DEF IInv, Batches, Numbered
  <2>4. \A d \in Connections : WrittenBy(d)'
    BY <1>4, <2>1, <2>2 DEF IInv, Batches, WrittenBy
  <2>5. Batch(a.part, a.req, a.n, a.base)
    BY <1>1, <1>3 DEF WrittenBy
  <2>6. \A b \in acked' : Batch(b.part, b.req, b.n, b.base)
    BY <1>2, <2>5 DEF IInv, Batches
  <2> QED
    BY <2>2, <2>3, <2>4, <2>6 DEF Batches
<1>9. /\ HandlerOnly(c)
      /\ \A p \in Partitions : partitions[p] = 1 => partitions'[p] = 1
      /\ \A p \in Partitions : Len(disk'[p]) >= Len(disk[p])
      /\ \A p \in Consumed : delivered[p] \subseteq delivered'[p]
  BY <1>2, <1>4 DEF HandlerOnly, IInv, TypeOK
<1> QED
  BY <1>5, <1>6, <1>7, <1>8, <1>9, HandlerInv

\* A new request has a number nobody used before.
LEMMA ProduceInv ==
    ASSUME IInv, NEW c \in Connections, NEW p \in Partitions, NEW n \in 1..MaxRecords, Produce(c, p, n)
    PROVE  IInv'
<1> DEFINE at == IF authorizeTopic(p) /\ isValidTopicName(p) THEN "lookup" ELSE "error"
<1>n. n \in Nat /\ n > 0 /\ produced \in Nat /\ produced + 1 \in Nat
  BY ConstantsAssumption DEF IInv, TypeOK
<1>j. PICK j : j = NewJob("produce", p, produced + 1, n)
  OBVIOUS
<1>1. /\ pc[c] = "idle" /\ job' = [job EXCEPT ![c] = j] /\ pc' = [pc EXCEPT ![c] = at]
      /\ produced' = produced + n /\ at \in {"lookup", "error"}
      /\ UNCHANGED <<partitions, logs, disk, offsets, position, delivered, acked>>
  BY <1>j DEF Produce, Begin, NewJob, table, client
<1>2. /\ j \in Job /\ j.api = "produce" /\ j.part = p /\ j.req = produced + 1
      /\ j.sent = 0 /\ j.first = -1
  BY <1>j, <1>n, NewJobFields
<1> HIDE DEF at
<1>3. /\ job'[c] = j /\ pc'[c] = at
      /\ \A d \in Connections \ {c} : job'[d] = job[d] /\ pc'[d] = pc[d]
      /\ job' \in [Connections -> Job] /\ pc' \in [Connections -> Places]
  <2>1. at \in Places /\ TypeOK
    BY <1>1 DEF Places, IInv
  <2> QED
    BY <1>1, <1>2, <2>1, HandlerTyped
<1>4. TypeOK'
  BY <1>1, <1>3, <1>n DEF IInv, TypeOK
<1>5. OneLog' /\ InOrder' /\ PartitionsCapped' /\ Committed'
  BY <1>1 DEF IInv, OneLog, InOrder, PartitionsCapped, InTable, Committed
<1>6. ServingBy(c)' /\ FetchedBy(c)' /\ ConsumedBy(c)'
  BY <1>1, <1>2, <1>3 DEF ServingBy, FetchedBy, ConsumedBy, IInv, Handlers
<1>7. Batches'
  <2>1. \A q : OnDisk(q)' = OnDisk(q)
    BY <1>1 DEF OnDisk
  <2>2. \A q, r, m, b : Batch(q, r, m, b)' <=> Batch(q, r, m, b)
    BY <2>1 DEF Batch
  <2>3. \A q \in Partitions : \A r \in OnDisk(q) : r.req \in Nat /\ r.req <= produced
    BY DiskOffsets DEF IInv, Batches, Numbered, OnDiskRecord
  <2>4. /\ \A a \in acked : a.req \in Nat /\ a.req <= produced
        /\ \A d \in Connections : job[d].api = "produce" => job[d].req \in Nat /\ job[d].req <= produced
    BY JobFields DEF IInv, Batches, Numbered, TypeOK, Ack
  <2>5. Numbered'
    <3>1. /\ \A q \in Partitions : \A r \in OnDisk(q) : r.req <= produced'
          /\ \A a \in acked : a.req <= produced' /\ a.req # produced + 1
          /\ \A d \in Connections : job[d].api = "produce" =>
                job[d].req <= produced' /\ job[d].req # produced + 1
          /\ produced + 1 <= produced'
      BY <1>n, <1>1, <2>3, <2>4
    <3> QED
      BY <1>1, <1>2, <1>3, <2>1, <3>1 DEF IInv, Batches, Numbered
  <2>6. WrittenBy(c)'
    <3>1. \A r \in OnDisk(p) : r.req # produced + 1
      BY <1>n, <2>3
    <3>2. Batch(p, produced + 1, 0, -1)
      BY DEF Batch
    <3>3. Batch(j.part, j.req, j.sent, j.first)'
      BY <1>2, <2>2, <3>2
    <3> QED
      BY <1>1, <1>2, <1>3, <2>1, <3>1, <3>3 DEF WrittenBy
  <2>7. \A d \in Connections \ {c} : WrittenBy(d)'
    BY <1>3, <2>1, <2>2 DEF IInv, Batches, WrittenBy
  <2> QED
    BY <1>1, <2>2, <2>5, <2>6, <2>7 DEF IInv, Batches
<1>8. /\ HandlerOnly(c)
      /\ \A q \in Partitions : partitions[q] = 1 => partitions'[q] = 1
      /\ \A q \in Partitions : Len(disk'[q]) >= Len(disk[q])
      /\ \A q \in Consumed : delivered[q] \subseteq delivered'[q]
  BY <1>1, <1>3 DEF HandlerOnly, IInv, TypeOK
<1> QED
  BY <1>4, <1>5, <1>6, <1>7, <1>8, HandlerInv
-------------------------------------------------------------------------------
(* handleFetch, handleOffsetCommit and handleOffsetFetch *)

LEMMA FetchInv ==
    ASSUME IInv, NEW c \in Connections, NEW p \in Consumed, Fetch(c, p)
    PROVE  IInv'
<1> DEFINE at == IF authorizeTopic(p) /\ isValidTopicName(p) THEN "lookup" ELSE "error"
<1>j. PICK j : j = NewJob("fetch", p, 0, 0)
  OBVIOUS
<1>p. p \in Partitions
  BY ConstantsAssumption
<1>1. /\ pc[c] = "idle" /\ job' = [job EXCEPT ![c] = j] /\ pc' = [pc EXCEPT ![c] = at]
      /\ position[c][p] # -1 /\ at \in {"lookup", "error"}
      /\ UNCHANGED <<partitions, logs, disk, offsets, position, delivered, produced, acked>>
  BY <1>j DEF Fetch, Begin, NewJob, table, client
<1>2. j \in Job /\ j.api = "fetch" /\ j.part = p /\ j.sent = 0 /\ j.first = -1
  BY <1>j, <1>p, NewJobFields
<1> HIDE DEF at
<1>3. /\ job'[c] = j /\ pc'[c] = at
      /\ \A d \in Connections \ {c} : job'[d] = job[d] /\ pc'[d] = pc[d]
      /\ job' \in [Connections -> Job] /\ pc' \in [Connections -> Places]
  <2>1. at \in Places /\ TypeOK
    BY <1>1 DEF Places, IInv
  <2> QED
    BY <1>1, <1>2, <2>1, HandlerTyped, ZenonT(30)
<1>4. TypeOK'
  BY <1>1, <1>3 DEF IInv, TypeOK
<1>5. OneLog' /\ InOrder' /\ PartitionsCapped' /\ Committed'
  BY <1>1 DEF IInv, OneLog, InOrder, PartitionsCapped, InTable, Committed
<1>6. ServingBy(c)' /\ FetchedBy(c)'
  BY <1>1, <1>p, <1>2, <1>3 DEF ServingBy, FetchedBy
<1>7. ConsumedBy(c)'
  <2>1. position[c][p] \in Int /\ position[c][p] >= -1
    BY DEF IInv, TypeOK, Handlers, ConsumedBy
  <2>2. position[c][p] >= 0
    BY <1>1, <2>1
  <2> QED
    BY <1>1, <1>2, <1>3, <2>2 DEF ConsumedBy, IInv, Handlers
<1>8. Batches'
  <2>1. \A q : OnDisk(q)' = OnDisk(q)
    BY <1>1 DEF OnDisk
  <2>2. \A q, r, m, b : Batch(q, r, m, b)' <=> Batch(q, r, m, b)
    BY <2>1 DEF Batch
  <2>3. Numbered' /\ \A d \in Connections : WrittenBy(d)'
    BY <1>1, <1>2, <1>3, <2>1, <2>2 DEF IInv, Batches, Numbered, WrittenBy
  <2> QED
    BY <1>1, <2>2, <2>3 DEF IInv, Batches
<1>9. /\ HandlerOnly(c)
      /\ \A q \in Partitions : partitions[q] = 1 => partitions'[q] = 1
      /\ \A q \in Partitions : Len(disk'[q]) >= Len(disk[q])
      /\ \A q \in Consumed : delivered[q] \subseteq delivered'[q]
  BY <1>1, <1>3 DEF HandlerOnly, IInv, TypeOK
<1> QED
  BY <1>4, <1>5, <1>6, <1>7, <1>8, <1>9, HandlerInv

\* The records read are those from the position on, without holes.
LEMMA FetchReadInv == ASSUME IInv, NEW c \in Connections, FetchRead(c) PROVE IInv'
<1>1. /\ pc[c] = "read" /\ ServingBy(c) /\ ConsumedBy(c) /\ job[c].api = "fetch"
      /\ job[c].part \in Consumed /\ job[c].part \in Partitions
      /\ UNCHANGED <<partitions, logs, disk, offsets, position, delivered, produced, acked>>
  BY DEF FetchRead, IInv, Handlers, ServingBy, table, client
<1>p. PICK p \in Consumed : p = job[c].part
  BY <1>1
<1>s. PICK start \in Nat : start = position[c][p]
  BY <1>1, <1>p DEF ConsumedBy, IInv, TypeOK
<1>l. PICK len \in Nat : len = Len(disk[p])
  BY <1>1, <1>p, DiskOffsets
<1>2. CASE pc' = [pc EXCEPT ![c] = "error"] /\ UNCHANGED job
  <2>1. Quiet(c)
    BY <1>1, <1>2 DEF Quiet, HandlerOnly, IInv, TypeOK
  <2> QED
    BY <1>1, <1>2, <2>1, ErrorInv
<1>3. ASSUME NEW got, got = {r.offset : r \in {q \in OnDisk(p) : /\ q.offset >= start
                                                                 /\ q.offset < start + MaxFetch}},
             job' = [job EXCEPT ![c].got = got], pc' = [pc EXCEPT ![c] = "hw"]
      PROVE  IInv'
  <2>1. \A o : o \in got <=> o \in Nat /\ start <= o /\ o < start + MaxFetch /\ o < len
    <3>1. /\ \A r \in OnDisk(p) : r.offset \in 0..(len - 1)
          /\ \A o \in 0..(len - 1) : \E r \in OnDisk(p) : r.offset = o
      BY <1>1, <1>p, <1>l, DiskOffsets
    <3> QED
      BY <1>3, <3>1, ConstantsAssumption
  <2>2. \E k \in Nat : got = start..(start + k - 1)
    <3>1. ASSUME NEW k \in Nat, \A o : o \in got <=> o \in start..(start + k - 1)
          PROVE  \E n \in Nat : got = start..(start + n - 1)
      <4>1. got = start..(start + k - 1)
        BY <3>1
      <4> QED
        BY <4>1
    <3>2. CASE len <= start
      <4>1. \A o : o \in got <=> o \in start..(start + 0 - 1)
        BY <2>1, <3>2
      <4> QED
        BY <3>1, <4>1
    <3>3. CASE start < len /\ start + MaxFetch <= len
      <4>1. MaxFetch \in Nat /\ \A o : o \in got <=> o \in start..(start + MaxFetch - 1)
        BY <2>1, <3>3, ConstantsAssumption
      <4> QED
        BY <3>1, <4>1
    <3>4. CASE start < len /\ len < start + MaxFetch
      <4>1. len - start \in Nat /\ \A o : o \in got <=> o \in start..(start + (len - start) - 1)
        BY <2>1, <3>4, ConstantsAssumption
      <4> QED
        BY <3>1, <4>1
    <3> QED
      BY <3>2, <3>3, <3>4, ConstantsAssumption
  <2>3. got \in SUBSET Nat /\ \A o \in got : o < len
    BY <2>1
  <2> DEFINE j == [job[c] EXCEPT !.got = got]
  <2>4. j \in Job /\ job' = [job EXCEPT ![c] = j] /\ "hw" \in Places /\ TypeOK
    BY <1>3, <2>3, JobFields, JobUpdate DEF Places, IInv
  <2> HIDE DEF j
  <2>5. /\ job'[c] = j /\ pc'[c] = "hw"
        /\ \A d \in Connections \ {c} : job'[d] = job[d] /\ pc'[d] = pc[d]
        /\ job' \in [Connections -> Job] /\ pc' \in [Connections -> Places]
    BY <1>3, <2>4, HandlerTyped
  <2>6. /\ j.api = "fetch" /\ j.part = job[c].part /\ j.log = job[c].log /\ j.got = got
    BY <1>1, <2>3, JobFields DEF j, Job, IInv
  <2>7. TypeOK'
    BY <1>1, <2>5 DEF IInv, TypeOK
  <2>8. Quiet(c)
    BY <1>1, <2>5 DEF Quiet, HandlerOnly
  <2>9. ServingBy(c)'
    BY <1>1, <2>5, <2>6 DEF ServingBy
  <2>10. FetchedBy(c)'
    BY <1>1, <1>p, <1>s, <1>l, <2>2, <2>3, <2>5, <2>6 DEF FetchedBy
  <2> QED
    BY <1>1, <2>5, <2>6, <2>7, <2>8, <2>9, <2>10, QuietInv
<1>4. \/ pc' = [pc EXCEPT ![c] = "error"] /\ UNCHANGED job
      \/ /\ job' = [job EXCEPT ![c].got =
                        {r.offset : r \in {q \in OnDisk(p) : /\ q.offset >= start
                                                             /\ q.offset < start + MaxFetch}}]
         /\ pc' = [pc EXCEPT ![c] = "hw"]
  BY <1>p, <1>s DEF FetchRead
<1> QED
  BY <1>2, <1>3, <1>4

LEMMA FetchHighWatermarkInv == ASSUME IInv, NEW c \in Connections, FetchHighWatermark(c) PROVE IInv'
<1>1. /\ pc[c] = "hw" /\ ServingBy(c) /\ FetchedBy(c) /\ job[c].api = "fetch"
      /\ job[c].part \in Consumed /\ job[c].part \in Partitions
      /\ UNCHANGED <<partitions, logs, disk, offsets, position, delivered, produced, acked>>
  BY DEF FetchHighWatermark, IInv, Handlers, ServingBy, table, client
<1>2. PICK hw \in Nat : hw = Len(disk[job[c].part])
  BY <1>1, DiskOffsets
<1>3. HighWatermark(c) = hw
  BY <1>1, <1>2 DEF HighWatermark, ServingBy, IInv, OneLog
<1> DEFINE j == [job[c] EXCEPT !.hw = hw]
<1>a. job' = [job EXCEPT ![c].hw = HighWatermark(c)] /\ pc' = [pc EXCEPT ![c] = "respond"]
  BY DEF FetchHighWatermark
<1>b. job' = [job EXCEPT ![c] = j]
  BY <1>a, <1>3
<1>c. j \in Job
  <2>1. job[c] \in Job
    BY JobFields DEF IInv
  <2>2. \A h \in Int : [job[c] EXCEPT !.hw = h] \in Job
    BY <2>1, JobUpdate
  <2>3. hw \in Int
    BY <1>2
  <2> QED
    BY <2>2, <2>3
<1>4. /\ j \in Job /\ job' = [job EXCEPT ![c] = j] /\ "respond" \in Places /\ TypeOK
      /\ pc' = [pc EXCEPT ![c] = "respond"]
  BY <1>a, <1>b, <1>c DEF Places, IInv
<1> HIDE DEF j
<1>5. /\ job'[c] = j /\ pc'[c] = "respond"
      /\ \A d \in Connections \ {c} : job'[d] = job[d] /\ pc'[d] = pc[d]
      /\ job' \in [Connections -> Job] /\ pc' \in [Connections -> Places]
  BY <1>4, HandlerTyped
<1>6. /\ j.api = "fetch" /\ j.part = job[c].part /\ j.got = job[c].got /\ j.hw = hw
  BY <1>1, JobFields DEF j, Job, IInv
<1>7. TypeOK' /\ Quiet(c)
  BY <1>1, <1>5 DEF IInv, TypeOK, Quiet, HandlerOnly
<1>8. ServingBy(c)' /\ FetchedBy(c)'
  BY <1>1, <1>2, <1>5, <1>6 DEF ServingBy, FetchedBy
<1> QED
  BY <1>1, <1>5, <1>6, <1>7, <1>8, QuietInv

\* The consumer moves on by as many offsets as it got.
LEMMA RespondFetchInv == ASSUME IInv, NEW c \in Connections, RespondFetch(c) PROVE IInv'
<1>1. /\ pc[c] = "respond" /\ FetchedBy(c) /\ ConsumedBy(c) /\ job[c].api = "fetch"
      /\ job[c].part \in Consumed
  BY DEF RespondFetch, IInv, Handlers, ServingBy
<1>p. PICK p \in Consumed : p = job[c].part
  BY <1>1
<1>s. PICK start \in Nat : start = position[c][p]
  BY <1>1, <1>p DEF ConsumedBy, IInv, TypeOK
<1>g. PICK k \in Nat : job[c].got = start..(start + k - 1)
  BY <1>1, <1>p, <1>s DEF FetchedBy
<1>2. PICK got \in SUBSET Nat : got = job[c].got /\ got = start..(start + k - 1) /\ Cardinality(got) = k
  <2>1. Cardinality(start..(start + k - 1)) = k
    BY FS_Interval, SMTT(30)
  <2> QED
    BY <1>g, <2>1, JobFields DEF IInv
<1>3. /\ delivered' = [delivered EXCEPT ![p] = delivered[p] \cup got]
      /\ position' = [position EXCEPT ![c] = [position[c] EXCEPT ![p] = start + k]]
      /\ pc' = [pc EXCEPT ![c] = "idle"] /\ job' = [job EXCEPT ![c] = NoJob]
      /\ UNCHANGED <<partitions, logs, disk, offsets, produced, acked>>
  BY <1>p, <1>s, <1>2 DEF RespondFetch, table
<1>4. /\ job'[c].api = "none" /\ pc'[c] = "idle"
      /\ \A d \in Connections \ {c} : job'[d] = job[d] /\ pc'[d] = pc[d]
      /\ job' \in [Connections -> Job] /\ pc' \in [Connections -> Places]
  <2>1. "idle" \in Places /\ TypeOK
    BY DEF Places, IInv
  <2> QED
    BY <1>3, <2>1, NoJobTyped, HandlerTyped
<1>5. /\ position'[c][p] = start + k
      /\ \A q \in Consumed \ {p} : position'[c][q] = position[c][q]
      /\ \A d \in Connections \ {c} : position'[d] = position[d]
      /\ position' \in [Connections -> [Consumed -> Int]]
  BY <1>3 DEF IInv, TypeOK
<1>6. /\ delivered'[p] = delivered[p] \cup got
      /\ \A q \in Consumed : delivered[q] \subseteq delivered'[q]
      /\ delivered' \in [Consumed -> SUBSET Nat]
  BY <1>3 DEF IInv, TypeOK
<1>7. TypeOK'
  BY <1>3, <1>4, <1>5, <1>6 DEF IInv, TypeOK
<1>8. OneLog' /\ InOrder' /\ PartitionsCapped' /\ Committed'
  BY <1>3, <1>6 DEF IInv, OneLog, InOrder, PartitionsCapped, InTable, Committed
<1>9. ServingBy(c)' /\ FetchedBy(c)'
  BY <1>4 DEF ServingBy, FetchedBy
<1>10. ConsumedBy(c)'
  <2>1. ASSUME NEW q \in Consumed
        PROVE position'[c][q] >= -1 /\ \A o \in 0..(position'[c][q] - 1) : o \in delivered'[q]
    <3>1. CASE q = p
      <4>1. ASSUME NEW o \in 0..(start + k - 1) PROVE o \in delivered'[p]
        <5>1. CASE o < start
          BY <1>1, <1>s, <1>6, <5>1 DEF ConsumedBy
        <5>2. CASE o >= start
          BY <1>2, <1>6, <5>2
        <5> QED
          BY <5>1, <5>2
      <4> QED
        BY <1>5, <3>1, <4>1
    <3>2. CASE q # p
      BY <1>1, <1>5, <1>6, <3>2 DEF ConsumedBy
    <3> QED
      BY <3>1, <3>2
  <2> QED
    BY <1>4, <2>1 DEF ConsumedBy
<1>11. HandlerOnly(c)
  BY <1>4, <1>5 DEF HandlerOnly
<1>12. Batches'
  BY <1>3, <1>4, <1>11, BatchesKept
<1>13. /\ \A q \in Partitions : partitions[q] = 1 => partitions'[q] = 1
       /\ \A q \in Partitions : Len(disk'[q]) >= Len(disk[q])
  BY <1>3 DEF IInv, TypeOK
<1> QED
  BY <1>6, <1>7, <1>8, <1>9, <1>10, <1>11, <1>12, <1>13, HandlerInv

\* A consumer commits its position.
LEMMA OffsetCommitInv ==
    ASSUME IInv, NEW c \in Connections, NEW p \in Consumed, OffsetCommit(c, p)
    PROVE  IInv'
<1>1. /\ offsets' = [offsets EXCEPT ![p] = position[c][p]]
      /\ UNCHANGED <<pc, job, partitions, logs, disk, position, delivered, produced, acked>>
  BY DEF OffsetCommit, CommitOffset, table, client
<1>2. position[c][p] \in Int /\ ConsumedBy(c)
  BY DEF IInv, TypeOK, Handlers
<1>3. /\ offsets'[p] = position[c][p] /\ \A q \in Consumed \ {p} : offsets'[q] = offsets[q]
      /\ offsets' \in [Consumed -> Int]
  BY <1>1, <1>2 DEF IInv, TypeOK
<1>4. TypeOK'
  BY <1>1, <1>3 DEF IInv, TypeOK
<1>5. Committed'
  BY <1>1, <1>2, <1>3 DEF IInv, Committed, ConsumedBy
<1>6. OneLog' /\ InOrder' /\ PartitionsCapped' /\ Handlers'
  BY <1>1 DEF IInv, OneLog, InOrder, PartitionsCapped, InTable, Handlers, ServingBy, FetchedBy, ConsumedBy
<1>7. Batches'
  BY <1>1 DEF IInv, Batches, Numbered, WrittenBy, Batch, OnDisk
<1> QED
  BY <1>4, <1>5, <1>6, <1>7 DEF IInv

\* A consumer without a request moves to a position below which everything has
\* been delivered.
LEMMA MoveInv ==
    ASSUME IInv, NEW c \in Connections, NEW to \in [Consumed -> Int],
           position' = [position EXCEPT ![c] = to], HandlerOnly(c), TypeOK',
           pc'[c] \in {"none", "idle"}, job'[c].api = "none",
           \A q \in Consumed : to[q] >= -1 /\ \A o \in 0..(to[q] - 1) : o \in delivered[q],
           UNCHANGED <<partitions, logs, disk, offsets, delivered, produced, acked>>
    PROVE  IInv'
<1>1. position'[c] = to
  BY DEF IInv, TypeOK
<1>2. OneLog' /\ InOrder' /\ PartitionsCapped' /\ Committed'
  BY DEF IInv, OneLog, InOrder, PartitionsCapped, InTable, Committed
<1>3. ServingBy(c)' /\ FetchedBy(c)' /\ ConsumedBy(c)'
  BY <1>1 DEF ServingBy, FetchedBy, ConsumedBy
<1>4. Batches'
  BY BatchesKept
<1>5. /\ \A q \in Partitions : partitions[q] = 1 => partitions'[q] = 1
      /\ \A q \in Partitions : Len(disk'[q]) >= Len(disk[q])
      /\ \A q \in Consumed : delivered[q] \subseteq delivered'[q]
  BY DEF IInv, TypeOK
<1> QED
  BY <1>2, <1>3, <1>4, <1>5, HandlerInv

LEMMA OffsetFetchInv ==
    ASSUME IInv, NEW c \in Connections, NEW p \in Consumed, OffsetFetch(c, p)
    PROVE  IInv'
<1>1. PICK o : o = IF FetchOffset(p) = -1 THEN 0 ELSE FetchOffset(p)
  OBVIOUS
<1>2. /\ pc[c] = "idle" /\ position' = [position EXCEPT ![c] = [position[c] EXCEPT ![p] = o]]
      /\ UNCHANGED <<pc, job, partitions, logs, disk, offsets, delivered, produced, acked>>
  BY <1>1 DEF OffsetFetch, table
<1>3. o \in Int /\ o >= -1 /\ \A i \in 0..(o - 1) : i \in delivered[p]
  BY <1>1 DEF FetchOffset, IInv, TypeOK, Committed
<1>4. PICK to \in [Consumed -> Int] : to = [position[c] EXCEPT ![p] = o]
  BY <1>3 DEF IInv, TypeOK
<1>5. /\ to[p] = o /\ \A q \in Consumed \ {p} : to[q] = position[c][q]
      /\ position' = [position EXCEPT ![c] = to]
  BY <1>2, <1>4 DEF IInv, TypeOK
<1>6. \A q \in Consumed : to[q] >= -1 /\ \A i \in 0..(to[q] - 1) : i \in delivered[q]
  BY <1>3, <1>5 DEF IInv, Handlers, ConsumedBy
<1>7. TypeOK' /\ HandlerOnly(c)
  BY <1>2, <1>5 DEF IInv, TypeOK, HandlerOnly
<1>8. pc'[c] = "idle" /\ job'[c].api = "none"
  BY <1>2 DEF IInv, Handlers, ServingBy
<1> QED
  BY <1>2, <1>5, <1>6, <1>7, <1>8, MoveInv

LEMMA DisconnectInv == ASSUME IInv, NEW c \in Connections, Disconnect(c) PROVE IInv'
<1>0. -1 \in Int
  OBVIOUS
<1>1. PICK to \in [Consumed -> Int] : to = [p \in Consumed |-> -1]
  BY <1>0
<1>2. /\ pc' = [pc EXCEPT ![c] = "none"] /\ job' = [job EXCEPT ![c] = NoJob]
      /\ position' = [position EXCEPT ![c] = to]
      /\ UNCHANGED <<partitions, logs, disk, offsets, delivered, produced, acked>>
  BY <1>1 DEF Disconnect, table
<1>3. /\ job'[c].api = "none" /\ pc'[c] = "none"
      /\ \A d \in Connections \ {c} : job'[d] = job[d] /\ pc'[d] = pc[d]
      /\ job' \in [Connections -> Job] /\ pc' \in [Connections -> Places]
  <2>1. "none" \in Places /\ TypeOK
    BY DEF Places, IInv
  <2> QED
    BY <1>2, <2>1, NoJobTyped, HandlerTyped
<1>4. TypeOK' /\ HandlerOnly(c)
  BY <1>2, <1>3 DEF IInv, TypeOK, HandlerOnly
<1>5. \A q \in Consumed : to[q] >= -1 /\ \A i \in 0..(to[q] - 1) : i \in delivered[q]
  BY <1>1
<1> QED
  BY <1>2, <1>3, <1>4, <1>5, MoveInv

\* A restart forgets the table and the committed offsets; the directories, and
\* what clients were told, remain.
LEMMA RestartInv == ASSUME IInv, Restart PROVE IInv'
<1>1. /\ pc' = [c \in Connections |-> "none"] /\ job' = [c \in Connections |-> NoJob]
      /\ partitions' = [p \in Partitions |-> 0] /\ logs' = [p \in Partitions |-> <<>>]
      /\ offsets' = [p \in Consumed |-> -1]
      /\ position' = [c \in Connections |-> [p \in Consumed |-> -1]]
      /\ UNCHANGED <<disk, produced, acked, delivered>>
  BY DEF Restart, NoOffsets
<1>2. TypeOK'
  BY <1>1, NoJobTyped DEF IInv, TypeOK, Places
<1>3. OneLog' /\ InOrder' /\ Handlers' /\ Committed'
  BY <1>1, NoJobTyped
     DEF IInv, OneLog, InOrder, Handlers, ServingBy, FetchedBy, ConsumedBy, Committed
<1>4. PartitionsCapped'
  <2>1. InTable' = {}
    BY <1>1 DEF InTable
  <2> QED
    BY <2>1, FS_EmptySet, ConstantsAssumption DEF PartitionsCapped
<1>5. Batches'
  <2>1. \A q : OnDisk(q)' = OnDisk(q)
    BY <1>1 DEF OnDisk
  <2>2. \A q, r, m, b : Batch(q, r, m, b)' <=> Batch(q, r, m, b)
    BY <2>1 DEF Batch
  <2> QED
    BY <1>1, <2>1, <2>2, NoJobTyped DEF IInv, Batches, Numbered, WrittenBy
<1> QED
  BY <1>2, <1>3, <1>4, <1>5 DEF IInv
-------------------------------------------------------------------------------
LEMMA NextInv == IInv /\ [Next]_vars => IInv'
<1> SUFFICES ASSUME IInv, [Next]_vars PROVE IInv'
  OBVIOUS
<1>1. CASE Restart
  BY <1>1, RestartInv
<1>2. ASSUME NEW c \in Connections, HandlerStep(c) PROVE IInv'
  BY <1>2, LookupInv, CreateInv, RespondErrorInv, AppendNextInv, AppendDoneInv, RespondProduceInv,
     FetchReadInv, FetchHighWatermarkInv, RespondFetchInv DEF HandlerStep
<1>3. ASSUME NEW c \in Connections, ClientStep(c) PROVE IInv'
  BY <1>3, AcceptInv, DisconnectInv, ProduceInv, FetchInv, OffsetCommitInv, OffsetFetchInv
     DEF ClientStep
<1>4. CASE UNCHANGED vars
  <2>1. UNCHANGED <<pc, job, partitions, logs, disk, offsets, position, delivered, produced, acked>>
    BY <1>4 DEF vars, table, client
  <2>2. TypeOK' /\ OneLog' /\ InOrder' /\ PartitionsCapped' /\ Committed'
    BY <2>1 DEF IInv, TypeOK, OneLog, InOrder, PartitionsCapped, InTable, Committed
  <2>3. Handlers'
    BY <2>1 DEF IInv, Handlers, ServingBy, FetchedBy, ConsumedBy
  <2>4. \A p : OnDisk(p)' = OnDisk(p)
    BY <2>1 DEF OnDisk
  <2>5. \A p, req, n, base : Batch(p, req, n, base)' <=> Batch(p, req, n, base)
    BY <2>4 DEF Batch
  <2>6. Numbered'
    BY <2>1, <2>4 DEF IInv, Batches, Numbered
  <2>7. \A c \in Connections : WrittenBy(c)'
    BY <2>1, <2>4, <2>5 DEF IInv, Batches, WrittenBy
  <2>8. Batches'
    BY <2>1, <2>5, <2>6, <2>7 DEF IInv, Batches
  <2> QED
    BY <2>2, <2>3, <2>8 DEF IInv
<1> QED
  BY <1>1, <1>2, <1>3, <1>4 DEF Next

LEMMA AlwaysInv == Spec => []IInv
  BY InitInv, NextInv, PTL DEF Spec

\* Two handlers that create a partition, or append to it, at the same time never
\* give one offset to two records, for any number of connections and over
\* restarts (getOrCreatePartitionLog, PartitionLog.Append).
THEOREM OffsetsDistinct == Spec => []OffsetsNeverShared
<1>1. IInv => OffsetsNeverShared
  <2> SUFFICES ASSUME IInv, NEW p \in Partitions, NEW i \in 1..Len(disk[p]), NEW j \in 1..Len(disk[p]),
                      Offset(p, i) = Offset(p, j)
               PROVE  i = j
    BY DEF OffsetsNeverShared
  <2>1. Len(disk[p]) \in Nat /\ disk[p][i].offset = i - 1 /\ disk[p][j].offset = j - 1
    BY DEF IInv, TypeOK, InOrder
  <2>2. i \in Int /\ j \in Int
    BY <2>1
  <2>3. i - 1 = j - 1
    BY <2>1 DEF Offset
  <2> QED
    BY <2>2, <2>3
<1> QED
  BY <1>1, AlwaysInv, PTL

\* However many clients name new topics at once, the cap on partitions holds
\* (getOrCreatePartitionLog).
THEOREM CapHolds == Spec => []PartitionsCapped
<1>1. IInv => PartitionsCapped
  BY DEF IInv
<1> QED
  BY <1>1, AlwaysInv, PTL

\* A produce answer without an error names the first offset of its batch, and
\* the records appended for it are behind it in order, for any number of
\* producers (handleProduce).
THEOREM AcksNameBatches == Spec => []AckNamesBatch
<1>1. IInv => AckNamesBatch
  BY DEF IInv, Batches, Batch, AckNamesBatch
<1> QED
  BY <1>1, AlwaysInv, PTL

\* The high watermark of a fetch answer lies above every record in it
\* (handleFetch).
THEOREM WatermarkAboveRecords == Spec => []HighWatermarkCovers
<1>1. IInv => HighWatermarkCovers
  BY DEF IInv, Handlers, FetchedBy, HighWatermarkCovers
<1> QED
  BY <1>1, AlwaysInv, PTL

\* Every record below a committed offset has reached the group, over consumers
\* that come and go, late commits and restarts (handleOffsetCommit,
\* handleOffsetFetch, handleFetch).
THEOREM AtLeastOnce == Spec => []CommittedWasDelivered
<1>1. IInv => CommittedWasDelivered
  BY DEF IInv, Committed, CommittedWasDelivered
<1> QED
  BY <1>1, AlwaysInv, PTL
===============================================================================
