----------------------------- MODULE Connection -----------------------------
(***************************************************************************)
(* One TCP connection: a client that sends requests, possibly several      *)
(* before it reads an answer, and the loop of ConnectionHandler.Handle.    *)
(* The two directions of the connection are sequences of bytes.  TCP       *)
(* delivers in pieces of any size, which io.ReadFull hides: a read waits   *)
(* until it has all its bytes or the other end has closed.                 *)
(*                                                                         *)
(* What a request and an answer are and how they are encoded is left to    *)
(* the constants, which Dispatch defines as the code does: the loop needs  *)
(* of them only that what was encoded is decoded again.                    *)
(***************************************************************************)
EXTENDS Wire

CONSTANTS MaxRequestFrameBytes, \* limit on the size of a request
          Requests,             \* bound: for the n-th request of the client, the ones it may be
          Decodable(_),         \* requests within the limits, for an API the broker serves
          PayloadOf(_),         \* header and body of a request, as the client writes them
          Parse(_),             \* the broker's DecodeRequestHeader and Decode functions
          Answers(_),           \* the answers a handler may give to a request
          HeaderOf(_),          \* header of the answer, as the broker writes it
          BodyOf(_, _),         \* body of the answer, as the broker writes it
          ReadAnswer(_, _)      \* how the client reads the answer to a request

Sendable == UNION {Requests[i] : i \in DOMAIN Requests}

\* What a client finds in the answer a to request r, with nothing left to read.
Reply(r, a) == Ok([id |-> r.correlationId, body |-> a], <<>>)

\* A size of n bytes survives its four bytes.
SizeFits(n) == WriteInt(n, 4) \in Seq(Byte) /\ Unsigned(WriteInt(n, 4)) = n

ASSUME ConnectionAssumption ==
    /\ MaxRequestFrameBytes \in Nat /\ Len(Requests) \in Nat
    /\ DOMAIN Requests = 1..Len(Requests)
    /\ SizeFits(0)

\* What was encoded is decoded again: a request by the broker, unless it is
\* refused, and an answer by the client.
ASSUME CodecAssumption ==
    \A r \in Sendable :
        /\ PayloadOf(r) \in Seq(Byte) /\ PayloadOf(r) # <<>>
        /\ SizeFits(Len(PayloadOf(r)))
        /\ Parse(PayloadOf(r)) \in {Ok(r, <<>>), Error}
        /\ \A a \in Answers(r) :
            /\ HeaderOf(r) \in Seq(Byte) /\ BodyOf(r, a) \in Seq(Byte)
            /\ SizeFits(Len(HeaderOf(r)) + Len(BodyOf(r, a)))
            /\ ReadAnswer(r, HeaderOf(r) \o BodyOf(r, a)) = Reply(r, a)

VARIABLES toServer,    \* bytes under way to the broker
          toClient,    \* bytes under way to the client
          clientOpen,  \* the client has not closed
          pc,          \* where Handle is
          requestSize, \* the size Handle has read
          out,         \* the writes Handle has still to make
          sent,        \* the requests the client wrote completely
          handled,     \* the requests handlers have executed
          answers,     \* the answers they gave
          replies      \* what the client read

connVars ==
    <<toServer, toClient, clientOpen, pc, requestSize, out, sent, handled, answers, replies>>

\* The frame cmd/producer builds: size, header and body.
Frame(r) == WriteInt(Len(PayloadOf(r)), 4) \o PayloadOf(r)
-------------------------------------------------------------------------------
\* NewConnectionHandler; the client may start with an empty frame.
ConnInit ==
    /\ toServer \in {<<>>, WriteInt(0, 4)}
    /\ toClient = <<>> /\ clientOpen = TRUE
    /\ pc = "size" /\ requestSize = 0 /\ out = <<>>
    /\ sent = <<>> /\ handled = <<>> /\ answers = <<>> /\ replies = <<>>

(* The client *)

Send(request) ==
    /\ clientOpen
    /\ sent' = Append(sent, request)
    /\ toServer' = toServer \o Frame(request)
    /\ UNCHANGED <<toClient, clientOpen, pc, requestSize, out, handled, answers, replies>>

\* The client closes; what it wrote arrives.
Close ==
    /\ clientOpen
    /\ clientOpen' = FALSE
    /\ UNCHANGED <<toServer, toClient, pc, requestSize, out, sent, handled, answers, replies>>

\* The connection breaks when the last request has got through only in part.
Break ==
    /\ clientOpen /\ sent # <<>>
    /\ Len(Frame(Last(sent))) <= Len(toServer)
    /\ \E n \in 1..Len(Frame(Last(sent))) :
        toServer' = SubSeq(toServer, 1, Len(toServer) - n)
    /\ sent' = Front(sent)
    /\ clientOpen' = FALSE
    /\ UNCHANGED <<toClient, pc, requestSize, out, handled, answers, replies>>

\* The client reads one answer: size, correlation id and the fields of the
\* answer to its oldest open request.
Receive ==
    /\ clientOpen /\ Len(toClient) >= 4
    /\ Len(replies) < Len(sent)
    /\ LET size == Unsigned(SubSeq(toClient, 1, 4)) IN
        /\ Len(toClient) >= 4 + size
        /\ toClient' = SubSeq(toClient, 5 + size, Len(toClient))
        /\ replies' = Append(replies, ReadAnswer(sent[Len(replies) + 1],
                                                 SubSeq(toClient, 5, 4 + size)))
    /\ UNCHANGED <<toServer, clientOpen, pc, requestSize, out, sent, handled, answers>>
-------------------------------------------------------------------------------
(* ConnectionHandler.Handle *)

\* Handle returns and the connection is closed.
Return ==
    /\ pc' = "closed" /\ out' = <<>> /\ toServer' = <<>>
    /\ UNCHANGED <<toClient, clientOpen, requestSize, sent, handled, answers, replies>>

\* ReadFull fails when the client has closed before it has sent n bytes.
ReadFails(n) == Len(toServer) < n /\ ~clientOpen

\* The size of the next request; an empty one is skipped.
ReadSize ==
    /\ pc = "size" /\ Len(toServer) >= 4
    /\ LET n == Unsigned(SubSeq(toServer, 1, 4)) IN
        /\ n <= MaxRequestFrameBytes
        /\ requestSize' = n
        /\ pc' = IF n = 0 THEN "size" ELSE "payload"
        /\ toServer' = SubSeq(toServer, 5, Len(toServer))
    /\ UNCHANGED <<toClient, clientOpen, out, sent, handled, answers, replies>>

\* The connection ends, or a request is larger than allowed.
SizeFails ==
    /\ pc = "size"
    /\ \/ ReadFails(4)
       \/ Len(toServer) >= 4 /\ Unsigned(SubSeq(toServer, 1, 4)) > MaxRequestFrameBytes
    /\ Return

\* The payload as the broker decodes it.
Decoded == Parse(SubSeq(toServer, 1, requestSize))

ResponseMutant(r, a) == <<WriteInt(Len(BodyOf(r, a)), 4), HeaderOf(r), BodyOf(r, a)>>
\* The three writes of an answer: size, header and body.
Response(r, a) ==
    <<WriteInt(Len(HeaderOf(r)) + Len(BodyOf(r, a)), 4), HeaderOf(r), BodyOf(r, a)>>

\* The request is decoded and executed, and its answer encoded.
HandlePayload ==
    /\ pc = "payload" /\ Len(toServer) >= requestSize
    /\ \E request \in {Decoded} :
        /\ request.ok
        /\ \E answer \in Answers(request.value) :
            /\ answers' = Append(answers, answer)
            /\ out' = Response(request.value, answer)
        /\ handled' = Append(handled, request.value)
    /\ pc' = "write"
    /\ toServer' = SubSeq(toServer, requestSize + 1, Len(toServer))
    /\ UNCHANGED <<toClient, clientOpen, requestSize, sent, replies>>

PayloadFailsMutant ==
    /\ pc = "payload" /\ Len(toServer) >= requestSize /\ ~Decoded.ok
    /\ pc' = "size"
    /\ toServer' = SubSeq(toServer, requestSize + 1, Len(toServer))
    /\ UNCHANGED <<toClient, clientOpen, requestSize, out, sent, handled, answers, replies>>
\* The connection ends within a request, or the request cannot be decoded or
\* is for no known API.
PayloadFails ==
    /\ pc = "payload"
    /\ \/ ReadFails(requestSize)
       \/ Len(toServer) >= requestSize /\ ~Decoded.ok
    /\ Return

\* One of the writes; after the last one the next request is read.
Write ==
    /\ pc = "write"
    /\ toClient' = toClient \o Head(out)
    /\ out' = Tail(out)
    /\ pc' = IF Len(out) = 1 THEN "size" ELSE "write"
    /\ UNCHANGED <<toServer, clientOpen, requestSize, sent, handled, answers, replies>>

\* A write to a connection the client has closed may fail.
WriteFails ==
    /\ pc = "write" /\ ~clientOpen
    /\ Return

Handle == ReadSize \/ SizeFails \/ HandlePayload \/ PayloadFails \/ Write \/ WriteFails

ConnNext ==
    \/ /\ Len(sent) < Len(Requests)
       /\ \E r \in Requests[Len(sent) + 1] : Send(r)
    \/ Close \/ Break \/ Receive
    \/ Handle

\* The goroutine of the connection runs, and a client reads its answers.
ConnFairness == WF_connVars(Handle) /\ WF_connVars(Receive)

ConnSpec == ConnInit /\ [][ConnNext]_connVars /\ ConnFairness
-------------------------------------------------------------------------------
(* Properties *)

Acceptable(request) ==
    Decodable(request) /\ Len(PayloadOf(request)) <= MaxRequestFrameBytes

\* What handlers execute are the requests the client sent, in that order and
\* with the values it wrote: no request is executed twice, out of a part of a
\* broken frame, or with its fields shifted by the request before it (Handle,
\* the Decode functions).
ExecutesWhatWasSent == IsPrefix(handled, sent)

\* Every answer the client reads belongs to its oldest open request: the same
\* correlation id, the values the handler gave, and nothing left in the frame,
\* although size, header and body are written one by one and requests are
\* pipelined (Handle, the Encode functions).
AnswersFit ==
    \A i \in DOMAIN replies : replies[i] = Reply(sent[i], answers[i])

=============================================================================
