------------------------------ MODULE Dispatch ------------------------------
(***************************************************************************)
(* The requests a client makes and the answers a handler gives, with their *)
(* encodings: the header and the dispatch of Handler.HandleRequest around  *)
(* the layouts of Messages.  The broker's state is modelled in the other   *)
(* modules; here an answer that depends on it may be any.  SASL is off,    *)
(* which is the default of cmd/broker.                                     *)
(***************************************************************************)
EXTENDS Messages

CONSTANT AnswerShapes \* bound: the sizes and numbers in answers

\* A shape says how long strings, byte fields and arrays are and which integers
\* are used; fields of one message differ.

Number(shape, w, i) ==
    CASE shape.int = "small" -> i
      [] shape.int = "max"   -> Base^w \div 2 - 1
      [] shape.int = "min"   -> -(Base^w \div 2)

RECURSIVE Fill(_, _)
Fill(fs, shape) ==
    [i \in DOMAIN fs |->
        CASE fs[i].kind = "int"      -> Number(shape, fs[i].width, i)
          [] fs[i].kind = "string"   -> [j \in 1..shape.len |-> i]
          [] fs[i].kind = "nullable" -> IF shape.null THEN Null ELSE [j \in 1..shape.len |-> i]
          [] fs[i].kind = "bytes"    -> [j \in 1..shape.bytes |-> (i + j) % Base]
          [] fs[i].kind = "array"    -> [j \in 1..shape.count |-> Fill(fs[i].of, shape)]]

Apis == DOMAIN HandleRequest

Request(api, shape, id) ==
    [api |-> api, key |-> ApiKeys[api], correlationId |-> id,
     clientId |-> [j \in 1..shape.len |-> 7],
     body |-> Fill(HandleRequest[api].write, shape)]

\* A key HandleRequest has no case for.
UnknownRequest(id) ==
    [api |-> "Unknown", key |-> 2, correlationId |-> id, clientId |-> <<7>>, body |-> <<>>]

\* This broker, as it reports itself.
NodeId == 1
Host == <<2, 3>>
Port == 4

\* handleMetadata: every topic asked for has one partition, led by this broker.
handleMetadata(req) ==
    << << <<NodeId, Host, Port>> >>,
       [i \in DOMAIN req[1] |->
            <<0, req[1][i][1], << <<0, 0, NodeId, << <<NodeId>> >>, << <<NodeId>> >> >> >> >>] >>

\* handleSyncGroup: the first assignment the request has for its sender.
handleSyncGroup(req) ==
    LET mine == {i \in DOMAIN req[4] : req[4][i][1] = req[3]} IN
    <<0, IF mine = {} THEN <<>> ELSE req[4][CHOOSE i \in mine : \A j \in mine : i <= j][2]>>

\* The answers a handler can give; those that depend on the broker's state may
\* be any.
PossibleAnswers(request) ==
    CASE request.api = "ApiVersions"     -> {DefaultApiVersionResponse}
      [] request.api = "Metadata"        -> {handleMetadata(request.body)}
      [] request.api = "FindCoordinator" -> {<<0, NodeId, Host, Port>>}
      [] request.api = "SyncGroup"       -> {handleSyncGroup(request.body)}
      [] request.api \notin Apis         -> {}
      [] OTHER -> {Fill(HandleRequest[request.api].read, shape) : shape \in AnswerShapes}
-------------------------------------------------------------------------------
\* The header and body cmd/producer writes.
EncodeRequest(request) ==
    WriteFields(EncodeRequestHeader, <<request.key, 0, request.correlationId, request.clientId>>)
    \o IF request.api \in Apis
       THEN WriteFields(HandleRequest[request.api].write, request.body) ELSE <<>>

\* DecodeRequestHeader and the Decode function of the handler.
DecodeRequest(payload) ==
    Then(ReadFields(DecodeRequestHeader, payload, BrokerLimits), LAMBDA header :
        IF \A api \in Apis : ApiKeys[api] # header.value[1] THEN Error
        ELSE LET api == CHOOSE a \in Apis : ApiKeys[a] = header.value[1] IN
             Then(ReadFields(HandleRequest[api].decode, header.rest, BrokerLimits), LAMBDA body :
                 Ok([api |-> api, key |-> header.value[1], correlationId |-> header.value[3],
                     clientId |-> header.value[4], body |-> body.value], <<>>)))

\* EncodeResponseHeader and the Encode function of the handler.
EncodeHeader(request) == WriteFields(EncodeResponseHeader, <<request.correlationId>>)
EncodeAnswer(request, answer) == WriteFields(HandleRequest[request.api].encode, answer)

\* The client reads the correlation id and the fields of the answer.
DecodeAnswer(request, frame) ==
    Then(ReadInt(frame, 4), LAMBDA id :
    Then(ReadFields(HandleRequest[request.api].read, id.rest, ClientLimits), LAMBDA body :
        Ok([id |-> id.value, body |-> body.value], body.rest)))
-------------------------------------------------------------------------------
\* The values of a message are within the limits of the decoders.
RECURSIVE WithinLimits(_, _)
WithinLimits(fs, vs) ==
    \A i \in DOMAIN fs :
        /\ fs[i].kind = "bytes" => Len(vs[i]) <= MaxProtocolFieldBytes
        /\ fs[i].kind = "array" =>
            /\ Len(vs[i]) <= MaxProtocolArrayLen
            /\ \A j \in DOMAIN vs[i] : WithinLimits(fs[i].of, vs[i][j])

\* A request the broker has to serve.
Served(request) ==
    /\ request.api \in Apis
    /\ WithinLimits(HandleRequest[request.api].write, request.body)
=============================================================================
