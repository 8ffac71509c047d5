------------------------------ MODULE Messages ------------------------------
(***************************************************************************)
(* The messages of internal/protocol.  A message is a sequence of fields;  *)
(* WriteFields and ReadFields stand for the sequences of WriteX and ReadX  *)
(* calls of the Encode and Decode functions, in the order and with the     *)
(* types a layout gives.  There is one definition per ApiKey, with four    *)
(* layouts:                                                                *)
(*   write   the fields of the request, as the client writes them,         *)
(*   decode  the reads of the broker's Decode function,                    *)
(*   encode  the writes of the broker's Encode function,                   *)
(*   read    the fields of the answer, as the client reads them.           *)
(* write and read follow the declarations of the structs; for Produce they *)
(* are EncodeProduceRequest and the decodeProduceResponse of the clients   *)
(* under cmd/.                                                             *)
(***************************************************************************)
EXTENDS Wire

\* Field types.  An element of an array is again a sequence of fields.
IntType(w) == [kind |-> "int", width |-> w]
I8  == IntType(1)
I16 == IntType(2)
I32 == IntType(4)
I64 == IntType(8)
Str   == [kind |-> "string"]
NStr  == [kind |-> "nullable"]
Bytes == [kind |-> "bytes"]
Arr(fs) == [kind |-> "array", of |-> fs]
-------------------------------------------------------------------------------
RECURSIVE WriteFields(_, _), WriteElements(_, _)
WriteField(f, v) ==
    CASE f.kind = "int"      -> WriteInt(v, f.width)
      [] f.kind = "string"   -> WriteString(v)
      [] f.kind = "nullable" -> WriteNullableString(v)
      [] f.kind = "bytes"    -> WriteBytes(v)
      [] f.kind = "array"    -> WriteInt(Len(v), 4) \o WriteElements(f.of, v)

WriteFields(fs, vs) ==
    IF fs = <<>> THEN <<>> ELSE WriteField(Head(fs), Head(vs)) \o WriteFields(Tail(fs), Tail(vs))

WriteElements(fs, v) ==
    IF v = <<>> THEN <<>> ELSE WriteFields(fs, Head(v)) \o WriteElements(fs, Tail(v))

RECURSIVE ReadFields(_, _, _), ReadElements(_, _, _, _)
ReadField(f, in, limits) ==
    CASE f.kind = "int"      -> ReadInt(in, f.width)
      [] f.kind = "string"   -> ReadString(in)
      [] f.kind = "nullable" -> ReadNullableString(in)
      [] f.kind = "bytes"    -> ReadBytes(in, limits)
      [] f.kind = "array"    -> Then(ReadArrayCount(in, limits),
                                     LAMBDA n : ReadElements(f.of, n.value, n.rest, limits))

\* The fields in order.
ReadFields(fs, in, limits) ==
    IF fs = <<>> THEN Ok(<<>>, in)
    ELSE Then(ReadField(Head(fs), in, limits), LAMBDA first :
         Then(ReadFields(Tail(fs), first.rest, limits), LAMBDA others :
              Ok(<<first.value>> \o others.value, others.rest)))

\* The n elements of an array.
ReadElements(fs, n, in, limits) ==
    IF n = 0 THEN Ok(<<>>, in)
    ELSE Then(ReadFields(fs, in, limits), LAMBDA first :
         Then(ReadElements(fs, n - 1, first.rest, limits), LAMBDA others :
              Ok(<<first.value>> \o others.value, others.rest)))
-------------------------------------------------------------------------------
EncodeRequestHeader  == <<I16, I16, I32, Str>>
DecodeRequestHeader  == <<I16, I16, I32, Str>>
EncodeResponseHeader == <<I32>>

EncodeProduceRequest  == <<I16, I32, Arr(<<Str, Arr(<<I32, Bytes>>)>>)>>
DecodeProduceRequest  == <<I16, I32, Arr(<<Str, Arr(<<I32, Bytes>>)>>)>>
EncodeProduceResponse == <<Arr(<<Str, Arr(<<I32, I16, I64, I64>>)>>)>>
decodeProduceResponse == <<Arr(<<Str, Arr(<<I32, I16, I64, I64>>)>>)>>
Produce == [write  |-> EncodeProduceRequest,  decode |-> DecodeProduceRequest,
            encode |-> EncodeProduceResponse, read   |-> decodeProduceResponse]

Fetch == [write  |-> <<I32, I32, I32, Arr(<<Str, Arr(<<I32, I64, I32>>)>>)>>,
          decode |-> <<I32, I32, I32, Arr(<<Str, Arr(<<I32, I64, I32>>)>>)>>,
          encode |-> <<Arr(<<Str, Arr(<<I32, I16, I64, Bytes>>)>>)>>,
          read   |-> <<Arr(<<Str, Arr(<<I32, I16, I64, Bytes>>)>>)>>]

Metadata ==
    LET Brokers == Arr(<<I32, Str, I32>>)
        Topics  == Arr(<<I16, Str, Arr(<<I16, I32, I32, Arr(<<I32>>), Arr(<<I32>>)>>)>>)
    IN [write  |-> <<Arr(<<Str>>)>>,
        decode |-> <<Arr(<<Str>>)>>,
        encode |-> <<Brokers, Topics>>,
        read   |-> <<Brokers, Topics>>]

OffsetCommit ==
    [write  |-> <<Str, I32, Str, I64, Arr(<<Str, Arr(<<I32, I64, Str>>)>>)>>,
     decode |-> <<Str, I32, Str, I64, Arr(<<Str, Arr(<<I32, I64, Str>>)>>)>>,
     encode |-> <<Arr(<<Str, Arr(<<I32, I16>>)>>)>>,
     read   |-> <<Arr(<<Str, Arr(<<I32, I16>>)>>)>>]

OffsetFetch == [write  |-> <<Str, Arr(<<Str, Arr(<<I32>>)>>)>>,
                decode |-> <<Str, Arr(<<Str, Arr(<<I32>>)>>)>>,
                encode |-> <<I16, Arr(<<Str, Arr(<<I32, I64, Str, I16>>)>>)>>,
                read   |-> <<I16, Arr(<<Str, Arr(<<I32, I64, Str, I16>>)>>)>>]

FindCoordinator == [write  |-> <<Str>>,
                    decode |-> <<Str>>,
                    encode |-> <<I16, I32, Str, I32>>,
                    read   |-> <<I16, I32, Str, I32>>]

JoinGroup == [write  |-> <<Str, I32, I32, Str, Str, Arr(<<Str, Bytes>>)>>,
              decode |-> <<Str, I32, I32, Str, Str, Arr(<<Str, Bytes>>)>>,
              encode |-> <<I16, I32, Str, Str, Str, Arr(<<Str, Bytes>>)>>,
              read   |-> <<I16, I32, Str, Str, Str, Arr(<<Str, Bytes>>)>>]

SyncGroup == [write  |-> <<Str, I32, Str, Arr(<<Str, Bytes>>)>>,
              decode |-> <<Str, I32, Str, Arr(<<Str, Bytes>>)>>,
              encode |-> <<I16, Bytes>>,
              read   |-> <<I16, Bytes>>]

Heartbeat == [write  |-> <<Str, I32, Str>>, decode |-> <<Str, I32, Str>>,
              encode |-> <<I16>>,           read   |-> <<I16>>]

LeaveGroup == [write  |-> <<Str, Str>>, decode |-> <<Str, Str>>,
               encode |-> <<I16>>,      read   |-> <<I16>>]

\* handleApiVersions reads no body.
ApiVersions == [write  |-> <<>>,
                decode |-> <<>>,
                encode |-> <<I16, Arr(<<I16, I16, I16>>)>>,
                read   |-> <<I16, Arr(<<I16, I16, I16>>)>>]

InitProducerId == [write  |-> <<NStr, I32>>,
                   decode |-> <<NStr, I32>>,
                   encode |-> <<I16, I64, I16>>,
                   read   |-> <<I16, I64, I16>>]

AddPartitionsToTxn == [write  |-> <<Str, I64, I16, Arr(<<Str, Arr(<<I32>>)>>)>>,
                       decode |-> <<Str, I64, I16, Arr(<<Str, Arr(<<I32>>)>>)>>,
                       encode |-> <<Arr(<<Str, Arr(<<I32, I16>>)>>)>>,
                       read   |-> <<Arr(<<Str, Arr(<<I32, I16>>)>>)>>]

\* Committed is a byte, true unless zero.
EndTxn == [write  |-> <<Str, I64, I16, I8>>, decode |-> <<Str, I64, I16, I8>>,
           encode |-> <<I16>>,               read   |-> <<I16>>]

SaslHandshake == [write  |-> <<Str>>,
                  decode |-> <<Str>>,
                  encode |-> <<I16, Arr(<<Str>>)>>,
                  read   |-> <<I16, Arr(<<Str>>)>>]

SaslAuthenticate == [write  |-> <<Bytes>>,
                     decode |-> <<Bytes>>,
                     encode |-> <<I16, NStr, Bytes>>,
                     read   |-> <<I16, NStr, Bytes>>]
-------------------------------------------------------------------------------
\* The numbers of the APIs, and the keys HandleRequest dispatches on.
ApiKeys ==
    [Produce |-> 0, Fetch |-> 1, Metadata |-> 3, OffsetCommit |-> 8, OffsetFetch |-> 9,
     FindCoordinator |-> 10, JoinGroup |-> 11, Heartbeat |-> 12, LeaveGroup |-> 13,
     SyncGroup |-> 14, SaslHandshake |-> 17, ApiVersions |-> 18, InitProducerId |-> 22,
     AddPartitionsToTxn |-> 24, EndTxn |-> 26, SaslAuthenticate |-> 36]

\* HandleRequest: the functions that serve an API.
HandleRequest ==
    [Produce |-> Produce, Fetch |-> Fetch, Metadata |-> Metadata,
     OffsetCommit |-> OffsetCommit, OffsetFetch |-> OffsetFetch,
     FindCoordinator |-> FindCoordinator, JoinGroup |-> JoinGroup, Heartbeat |-> Heartbeat,
     LeaveGroup |-> LeaveGroup, SyncGroup |-> SyncGroup, SaslHandshake |-> SaslHandshake,
     ApiVersions |-> ApiVersions, InitProducerId |-> InitProducerId,
     AddPartitionsToTxn |-> AddPartitionsToTxn, EndTxn |-> EndTxn,
     SaslAuthenticate |-> SaslAuthenticate]

\* The keys, with their versions, that ApiVersions reports.
DefaultApiVersionResponse ==
    <<0, << <<0, 0, 8>>, <<1, 0, 8>>, <<3, 0, 5>>, <<17, 0, 1>>, <<18, 0, 3>>, <<22, 0, 3>>,
            <<24, 0, 3>>, <<26, 0, 3>>, <<36, 0, 1>>, <<10, 0, 0>>, <<13, 0, 0>> >> >>
=============================================================================
