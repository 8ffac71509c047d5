-------------------------------- MODULE Wire --------------------------------
(***************************************************************************)
(* The primitive types of internal/protocol: how a value becomes bytes and *)
(* how it is read back.  A byte has Base values, 256 in the code; a        *)
(* smaller Base brings the limits of the 16 and 32 bit lengths within      *)
(* reach.                                                                  *)
(***************************************************************************)
EXTENDS Integers, Sequences, SequencesExt

CONSTANTS Base,                  \* values of a byte
          MaxProtocolFieldBytes, \* limit on a byte field
          MaxProtocolArrayLen    \* limit on an array

ASSUME WireAssumption ==
    /\ Base \in Nat /\ Base > 1 /\ Base % 2 = 0
    /\ MaxProtocolFieldBytes \in Nat /\ MaxProtocolArrayLen \in Nat

Byte == 0..(Base - 1)

\* What the broker reads is limited; the clients under cmd/ read any length.
BrokerLimits == [fieldBytes |-> MaxProtocolFieldBytes, arrayLen |-> MaxProtocolArrayLen]
ClientLimits == [fieldBytes |-> Base^4, arrayLen |-> Base^4]

\* A nil *string; no string of bytes equals it.
Null == <<-1>>
-------------------------------------------------------------------------------
(* Writers *)

\* WriteInt8 .. WriteInt64: big endian, in two's complement; the conversion of
\* a value that does not fit wraps.
WriteInt(v, w) == [i \in 1..w |-> ((v % Base^w) \div Base^(w - i)) % Base]

WriteString(s) == WriteInt(Len(s), 2) \o s

WriteNullableString(s) == IF s = Null THEN WriteInt(-1, 2) ELSE WriteString(s)

WriteBytes(s) == WriteInt(Len(s), 4) \o s
-------------------------------------------------------------------------------
(* Readers: what was read and the rest of the input, or an error. *)

Ok(v, rest) == [ok |-> TRUE, value |-> v, rest |-> rest]
Error == [ok |-> FALSE]

\* if err != nil { return err }: go on with what was read, or end in the error.
Then(result, Continue(_)) ==
    CHOOSE r \in {IF x.ok THEN Continue(x) ELSE Error : x \in {result}} : TRUE

\* io.ReadFull of n bytes.
ReadFull(in, n) ==
    IF Len(in) < n THEN Error ELSE Ok(SubSeq(in, 1, n), SubSeq(in, n + 1, Len(in)))

\* The value of big endian bytes, without sign.
Unsigned(s) == FoldLeft(LAMBDA acc, b : acc * Base + b, 0, s)

\* ReadInt8 .. ReadInt64.
ReadInt(in, w) ==
    Then(ReadFull(in, w), LAMBDA r :
        Ok(LET u == Unsigned(r.value) IN IF u >= Base^w \div 2 THEN u - Base^w ELSE u, r.rest))

\* A length of zero or less is the empty string.
ReadString(in) ==
    Then(ReadInt(in, 2), LAMBDA n :
        IF n.value <= 0 THEN Ok(<<>>, n.rest) ELSE ReadFull(n.rest, n.value))

ReadNullableString(in) ==
    Then(ReadInt(in, 2), LAMBDA n :
        IF n.value < 0 THEN Ok(Null, n.rest) ELSE ReadFull(n.rest, n.value))

\* A length above the limit is an error before anything is allocated.
ReadBytes(in, limits) ==
    Then(ReadInt(in, 4), LAMBDA n :
        IF n.value <= 0 THEN Ok(<<>>, n.rest)
        ELSE IF n.value > limits.fieldBytes THEN Error
        ELSE ReadFull(n.rest, n.value))

\* A negative count is an empty array, one above the limit an error.
ReadArrayCount(in, limits) ==
    Then(ReadInt(in, 4), LAMBDA n :
        IF n.value < 0 THEN Ok(0, n.rest)
        ELSE IF n.value > limits.arrayLen THEN Error
        ELSE n)
=============================================================================
