--------------------------- MODULE MCConnection ---------------------------
(* Connection with the messages of Dispatch, in four shapes: ordinary,     *)
(* empty, at the limits of lengths and integers, and beyond them.          *)
EXTENDS Connection, Dispatch

Ordinary == [int |-> "small", len |-> 1, bytes |-> 2, count |-> 1, null |-> FALSE]
Smallest == [int |-> "min", len |-> 0, bytes |-> 0, count |-> 0, null |-> TRUE]
Largest  == [int |-> "max", len |-> Base^2 \div 2 - 1, bytes |-> MaxProtocolFieldBytes,
             count |-> MaxProtocolArrayLen, null |-> FALSE]
TooLarge == [int |-> "small", len |-> 2, bytes |-> MaxProtocolFieldBytes + 1,
             count |-> MaxProtocolArrayLen + 1, null |-> FALSE]

MCRequests ==
    <<{Request(api, shape, 1) : api \in Apis, shape \in {Ordinary, Smallest, Largest, TooLarge}}
        \cup {UnknownRequest(1)},
      {Request("Produce", Ordinary, 2), UnknownRequest(2)}>>
MCAnswerShapes == {Ordinary, Largest}
===========================================================================
