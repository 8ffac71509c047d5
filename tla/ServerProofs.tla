----------------------------- MODULE ServerProofs -----------------------------
(***************************************************************************)
(* Proofs about the TCP server: Server, for any number of clients and      *)
(* viewers, and Connection, for any requests and codecs that round-trip.   *)
(*                                                                         *)
(* Server.  That nothing is cut off when the process ends needs three      *)
(* facts together: the wait group counts exactly the connections that are  *)
(* being handled; once Wait has returned the only ones are those Start     *)
(* counts afterwards; and with the listener closed Start has at most one   *)
(* left to count.                                                          *)
(*                                                                         *)
(* Connection.  Each direction is a string without marks in it, so that    *)
(* one wrong size shifts everything behind it.  The invariant says of what *)
(* it is the concatenation: to the broker the frames of the requests it    *)
(* has not read, to the client, together with the writes still to be made, *)
(* the frames of the answers the client has not read.                      *)
(***************************************************************************)
EXTENDS Server, Connection, FiniteSetTheorems, SequenceTheorems, TLAPS

\* The connections that run Handle.
Handled == {c \in Clients : conn[c] \in {"idle", "busy"}}

TypeOK == conn \in [Clients -> {"away", "backlog", "accepted", "idle", "busy", "closed"}]

\* Every goroutine that runs Handle is counted once, and nothing else is.
WaitGroup == IsFiniteSet(Handled) /\ wg = Cardinality(Handled)

\* A connection is late only after Wait has returned, and then only late ones
\* are left.
LateOnly ==
    /\ main \notin {"stopped", "exited"} => late = {}
    /\ main \in {"stopped", "exited"} => Handled \subseteq late

\* With the listener closed, Start counts the connection it holds and no other.
LastAccepted ==
    listener = "closed" => \/ late = {}
                           \/ start # "add" /\ \E c \in Clients : late = {c}

IInv == TypeOK /\ WaitGroup /\ LateOnly /\ LastAccepted
-------------------------------------------------------------------------------
LEMMA InitInv == Init => IInv
<1> SUFFICES ASSUME Init PROVE IInv
  OBVIOUS
<1>1. Handled = {}
  BY DEF Init, Handled
<1>2. WaitGroup
  BY <1>1, FS_EmptySet DEF Init, WaitGroup
<1> QED
  BY <1>2 DEF Init, IInv, TypeOK, LateOnly, LastAccepted

\* A step that handles the same connections as before and leaves the counters
\* alone.
LEMMA SameHandled ==
    ASSUME IInv, TypeOK', Handled' = Handled, UNCHANGED <<wg, late, listener>>,
           start' = "add" => start = "add",
           main' \in {"stopped", "exited"} <=> main \in {"stopped", "exited"}
    PROVE  IInv'
<1>1. WaitGroup'
  BY DEF IInv, WaitGroup
<1>2. LateOnly'
  BY DEF IInv, LateOnly
<1>3. LastAccepted'
  BY DEF IInv, LastAccepted
<1> QED
  BY <1>1, <1>2, <1>3 DEF IInv

\* wg.Add: the connection Start has accepted is handled from now on.
LEMMA AddInv == ASSUME IInv, NEW c \in Clients, Add(c) PROVE IInv'
<1>1. /\ conn[c] = "accepted" /\ start = "add" /\ conn' = [conn EXCEPT ![c] = "idle"]
      /\ wg' = wg + 1 /\ start' = "accept" /\ listener' = listener /\ main' = main
      /\ late' = IF main = "stopped" THEN late \cup {c} ELSE late
      /\ main # "exited"
  BY DEF Add, Running
<1>2. /\ conn'[c] = "idle" /\ TypeOK'
      /\ \A d \in Clients \ {c} : conn'[d] = conn[d]
  BY <1>1 DEF IInv, TypeOK
<1>3. Handled' = Handled \cup {c} /\ c \notin Handled
  BY <1>1, <1>2 DEF Handled
<1>4. WaitGroup'
  BY <1>1, <1>3, FS_AddElement DEF IInv, WaitGroup
<1>5. LateOnly'
  BY <1>1, <1>3 DEF IInv, LateOnly
<1>6. LastAccepted'
  BY <1>1 DEF IInv, LastAccepted
<1> QED
  BY <1>2, <1>4, <1>5, <1>6 DEF IInv

\* wg.Done: the connection is handled no longer, its client gone or its request
\* refused.
LEMMA HandleReturnsInv ==
    ASSUME IInv, NEW c \in Clients, HandleReturns(c) \/ RefuseRequest(c)
    PROVE  IInv'
<1>1. /\ conn[c] \in {"idle", "busy"} /\ conn' = [conn EXCEPT ![c] = "closed"]
      /\ wg' = wg - 1 /\ UNCHANGED <<main, listener, start, late>>
  BY DEF HandleReturns, RefuseRequest
<1>2. /\ conn'[c] = "closed" /\ TypeOK'
      /\ \A d \in Clients \ {c} : conn'[d] = conn[d]
  BY <1>1 DEF IInv, TypeOK
<1>3. Handled' = Handled \ {c} /\ c \in Handled
  BY <1>1, <1>2 DEF Handled
<1>4. WaitGroup'
  BY <1>1, <1>3, FS_RemoveElement DEF IInv, WaitGroup
<1>5. LateOnly' /\ LastAccepted'
  BY <1>1, <1>3 DEF IInv, LateOnly, LastAccepted
<1> QED
  BY <1>2, <1>4, <1>5 DEF IInv

\* The other steps of a client and of its connection.
LEMMA ConnectionInv ==
    ASSUME IInv, NEW c \in Clients,
           \/ Dial(c) \/ SendRequest(c) \/ Disconnect(c)
           \/ Accept(c) \/ ReadRequest(c) \/ WriteAnswer(c)
    PROVE  IInv'
<1>1. CASE Dial(c)
  <2>1. TypeOK' /\ Handled' = Handled
    BY <1>1 DEF Dial, IInv, TypeOK, Handled
  <2> QED
    BY <1>1, <2>1, SameHandled DEF Dial
<1>2. CASE SendRequest(c) \/ Disconnect(c)
  <2>1. TypeOK' /\ Handled' = Handled
    BY <1>2 DEF SendRequest, Disconnect, IInv, TypeOK, Handled
  <2> QED
    BY <1>2, <2>1, SameHandled DEF SendRequest, Disconnect
<1>3. CASE Accept(c)
  <2>1. TypeOK' /\ Handled' = Handled
    BY <1>3 DEF Accept, IInv, TypeOK, Handled
  <2>2. WaitGroup' /\ LateOnly'
    BY <1>3, <2>1 DEF Accept, IInv, WaitGroup, LateOnly
  <2>3. LastAccepted'
    BY <1>3 DEF Accept, LastAccepted
  <2> QED
    BY <2>1, <2>2, <2>3 DEF IInv
<1>4. CASE ReadRequest(c)
  <2>1. TypeOK' /\ Handled' = Handled
    BY <1>4 DEF ReadRequest, IInv, TypeOK, Handled
  <2> QED
    BY <1>4, <2>1, SameHandled DEF ReadRequest
<1>5. CASE WriteAnswer(c)
  <2>1. TypeOK' /\ Handled' = Handled
    BY <1>5 DEF WriteAnswer, IInv, TypeOK, Handled
  <2> QED
    BY <1>5, <2>1, SameHandled DEF WriteAnswer
<1> QED
  BY <1>1, <1>2, <1>3, <1>4, <1>5

LEMMA StartInv == ASSUME IInv, Bind \/ AcceptFails PROVE IInv'
<1>1. /\ UNCHANGED <<conn, wg, late, main>>
      /\ start' # "add"
      /\ listener' = "closed" => listener = "closed"
  BY DEF Bind, AcceptFails
<1>2. TypeOK' /\ Handled' = Handled
  BY <1>1 DEF IInv, TypeOK, Handled
<1>3. WaitGroup' /\ LateOnly' /\ LastAccepted'
  BY <1>1, <1>2 DEF IInv, WaitGroup, LateOnly, LastAccepted
<1> QED
  BY <1>2, <1>3 DEF IInv

\* Closing the listener resets connections nobody has accepted: none is handled.
LEMMA CloseListenerInv == ASSUME IInv, CloseListener PROVE IInv'
<1>1. /\ main = "close" /\ main' = "wait" /\ UNCHANGED <<wg, late, start>>
      /\ conn' = [c \in Clients |->
                    IF listener = "open" /\ conn[c] = "backlog" THEN "closed" ELSE conn[c]]
  BY DEF CloseListener
<1>2. TypeOK' /\ Handled' = Handled
  BY <1>1 DEF IInv, TypeOK, Handled
<1>3. late = {} /\ late' = {}
  BY <1>1 DEF IInv, LateOnly
<1>4. WaitGroup' /\ LateOnly' /\ LastAccepted'
  BY <1>1, <1>2, <1>3 DEF IInv, WaitGroup, LateOnly, LastAccepted
<1> QED
  BY <1>2, <1>4 DEF IInv

\* wg.Wait returns when no connection is handled.
LEMMA WaitDoneInv == ASSUME IInv, WaitDone PROVE IInv'
<1>1. /\ main = "wait" /\ wg = 0 /\ main' = "stopped"
      /\ UNCHANGED <<conn, wg, late, start, listener>>
  BY DEF WaitDone, tcp
<1>2. TypeOK' /\ Handled' = Handled
  BY <1>1 DEF IInv, TypeOK, Handled
<1>3. Handled = {}
  BY <1>1, FS_EmptySet DEF IInv, WaitGroup
<1>4. WaitGroup' /\ LateOnly' /\ LastAccepted'
  BY <1>1, <1>2, <1>3 DEF IInv, WaitGroup, LateOnly, LastAccepted
<1> QED
  BY <1>2, <1>4 DEF IInv

\* The other steps of main, the cleaner and the web UI.
LEMMA OtherInv ==
    ASSUME IInv, UNCHANGED <<conn, wg, late, start, listener>>,
           main' \in {"stopped", "exited"} <=> main \in {"stopped", "exited"}
    PROVE  IInv'
<1>1. TypeOK' /\ Handled' = Handled
  BY DEF IInv, TypeOK, Handled
<1> QED
  BY <1>1, SameHandled

LEMMA MainInv ==
    ASSUME IInv, Signal \/ ServerError \/ CleanerStopped \/ StopUI \/ CloseQuit \/ Exit
    PROVE  IInv'
<1>1. /\ UNCHANGED <<conn, wg, late, start, listener>>
      /\ main' \in {"stopped", "exited"} <=> main \in {"stopped", "exited"}
  BY DEF Signal, ServerError, CleanerStopped, StopUI, CloseQuit, Exit, tcp
<1> QED
  BY <1>1, OtherInv

LEMMA BesideInv ==
    ASSUME IInv,
           \/ CleanTick \/ CycleEnds \/ StopSeen \/ StreamTick
           \/ \E v \in Viewers :
               \/ Upgrade(v) \/ CloseViewer(v) \/ ViewerReads(v)
               \/ NextConn(v) \/ WriteFrame(v) \/ WriteFrameFails(v) \/ ReadLoopEnds(v)
           \/ UNCHANGED vars
    PROVE  IInv'
<1>1. UNCHANGED <<main, conn, wg, late, start, listener>>
  BY DEF CleanTick, CycleEnds, StopSeen, StreamTick, Upgrade, CloseViewer, ViewerReads,
         NextConn, WriteFrame, WriteFrameFails, ReadLoopEnds, vars, tcp
<1> QED
  BY <1>1, OtherInv

LEMMA NextInv == IInv /\ [Next]_vars => IInv'
  BY AddInv, HandleReturnsInv, ConnectionInv, StartInv, CloseListenerInv, WaitDoneInv,
     MainInv, BesideInv DEF Next

\* When Stop lets the process end, every connection it had to wait for has
\* ended, and with the listener closed at most one was counted too late, for
\* any number of clients (TCPServer.Start, TCPServer.Stop).
THEOREM StopCutsNothingOff == Spec => []NothingCutOff
<1>1. IInv => NothingCutOff
  <2> SUFFICES ASSUME IInv, main = "exited" PROVE NothingCutOff
    BY DEF NothingCutOff
  <2>1. \A c \in Clients : conn[c] \in {"idle", "busy"} => c \in late
    BY DEF IInv, LateOnly, Handled
  <2>2. ASSUME listener = "closed" PROVE Cardinality(late) <= 1
    <3>1. late = {} \/ \E c \in Clients : late = {c}
      BY <2>2 DEF IInv, LastAccepted
    <3>2. CASE late = {}
      BY <3>2, FS_EmptySet
    <3>3. CASE \E c \in Clients : late = {c}
      <4>1. Cardinality(late) = 1
        BY <3>3, FS_Singleton
      <4> QED
        BY <4>1
    <3> QED
      BY <3>1, <3>2, <3>3
  <2> QED
    BY <2>1, <2>2 DEF NothingCutOff
<1>2. Spec => []IInv
  BY InitInv, NextInv, PTL DEF Spec
<1> QED
  BY <1>1, <1>2, PTL
-------------------------------------------------------------------------------
(* Connection: strings that are frames one after the other *)

\* String s is the frames F[lo + 1] to F[hi] one after the other: frame i ends
\* after cut[i] bytes.
Cuts(s, F, lo, hi, cut) ==
    /\ cut[lo] = 0 /\ cut[hi] = Len(s)
    /\ \A i, j \in lo..hi : i <= j => cut[i] <= cut[j]
    /\ \A i \in (lo + 1)..hi :
        /\ cut[i] = cut[i - 1] + Len(F[i])
        /\ \A j \in 1..Len(F[i]) : s[cut[i - 1] + j] = F[i][j]

Joined(s, F, lo, hi) == \E cut \in [lo..hi -> Nat] : Cuts(s, F, lo, hi, cut)

Framed(F, lo, hi) == \A i \in (lo + 1)..hi : F[i] \in Seq(Byte)

Agree(F, G, lo, hi) == \A i \in (lo + 1)..hi : G[i] = F[i]

\* G is F with the n last bytes of frame hi missing.
CutShort(F, G, lo, hi, n) ==
    /\ Agree(F, G, lo, hi - 1)
    /\ n <= Len(F[hi]) /\ G[hi] = SubSeq(F[hi], 1, Len(F[hi]) - n)

\* Position j of a part of m bytes that starts after a bytes.
LEMMA Within ==
  ASSUME NEW a \in Nat, NEW m \in Nat, NEW l \in Int, a + m <= l, NEW j \in 1..m
  PROVE  a + j \in 1..l
  OBVIOUS

\* A size is four bytes.
LEMMA WriteIntLen ==
  ASSUME NEW n
  PROVE  Len(WriteInt(n, 4)) = 4
  BY DEF WriteInt

\* No frame makes the empty string.
LEMMA JoinedNone ==
  ASSUME NEW F, NEW n \in Int
  PROVE  Joined(<<>>, F, n, n)
<1> DEFINE cut == [i \in n..n |-> 0]
<1>1. cut \in [n..n -> Nat]
  OBVIOUS
<1>2. Cuts(<<>>, F, n, n, cut)
  BY DEF Cuts
<1> QED
  BY <1>1, <1>2 DEF Joined

\* And only the empty string.
LEMMA JoinedNothing ==
  ASSUME NEW F, NEW n \in Int, NEW s \in Seq(Byte), Joined(s, F, n, n)
  PROVE  s = <<>>
  BY DEF Joined, Cuts
\* One more frame at the end.
LEMMA JoinedAppend ==
  ASSUME NEW F, NEW G, NEW lo \in Int, NEW hi \in Int, lo <= hi,
         NEW s \in Seq(Byte), Joined(s, F, lo, hi),
         Framed(G, lo, hi + 1), Agree(F, G, lo, hi)
  PROVE  Joined(s \o G[hi + 1], G, lo, hi + 1)
<1>1. PICK cut \in [lo..hi -> Nat] : Cuts(s, F, lo, hi, cut)
  BY DEF Joined
<1>F. G[hi + 1] \in Seq(Byte)
  BY DEF Framed
<1> DEFINE t == s \o G[hi + 1]
           new == [i \in lo..(hi + 1) |-> IF i = hi + 1 THEN Len(t) ELSE cut[i]]
<1>2. /\ \A i \in 1..Len(s) : t[i] = s[i]
      /\ \A i \in 1..Len(G[hi + 1]) : t[Len(s) + i] = G[hi + 1][i]
  BY <1>F
<1>N. /\ Len(s) \in Nat /\ Len(G[hi + 1]) \in Nat
      /\ Len(t) = Len(s) + Len(G[hi + 1])
  BY <1>F
<1>3. \A i \in lo..hi : cut[i] \in Nat /\ cut[i] <= Len(s) /\ new[i] = cut[i]
  BY <1>1, SMTT(30) DEF Cuts
<1>4. new[hi + 1] = Len(t)
  OBVIOUS
<1>5. new \in [lo..(hi + 1) -> Nat]
  BY <1>N, <1>3
<1> HIDE DEF t, new
<1>6. ASSUME NEW i \in lo..(hi + 1), NEW j \in lo..(hi + 1), i <= j
      PROVE  new[i] <= new[j]
  <2>1. CASE j = hi + 1
    <3>1. i \in lo..hi \/ i = hi + 1
      OBVIOUS
    <3>2. i \in lo..hi => new[i] \in Nat /\ new[i] <= Len(s)
      BY <1>3
    <3> QED
      BY <2>1, <3>1, <3>2, <1>4, <1>N, SMTT(30)
  <2>2. CASE j # hi + 1
    <3>1. i \in lo..hi /\ j \in lo..hi
      BY <2>2, <1>6
    <3>2. cut[i] <= cut[j]
      BY <3>1, <1>1, <1>6 DEF Cuts
    <3> QED
      BY <3>1, <3>2, <1>3
  <2> QED
    BY <2>1, <2>2
<1>7. ASSUME NEW i \in (lo + 1)..(hi + 1)
      PROVE  /\ new[i] = new[i - 1] + Len(G[i])
             /\ \A j \in 1..Len(G[i]) : t[new[i - 1] + j] = G[i][j]
  <2>1. CASE i = hi + 1
    <3>1. new[hi] = Len(s)
      BY <1>1, <1>3 DEF Cuts
    <3>2. i - 1 = hi
      BY <2>1
    <3> QED
      BY <2>1, <3>1, <3>2, <1>2, <1>4, <1>N
  <2>2. CASE i # hi + 1
    <3>0. /\ i \in (lo + 1)..hi /\ i \in lo..hi /\ i - 1 \in lo..hi
      BY <2>2
    <3>1. /\ i \in (lo + 1)..hi /\ i \in lo..hi /\ i - 1 \in lo..hi
          /\ G[i] = F[i] /\ Len(G[i]) \in Nat
      BY <3>0 DEF Framed, Agree
    <3>2. cut[i] = cut[i - 1] + Len(G[i])
      BY <3>1, <1>1 DEF Cuts
    <3>5. \A j \in 1..Len(G[i]) : s[cut[i - 1] + j] = G[i][j]
      BY <3>1, <1>1 DEF Cuts
    <3>3. /\ new[i] = cut[i] /\ new[i - 1] = cut[i - 1]
          /\ cut[i - 1] \in Nat /\ cut[i] \in Nat /\ cut[i] <= Len(s)
      BY <3>1, <1>3
    <3>4. ASSUME NEW j \in 1..Len(G[i]) PROVE t[new[i - 1] + j] = G[i][j]
      <4>0. cut[i - 1] + Len(G[i]) <= Len(s)
        BY <3>2, <3>3
      <4>1. cut[i - 1] + j \in 1..Len(s)
        <5>1. cut[i - 1] \in Nat /\ Len(G[i]) \in Nat /\ Len(s) \in Nat
          BY <3>1, <3>3, <1>N
        <5> QED
          BY <4>0, <5>1, SMTT(30)
      <4> QED
        BY <4>1, <3>1, <3>5, <3>3, <1>2
    <3> QED
      BY <3>1, <3>2, <3>3, <3>4
  <2> QED
    BY <2>1, <2>2
<1>8. new[lo] = 0
  BY <1>1, <1>3 DEF Cuts
<1>9. Cuts(t, G, lo, hi + 1, new)
  BY <1>4, <1>6, <1>7, <1>8 DEF Cuts
<1>10. Joined(t, G, lo, hi + 1)
  BY <1>5, <1>9 DEF Joined
<1> QED
  BY <1>10 DEF t

\* The string begins with the first frame; the rest is the other frames.
LEMMA JoinedHead ==
  ASSUME NEW F, NEW lo \in Int, NEW hi \in Int, lo < hi,
         NEW s \in Seq(Byte), Joined(s, F, lo, hi), Framed(F, lo, hi)
  PROVE  /\ Len(F[lo + 1]) <= Len(s)
         /\ \A j \in 1..Len(F[lo + 1]) : s[j] = F[lo + 1][j]
         /\ Joined(SubSeq(s, Len(F[lo + 1]) + 1, Len(s)), F, lo + 1, hi)
<1>1. PICK cut \in [lo..hi -> Nat] : Cuts(s, F, lo, hi, cut)
  BY DEF Joined
<1> DEFINE n == Len(F[lo + 1])
           t == SubSeq(s, n + 1, Len(s))
           new == [i \in (lo + 1)..hi |-> cut[i] - n]
<1>2. n \in Nat /\ Len(s) \in Nat
  BY DEF Framed
<1>3. \A i \in (lo + 1)..hi : i \in lo..hi /\ cut[i] \in Nat /\ n <= cut[i] /\ cut[i] <= Len(s)
  <2>1. cut[lo + 1] = n
    BY <1>1, <1>2 DEF Cuts
  <2> HIDE DEF n
  <2> QED
    BY <2>1, <1>1, <1>2 DEF Cuts
<1>4. n <= Len(s) /\ \A j \in 1..n : s[j] = F[lo + 1][j]
  <2>1. /\ lo + 1 \in (lo + 1)..hi /\ cut[lo + 1 - 1] = 0
    BY <1>1 DEF Cuts
  <2>2. \A j \in 1..n : s[cut[lo + 1 - 1] + j] = F[lo + 1][j]
    BY <2>1, <1>1 DEF Cuts
  <2> HIDE DEF n
  <2> QED
    BY <2>1, <2>2, <1>2, <1>3
<1> HIDE DEF n
<1>5. Len(t) = Len(s) - n /\ \A i \in 1..(Len(s) - n) : t[i] = s[n + i]
  BY <1>2, <1>4
<1>6. /\ \A i \in (lo + 1)..hi : new[i] = cut[i] - n
      /\ new \in [(lo + 1)..hi -> Nat]
  BY <1>2, <1>3
<1> HIDE DEF t, new
<1>7. new[lo + 1] = 0 /\ new[hi] = Len(t)
  <2>1. cut[lo + 1] = n
    BY <1>1, <1>2 DEF Cuts, n
  <2>2. cut[hi] = Len(s)
    BY <1>1 DEF Cuts
  <2>3. new[lo + 1] = n - n /\ new[hi] = Len(s) - n
    BY <2>1, <2>2, <1>6
  <2>4. Len(t) = Len(s) - n
    BY <1>5
  <2> QED
    BY <2>3, <2>4, <1>2
<1>8. ASSUME NEW i \in (lo + 1)..hi, NEW j \in (lo + 1)..hi, i <= j
      PROVE  new[i] <= new[j]
  <2>1. cut[i] <= cut[j]
    BY <1>1, <1>3, <1>8 DEF Cuts
  <2>2. new[i] = cut[i] - n /\ new[j] = cut[j] - n /\ cut[i] \in Nat /\ cut[j] \in Nat
    BY <1>3, <1>6
  <2> QED
    BY <2>1, <2>2, <1>2
<1>9. ASSUME NEW i \in (lo + 1 + 1)..hi
      PROVE  /\ new[i] = new[i - 1] + Len(F[i])
             /\ \A j \in 1..Len(F[i]) : t[new[i - 1] + j] = F[i][j]
  <2>1. i \in (lo + 1)..hi /\ i - 1 \in (lo + 1)..hi /\ Len(F[i]) \in Nat
    BY DEF Framed
  <2>2. cut[i] = cut[i - 1] + Len(F[i])
    BY <2>1, <1>1 DEF Cuts
  <2>5. \A j \in 1..Len(F[i]) : s[cut[i - 1] + j] = F[i][j]
    BY <2>1, <1>1 DEF Cuts
  <2>3. /\ new[i] = cut[i] - n /\ new[i - 1] = cut[i - 1] - n
        /\ cut[i] \in Nat /\ cut[i] <= Len(s) /\ cut[i - 1] \in Nat /\ n <= cut[i - 1]
    BY <2>1, <1>3, <1>6
  <2>4. ASSUME NEW j \in 1..Len(F[i]) PROVE t[new[i - 1] + j] = F[i][j]
    <3>0. cut[i - 1] + Len(F[i]) <= Len(s)
      BY <2>2, <2>3
    <3>1. /\ cut[i - 1] - n + j \in 1..(Len(s) - n)
          /\ n + (cut[i - 1] - n + j) = cut[i - 1] + j
      <4>1. cut[i - 1] \in Nat /\ Len(F[i]) \in Nat /\ n <= cut[i - 1]
        BY <2>1, <2>3
      <4> QED
        <5>1. cut[i - 1] - n \in Nat /\ Len(s) - n \in Int /\ j \in Nat
          BY <4>1, <1>2
        <5>2. cut[i - 1] - n + Len(F[i]) <= Len(s) - n
          BY <3>0, <4>1, <1>2, SMTT(30)
        <5>3. n + (cut[i - 1] - n + j) = cut[i - 1] + j
          BY <4>1, <5>1, <1>2, SMTT(30)
        <5>4. cut[i - 1] - n + j \in 1..(Len(s) - n)
          BY <4>1, <5>1, <5>2, Within
        <5> QED
          BY <5>3, <5>4
    <3> QED
      BY <3>1, <2>3, <2>5, <1>5
  <2> QED
    BY <2>1, <2>2, <2>3, <2>4, <1>2, SMTT(30)
<1>10. Cuts(t, F, lo + 1, hi, new)
  BY <1>7, <1>8, <1>9 DEF Cuts
<1>11. Joined(t, F, lo + 1, hi)
  BY <1>6, <1>10 DEF Joined
<1> QED
  BY <1>4, <1>11 DEF t, n

\* The last frame is cut short by n bytes.
LEMMA JoinedShort ==
  ASSUME NEW F, NEW G, NEW lo \in Int, NEW hi \in Int, lo < hi,
         NEW s \in Seq(Byte), Joined(s, F, lo, hi), Framed(F, lo, hi),
         NEW n \in Nat, CutShort(F, G, lo, hi, n)
  PROVE  n <= Len(s) /\ Joined(SubSeq(s, 1, Len(s) - n), G, lo, hi)
<1>1. PICK cut \in [lo..hi -> Nat] : Cuts(s, F, lo, hi, cut)
  BY DEF Joined
<1> DEFINE t == SubSeq(s, 1, Len(s) - n)
           new == [i \in lo..hi |-> IF i = hi THEN Len(s) - n ELSE cut[i]]
<1>2. /\ Len(F[hi]) \in Nat /\ Len(s) \in Nat /\ n \in Nat /\ n <= Len(F[hi])
      /\ Len(G[hi]) = Len(F[hi]) - n
  BY SMTT(30) DEF Framed, CutShort
<1>G. \A j \in 1..Len(G[hi]) : G[hi][j] = F[hi][j]
  BY DEF Framed, CutShort
<1>3. hi \in (lo + 1)..hi /\ hi - 1 \in lo..hi
  OBVIOUS
<1>4. /\ cut[hi] = Len(s) /\ cut[hi] = cut[hi - 1] + Len(F[hi])
      /\ cut[hi - 1] \in Nat
  BY <1>1, <1>3 DEF Cuts
<1>S. \A j \in 1..Len(F[hi]) : s[cut[hi - 1] + j] = F[hi][j]
  BY <1>1, <1>3 DEF Cuts
<1>L. Len(s) = cut[hi - 1] + Len(F[hi])
  BY <1>4
<1>5. n <= Len(s) /\ cut[hi - 1] <= Len(s) - n
  BY <1>2, <1>4, <1>L, SMTT(30)
<1>6. Len(t) = Len(s) - n /\ \A i \in 1..(Len(s) - n) : t[i] = s[i]
  BY <1>2, <1>5
<1>7. \A i \in lo..(hi - 1) : new[i] = cut[i] /\ cut[i] \in Nat /\ cut[i] <= cut[hi - 1]
  BY <1>1 DEF Cuts
<1>8. new[hi] = Len(s) - n
  OBVIOUS
<1>9. new \in [lo..hi -> Nat]
  BY <1>2, <1>5
<1> HIDE DEF t, new
<1>10. ASSUME NEW i \in lo..hi, NEW j \in lo..hi, i <= j
      PROVE  new[i] <= new[j]
  <2>1. CASE j = hi
    <3>1. i \in lo..(hi - 1) \/ i = hi
      OBVIOUS
    <3>2. i \in lo..(hi - 1) => new[i] \in Nat /\ new[i] <= cut[hi - 1]
      BY <1>7
    <3>3. CASE i = hi
      BY <2>1, <3>3, <1>2, <1>5, <1>8
    <3>4. CASE i \in lo..(hi - 1)
      <4>1. new[i] \in Nat /\ new[i] <= cut[hi - 1] /\ cut[hi - 1] \in Nat
        BY <3>2, <3>4, <1>4
      <4>2. new[j] = Len(s) - n /\ Len(s) - n \in Int /\ cut[hi - 1] <= Len(s) - n
        BY <2>1, <1>2, <1>5, <1>8
      <4> QED
        BY <4>1, <4>2, SMTT(30)
    <3> QED
      BY <3>1, <3>3, <3>4
  <2>2. CASE j # hi
    <3>1. i \in lo..(hi - 1) /\ j \in lo..(hi - 1) /\ i \in lo..hi /\ j \in lo..hi
      BY <2>2, <1>10
    <3>2. cut[i] <= cut[j]
      BY <3>1, <1>1, <1>10 DEF Cuts
    <3> QED
      BY <3>1, <3>2, <1>7
  <2> QED
    BY <2>1, <2>2
<1>11. new[lo] = 0
  BY <1>1, <1>7 DEF Cuts
<1>12. ASSUME NEW i \in (lo + 1)..hi
      PROVE  /\ new[i] = new[i - 1] + Len(G[i])
             /\ \A j \in 1..Len(G[i]) : t[new[i - 1] + j] = G[i][j]
  <2>1. CASE i = hi
    <3>3. hi - 1 \in lo..(hi - 1)
      OBVIOUS
    <3>4. new[hi - 1] = cut[hi - 1]
      BY <3>3, <1>7
    <3>1. new[hi] = new[hi - 1] + Len(G[hi]) /\ new[hi - 1] = cut[hi - 1]
      BY <3>4, <1>2, <1>4, <1>8, <1>L, SMTT(30)
    <3>2. ASSUME NEW j \in 1..Len(G[hi]) PROVE t[new[hi - 1] + j] = G[hi][j]
      <4>1. cut[hi - 1] + j \in 1..(Len(s) - n) /\ j \in 1..Len(F[hi])
        BY <1>2, <1>4, <1>L, SMTT(30)
      <4> QED
        BY <4>1, <3>1, <1>G, <1>S, <1>6
    <3> QED
      BY <2>1, <3>1, <3>2
  <2>2. CASE i # hi
    <3>1. /\ i \in lo..(hi - 1) /\ i - 1 \in lo..(hi - 1) /\ i \in (lo + 1)..(hi - 1)
          /\ G[i] = F[i] /\ Len(G[i]) \in Nat
      BY <2>2, SMTT(30) DEF Framed, CutShort, Agree
    <3>2. cut[i] = cut[i - 1] + Len(G[i])
      BY <3>1, <1>1 DEF Cuts
    <3>6. \A j \in 1..Len(F[i]) : s[cut[i - 1] + j] = F[i][j]
      BY <1>1 DEF Cuts
    <3>5. \A j \in 1..Len(G[i]) : s[cut[i - 1] + j] = G[i][j]
      BY <3>1, <3>6
    <3>3. /\ new[i] = cut[i] /\ new[i - 1] = cut[i - 1] /\ cut[i - 1] \in Nat
          /\ cut[i] \in Nat /\ cut[i] <= cut[hi - 1]
      BY <3>1, <1>7
    <3>4. ASSUME NEW j \in 1..Len(G[i]) PROVE t[new[i - 1] + j] = G[i][j]
      <4>0. cut[i - 1] + Len(G[i]) <= cut[hi - 1]
        BY <3>2, <3>3
      <4>1. cut[i - 1] + j \in 1..(Len(s) - n)
        <5>1. cut[i - 1] \in Nat /\ Len(G[i]) \in Nat /\ Len(s) - n \in Int /\ cut[hi - 1] \in Nat
          BY <3>1, <3>3, <1>2, <1>4
        <5>2. cut[hi - 1] <= Len(s) - n
          BY <1>5
        <5>3. cut[i - 1] + Len(G[i]) <= Len(s) - n
          BY <4>0, <5>1, <5>2, SMTT(30)
        <5> QED
          BY <5>1, <5>3, Within
      <4> QED
        BY <4>1, <3>1, <3>3, <3>5, <1>6
    <3> QED
      BY <3>1, <3>2, <3>3, <3>4
  <2> QED
    BY <2>1, <2>2
<1>13. Cuts(t, G, lo, hi, new)
  BY <1>6, <1>8, <1>10, <1>11, <1>12 DEF Cuts
<1>14. Joined(t, G, lo, hi)
  BY <1>9, <1>13 DEF Joined
<1> QED
  BY <1>5, <1>14 DEF t
-------------------------------------------------------------------------------
\* String b is the beginning of the frame of r, or goes on after that frame.
Begins(b, r) == \A j \in 1..Len(b) : j <= Len(Frame(r)) => b[j] = Frame(r)[j]

\* Frame hi got through only in part.
Part(b) == \E r \in Sendable : Len(b) < Len(Frame(r)) /\ Begins(b, r)

Carries(s, q, k, whole, hi, F) ==
    /\ k \in -1..Len(q)
    /\ hi = Len(q) \/ (~whole /\ hi = Len(q) + 1 /\ Part(F[hi]))
    /\ F[0] = WriteInt(0, 4) /\ \A i \in 1..Len(q) : F[i] = Frame(q[i])
    /\ Joined(s, F, k, hi)

\* String s holds the frames of the requests q that follow the k-th one, then
\* perhaps a part of another frame unless whole; k = -1 stands for the empty
\* frame before the first request.
Carried(s, q, k, whole) ==
    \E hi \in Nat : \E F \in [0..hi -> Seq(Byte)] : Carries(s, q, k, whole, hi, F)

\* The bytes of a concatenation.
LEMMA Concat ==
  ASSUME NEW s \in Seq(Byte), NEW t \in Seq(Byte)
  PROVE  /\ s \o t \in Seq(Byte) /\ Len(s \o t) = Len(s) + Len(t)
         /\ \A j \in 1..Len(s) : (s \o t)[j] = s[j]
         /\ \A j \in 1..Len(t) : (s \o t)[Len(s) + j] = t[j]
  OBVIOUS

\* A string is its two parts.
LEMMA SplitAt ==
  ASSUME NEW s \in Seq(Byte), NEW n \in 0..Len(s)
  PROVE  SubSeq(s, 1, n) \o SubSeq(s, n + 1, Len(s)) = s
<1> DEFINE a == SubSeq(s, 1, n)
           b == SubSeq(s, n + 1, Len(s))
<1>1. a \in Seq(Byte) /\ b \in Seq(Byte) /\ Len(a) = n /\ Len(b) = Len(s) - n
  OBVIOUS
<1>2. \A j \in 1..n : a[j] = s[j]
  OBVIOUS
<1>3. \A j \in 1..(Len(s) - n) : b[j] = s[n + j]
  OBVIOUS
<1> HIDE DEF a, b
<1>4. n \in Nat /\ Len(s) \in Nat /\ n <= Len(s)
  OBVIOUS
<1>5. a \o b \in Seq(Byte) /\ Len(a \o b) = Len(s)
  BY <1>1, <1>4
<1>6. ASSUME NEW j \in 1..Len(s) PROVE (a \o b)[j] = s[j]
  <2>1. CASE j <= n
    BY <2>1, <1>1, <1>2, <1>4
  <2>2. CASE j \in (n + 1)..Len(s)
    <3>1. j - n \in 1..(Len(s) - n) /\ n + (j - n) = j
      BY <2>2, <1>4
    <3>2. b[j - n] = s[j]
      BY <3>1, <1>3
    <3>3. (a \o b)[j] = b[j - n]
      BY <2>2, <1>1, <1>4
    <3> QED
      BY <3>2, <3>3
  <2> QED
    <3>1. j <= n \/ j \in (n + 1)..Len(s)
      BY <1>4
    <3> QED
      BY <2>1, <2>2, <3>1
<1> QED
  BY <1>5, <1>6, SeqEqual DEF a, b

\* The bytes of a request's frame: the size of the payload, then the payload.
LEMMA FrameBytes ==
  ASSUME NEW r \in Sendable
  PROVE  /\ PayloadOf(r) \in Seq(Byte) /\ SizeFits(Len(PayloadOf(r)))
         /\ Len(PayloadOf(r)) \in Nat \ {0}
         /\ Frame(r) \in Seq(Byte) /\ Len(Frame(r)) = 4 + Len(PayloadOf(r))
         /\ \A j \in 1..4 : Frame(r)[j] = WriteInt(Len(PayloadOf(r)), 4)[j]
         /\ \A j \in 1..Len(PayloadOf(r)) : Frame(r)[4 + j] = PayloadOf(r)[j]
<1>1. PayloadOf(r) \in Seq(Byte) /\ PayloadOf(r) # <<>> /\ SizeFits(Len(PayloadOf(r)))
  BY CodecAssumption
<1>2. WriteInt(Len(PayloadOf(r)), 4) \in Seq(Byte) /\ Len(WriteInt(Len(PayloadOf(r)), 4)) = 4
  BY <1>1, WriteIntLen DEF SizeFits
<1>3. Len(PayloadOf(r)) \in Nat \ {0}
  BY <1>1
<1> DEFINE w == WriteInt(Len(PayloadOf(r)), 4)
           p == PayloadOf(r)
<1>4. w \in Seq(Byte) /\ p \in Seq(Byte) /\ Len(w) = 4 /\ Frame(r) = w \o p
  BY <1>1, <1>2 DEF Frame
<1> HIDE DEF w, p
<1>5. /\ w \o p \in Seq(Byte) /\ Len(w \o p) = Len(w) + Len(p)
      /\ \A j \in 1..Len(w) : (w \o p)[j] = w[j]
      /\ \A j \in 1..Len(p) : (w \o p)[Len(w) + j] = p[j]
  BY <1>4, Concat
<1>6. /\ Frame(r) \in Seq(Byte) /\ Len(Frame(r)) = 4 + Len(p)
      /\ \A j \in 1..4 : Frame(r)[j] = w[j]
      /\ \A j \in 1..Len(p) : Frame(r)[4 + j] = p[j]
  BY <1>4, <1>5, Zenon
<1> QED
  BY <1>1, <1>3, <1>6 DEF w, p

\* The empty frame is four bytes.
LEMMA EmptyFrame == WriteInt(0, 4) \in Seq(Byte) /\ Len(WriteInt(0, 4)) = 4
  BY ConnectionAssumption, WriteIntLen DEF SizeFits

\* The four bytes of a size are read as that size.
LEMMA SizeRead ==
  ASSUME NEW s \in Seq(Byte), 4 <= Len(s), NEW n, SizeFits(n),
         \A j \in 1..4 : s[j] = WriteInt(n, 4)[j]
  PROVE  /\ Unsigned(SubSeq(s, 1, 4)) = n
         /\ s = WriteInt(n, 4) \o SubSeq(s, 5, Len(s))
         /\ SubSeq(s, 5, Len(s)) \in Seq(Byte)
<1>1. WriteInt(n, 4) \in Seq(Byte) /\ Len(WriteInt(n, 4)) = 4
  BY WriteIntLen DEF SizeFits
<1>2. SubSeq(s, 1, 4) = WriteInt(n, 4)
  <2>1. SubSeq(s, 1, 4) \in Seq(Byte) /\ Len(SubSeq(s, 1, 4)) = 4
    OBVIOUS
  <2>2. \A j \in 1..4 : SubSeq(s, 1, 4)[j] = s[j]
    OBVIOUS
  <2> QED
    BY <2>1, <2>2, <1>1, SeqEqual
<1>3. SubSeq(s, 1, 4) \o SubSeq(s, 5, Len(s)) = s
  <2>1. 4 \in 0..Len(s) /\ 4 + 1 = 5
    OBVIOUS
  <2> QED
    BY <2>1, SplitAt
<1>4. SubSeq(s, 5, Len(s)) \in Seq(Byte)
  OBVIOUS
<1> QED
  BY <1>2, <1>3, <1>4 DEF SizeFits
\* After the last request, nothing.
LEMMA CarriedNone ==
  ASSUME NEW q \in Seq(Sendable), NEW whole
  PROVE  Carried(<<>>, q, Len(q), whole)
<1> DEFINE F == [i \in 0..Len(q) |-> IF i = 0 THEN WriteInt(0, 4) ELSE Frame(q[i])]
<1>0. Len(q) \in Nat
  OBVIOUS
<1>1. \A i \in 1..Len(q) : q[i] \in Sendable
  OBVIOUS
<1>2. F \in [0..Len(q) -> Seq(Byte)]
  BY <1>0, <1>1, EmptyFrame, FrameBytes
<1>3. F[0] = WriteInt(0, 4) /\ \A i \in 1..Len(q) : F[i] = Frame(q[i])
  BY <1>0
<1>4. Joined(<<>>, F, Len(q), Len(q))
  BY <1>0, JoinedNone
<1> HIDE DEF F
<1>5. Carries(<<>>, q, Len(q), whole, Len(q), F)
  BY <1>0, <1>3, <1>4 DEF Carries
<1> QED
  BY <1>0, <1>2, <1>5 DEF Carried

\* What Carries says of the numbers and strings in it.
LEMMA CarriedTypes ==
  ASSUME NEW q \in Seq(Sendable), NEW k, NEW whole, NEW s,
         NEW hi \in Nat, NEW F \in [0..hi -> Seq(Byte)], Carries(s, q, k, whole, hi, F)
  PROVE  /\ Len(q) \in Nat /\ k \in Int /\ -1 <= k /\ k <= Len(q) /\ k <= hi
         /\ Framed(F, k, hi) /\ Joined(s, F, k, hi)
<1>1. Len(q) \in Nat
  OBVIOUS
<1>2. k \in -1..Len(q) /\ (hi = Len(q) \/ hi = Len(q) + 1) /\ Joined(s, F, k, hi)
  BY DEF Carries
<1>3. k \in Int /\ -1 <= k /\ k <= Len(q) /\ k <= hi
  BY <1>1, <1>2
<1>4. \A i \in (k + 1)..hi : i \in 0..hi
  BY <1>3
<1>5. Framed(F, k, hi)
  BY <1>4 DEF Framed
<1> QED
  BY <1>1, <1>2, <1>3, <1>5

\* Nothing is left once all has been read.
LEMMA CarriedAll ==
  ASSUME NEW q \in Seq(Sendable), NEW s \in Seq(Byte), Carried(s, q, Len(q), TRUE)
  PROVE  s = <<>>
<1>1. PICK hi \in Nat : \E F \in [0..hi -> Seq(Byte)] : Carries(s, q, Len(q), TRUE, hi, F)
  BY DEF Carried
<1>2. PICK F \in [0..hi -> Seq(Byte)] : Carries(s, q, Len(q), TRUE, hi, F)
  BY <1>1
<1>3. hi = Len(q) /\ Joined(s, F, Len(q), hi)
  BY <1>2 DEF Carries
<1> QED
  BY <1>3, JoinedNothing

\* The empty frame is the first four bytes.
LEMMA CarriedEmpty ==
  ASSUME NEW q \in Seq(Sendable), NEW s \in Seq(Byte), NEW whole, Carried(s, q, -1, whole)
  PROVE  /\ 4 <= Len(s) /\ \A j \in 1..4 : s[j] = WriteInt(0, 4)[j]
         /\ Carried(SubSeq(s, 5, Len(s)), q, 0, whole)
<1>1. PICK hi \in Nat : \E F \in [0..hi -> Seq(Byte)] : Carries(s, q, -1, whole, hi, F)
  BY DEF Carried
<1>2. PICK F \in [0..hi -> Seq(Byte)] : Carries(s, q, -1, whole, hi, F)
  BY <1>1
<1>3. Len(q) \in Nat /\ Framed(F, -1, hi) /\ Joined(s, F, -1, hi)
  BY <1>2, CarriedTypes
<1>4. F[0] = WriteInt(0, 4) /\ Len(F[0]) = 4
  BY <1>2, EmptyFrame DEF Carries
<1>5. -1 \in Int /\ -1 < hi /\ -1 + 1 = 0
  OBVIOUS
<1>6. /\ Len(F[0]) <= Len(s)
      /\ \A j \in 1..Len(F[0]) : s[j] = F[0][j]
      /\ Joined(SubSeq(s, Len(F[0]) + 1, Len(s)), F, 0, hi)
  <2>1. /\ Len(F[-1 + 1]) <= Len(s)
        /\ \A j \in 1..Len(F[-1 + 1]) : s[j] = F[-1 + 1][j]
        /\ Joined(SubSeq(s, Len(F[-1 + 1]) + 1, Len(s)), F, -1 + 1, hi)
    <3>1. hi \in Int
      OBVIOUS
    <3> QED
      BY <3>1, <1>3, <1>5, JoinedHead, ZenonT(30)
  <2> QED
    BY <2>1, <1>5, Zenon
<1>7. Joined(SubSeq(s, 5, Len(s)), F, 0, hi)
  <2>1. 4 + 1 = 5
    OBVIOUS
  <2> QED
    BY <2>1, <1>4, <1>6, Zenon
<1>8. Carries(SubSeq(s, 5, Len(s)), q, 0, whole, hi, F)
  BY <1>2, <1>3, <1>7 DEF Carries
<1>9. Carried(SubSeq(s, 5, Len(s)), q, 0, whole)
  BY <1>8 DEF Carried
<1> QED
  BY <1>4, <1>6, <1>9

\* What is left begins with the frame of the next request, or is part of one.
LEMMA CarriedNext ==
  ASSUME NEW q \in Seq(Sendable), NEW s \in Seq(Byte), s # <<>>,
         NEW k \in Nat, NEW whole, Carried(s, q, k, whole)
  PROVE  \E r \in Sendable :
            /\ Begins(s, r)
            /\ \/ k < Len(q) /\ r = q[k + 1] /\ Len(Frame(r)) <= Len(s)
                  /\ Carried(SubSeq(s, Len(Frame(r)) + 1, Len(s)), q, k + 1, whole)
               \/ Len(s) < Len(Frame(r))
<1>1. PICK hi \in Nat : \E F \in [0..hi -> Seq(Byte)] : Carries(s, q, k, whole, hi, F)
  BY DEF Carried
<1>2. PICK F \in [0..hi -> Seq(Byte)] : Carries(s, q, k, whole, hi, F)
  BY <1>1
<1>3. Len(q) \in Nat /\ k <= Len(q) /\ k <= hi /\ Framed(F, k, hi) /\ Joined(s, F, k, hi)
  BY <1>2, CarriedTypes
<1>4. k < hi
  <2>1. k # hi
    BY <1>3, JoinedNothing
  <2> QED
    BY <2>1, <1>3
<1>5. /\ Len(F[k + 1]) <= Len(s)
      /\ \A j \in 1..Len(F[k + 1]) : s[j] = F[k + 1][j]
      /\ Joined(SubSeq(s, Len(F[k + 1]) + 1, Len(s)), F, k + 1, hi)
  BY <1>3, <1>4, JoinedHead, SMTT(30)
<1>6. CASE k < Len(q)
  <2>1. k + 1 \in 1..Len(q) /\ q[k + 1] \in Sendable
    BY <1>3, <1>6
  <2>2. F[k + 1] = Frame(q[k + 1])
    BY <2>1, <1>2 DEF Carries
  <2>3. Begins(s, q[k + 1])
    <3>1. Len(Frame(q[k + 1])) \in Nat /\ Len(s) \in Nat
      <4>1. Frame(q[k + 1]) \in Seq(Byte)
        BY <2>1, FrameBytes
      <4> QED
        BY <4>1
    <3> QED
      BY <3>1, <2>2, <1>5 DEF Begins
  <2>4. Carries(SubSeq(s, Len(Frame(q[k + 1])) + 1, Len(s)), q, k + 1, whole, hi, F)
    <3>1. k + 1 \in -1..Len(q)
      BY <1>3, <1>6
    <3> QED
      BY <3>1, <2>2, <1>2, <1>5 DEF Carries
  <2>5. Carried(SubSeq(s, Len(Frame(q[k + 1])) + 1, Len(s)), q, k + 1, whole)
    BY <2>4 DEF Carried
  <2> QED
    BY <1>5, <1>6, <2>1, <2>2, <2>3, <2>5
<1>7. CASE ~(k < Len(q))
  <2>1. k = Len(q) /\ hi = k + 1 /\ Part(F[hi])
    <3>1. hi = Len(q) \/ (hi = Len(q) + 1 /\ Part(F[hi]))
      BY <1>2 DEF Carries
    <3> QED
      BY <3>1, <1>3, <1>4, <1>7
  <2>2. PICK r \in Sendable : Len(F[hi]) < Len(Frame(r)) /\ Begins(F[hi], r)
    BY <2>1 DEF Part
  <2>3. SubSeq(s, Len(F[hi]) + 1, Len(s)) = <<>>
    <3>1. Joined(SubSeq(s, Len(F[hi]) + 1, Len(s)), F, hi, hi)
      BY <2>1, <1>5
    <3>2. Len(F[hi]) \in Nat
      OBVIOUS
    <3>3. SubSeq(s, Len(F[hi]) + 1, Len(s)) \in Seq(Byte)
      BY <3>2
    <3> DEFINE u == SubSeq(s, Len(F[hi]) + 1, Len(s))
    <3> HIDE DEF u
    <3>4. hi \in Int /\ u \in Seq(Byte) /\ Joined(u, F, hi, hi)
      BY <3>1, <3>3 DEF u
    <3>5. u = <<>>
      BY <3>4, JoinedNothing
    <3> QED
      BY <3>5 DEF u
  <2>4. Len(s) \in Nat /\ Len(F[hi]) \in Nat /\ Len(Frame(r)) \in Nat
    BY FrameBytes, SMTT(30)
  <2>5. Len(s) = Len(F[hi])
    <3>1. Len(F[hi]) <= Len(s)
      BY <2>1, <1>5
    <3>2. ASSUME Len(F[hi]) < Len(s) PROVE FALSE
      <4>1. Len(SubSeq(s, Len(F[hi]) + 1, Len(s))) = Len(s) - Len(F[hi])
        BY <3>2, <2>4
      <4>2. Len(<<>>) = 0
        OBVIOUS
      <4>3. Len(s) - Len(F[hi]) = 0
        BY <4>1, <4>2, <2>3
      <4> QED
        BY <4>3, <3>2, <2>4
    <3> QED
      BY <3>1, <3>2, <2>4
  <2>6. \A j \in 1..Len(s) : s[j] = F[hi][j]
    BY <2>1, <2>5, <1>5
  <2>7. Begins(s, r)
    BY <2>2, <2>5, <2>6 DEF Begins
  <2> QED
    BY <2>2, <2>4, <2>5, <2>7
<1> QED
  BY <1>6, <1>7
\* Another frame is sent.
LEMMA CarriedSend ==
  ASSUME NEW q \in Seq(Sendable), NEW s \in Seq(Byte), NEW k, Carried(s, q, k, TRUE),
         NEW r \in Sendable
  PROVE  Carried(s \o Frame(r), Append(q, r), k, TRUE)
<1>1. PICK hi \in Nat : \E F \in [0..hi -> Seq(Byte)] : Carries(s, q, k, TRUE, hi, F)
  BY DEF Carried
<1>2. PICK F \in [0..hi -> Seq(Byte)] : Carries(s, q, k, TRUE, hi, F)
  BY <1>1
<1>3. /\ Len(q) \in Nat /\ k \in Int /\ -1 <= k /\ k <= Len(q) /\ k <= hi
      /\ Framed(F, k, hi) /\ Joined(s, F, k, hi)
  BY <1>2, CarriedTypes
<1>4. hi = Len(q) /\ F[0] = WriteInt(0, 4) /\ \A i \in 1..Len(q) : F[i] = Frame(q[i])
  BY <1>2 DEF Carries
<1>5. /\ Append(q, r) \in Seq(Sendable) /\ Len(Append(q, r)) = hi + 1
      /\ Append(q, r)[hi + 1] = r /\ \A i \in 1..hi : Append(q, r)[i] = q[i]
  BY <1>4
<1>6. Frame(r) \in Seq(Byte)
  BY FrameBytes
<1> DEFINE G == [i \in 0..(hi + 1) |-> IF i = hi + 1 THEN Frame(r) ELSE F[i]]
<1>7. G \in [0..(hi + 1) -> Seq(Byte)]
  BY <1>6
<1>8. G[hi + 1] = Frame(r) /\ \A i \in 0..hi : G[i] = F[i]
  OBVIOUS
<1> HIDE DEF G
<1>9. Framed(G, k, hi + 1)
  <2>1. \A i \in (k + 1)..(hi + 1) : i \in 0..(hi + 1)
    BY <1>3
  <2> QED
    BY <2>1, <1>7 DEF Framed
<1>10. Agree(F, G, k, hi)
  <2>1. \A i \in (k + 1)..hi : i \in 0..hi
    BY <1>3
  <2> QED
    BY <2>1, <1>8 DEF Agree
<1>11. Joined(s \o G[hi + 1], G, k, hi + 1)
  BY <1>3, <1>9, <1>10, JoinedAppend
<1>12. \A i \in 1..(hi + 1) : G[i] = Frame(Append(q, r)[i])
  <2> TAKE i \in 1..(hi + 1)
  <2>1. CASE i = hi + 1
    BY <2>1, <1>5, <1>8
  <2>2. CASE i # hi + 1
    <3>1. i \in 1..hi /\ i \in 0..hi
      BY <2>2
    <3> QED
      BY <3>1, <1>4, <1>5, <1>8
  <2> QED
    BY <2>1, <2>2
<1>13. G[0] = WriteInt(0, 4)
  BY <1>4, <1>8
<1>14. k \in -1..(hi + 1)
  BY <1>3
<1>15. Carries(s \o Frame(r), Append(q, r), k, TRUE, hi + 1, G)
  BY <1>5, <1>8, <1>11, <1>12, <1>13, <1>14 DEF Carries
<1>16. hi + 1 \in Nat
  OBVIOUS
<1> QED
  BY <1>7, <1>15, <1>16 DEF Carried

\* The last frame loses n bytes.
LEMMA CarriedBreak ==
  ASSUME NEW q \in Seq(Sendable), NEW s \in Seq(Byte), NEW k, Carried(s, q, k, TRUE),
         q # <<>>, k < Len(q), NEW n \in 1..Len(Frame(q[Len(q)]))
  PROVE  Carried(SubSeq(s, 1, Len(s) - n), SubSeq(q, 1, Len(q) - 1), k, FALSE)
<1>1. PICK hi \in Nat : \E F \in [0..hi -> Seq(Byte)] : Carries(s, q, k, TRUE, hi, F)
  BY DEF Carried
<1>2. PICK F \in [0..hi -> Seq(Byte)] : Carries(s, q, k, TRUE, hi, F)
  BY <1>1
<1>3. /\ Len(q) \in Nat /\ k \in Int /\ -1 <= k /\ k <= Len(q) /\ k <= hi
      /\ Framed(F, k, hi) /\ Joined(s, F, k, hi)
  BY <1>2, CarriedTypes
<1>4. hi = Len(q) /\ F[0] = WriteInt(0, 4) /\ \A i \in 1..Len(q) : F[i] = Frame(q[i])
  BY <1>2 DEF Carries
<1>5. k < hi /\ k <= hi - 1
  BY <1>3, <1>4
<1>N. hi \in 1..hi /\ hi - 1 \in Nat /\ hi # 0
  <2>1. hi # 0
    BY <1>4
  <2> QED
    BY <2>1
<1> DEFINE r == q[hi]
<1>6. r \in Sendable /\ F[hi] = Frame(r) /\ n \in 1..Len(Frame(r))
  BY <1>N, <1>4
<1> HIDE DEF r
<1>7. Frame(r) \in Seq(Byte) /\ Len(Frame(r)) \in Nat
  BY <1>6, FrameBytes
<1>8. n \in Nat /\ 1 <= n /\ n <= Len(Frame(r))
  BY <1>6, <1>7
<1> DEFINE b == SubSeq(Frame(r), 1, Len(Frame(r)) - n)
           G == [i \in 0..hi |-> IF i = hi THEN b ELSE F[i]]
<1>9. b \in Seq(Byte) /\ Len(b) = Len(Frame(r)) - n /\ \A j \in 1..Len(b) : b[j] = Frame(r)[j]
  BY <1>7, <1>8, SMTT(30)
<1>10. Part(b)
  <2>1. Len(b) < Len(Frame(r))
    BY <1>7, <1>8, <1>9
  <2>2. Begins(b, r)
    BY <1>9 DEF Begins
  <2> QED
    BY <2>1, <2>2, <1>6 DEF Part
<1> HIDE DEF b
<1>11. G \in [0..hi -> Seq(Byte)]
  BY <1>9
<1>12. G[hi] = b /\ \A i \in 0..(hi - 1) : G[i] = F[i]
  OBVIOUS
<1> HIDE DEF G
<1>13. CutShort(F, G, k, hi, n)
  <2>1. \A i \in (k + 1)..(hi - 1) : i \in 0..(hi - 1)
    BY <1>3
  <2>2. Agree(F, G, k, hi - 1)
    BY <2>1, <1>12 DEF Agree
  <2> QED
    BY <2>2, <1>6, <1>8, <1>12 DEF CutShort, b
<1>14. Joined(SubSeq(s, 1, Len(s) - n), G, k, hi)
  <2>1. hi \in Int
    OBVIOUS
  <2> QED
    BY <2>1, <1>3, <1>5, <1>8, <1>13, JoinedShort, Zenon
<1> DEFINE f == SubSeq(q, 1, Len(q) - 1)
<1>15. Len(f) = hi - 1 /\ \A i \in 1..(hi - 1) : f[i] = q[i]
  BY <1>4, <1>N
<1> HIDE DEF f
<1>16. \A i \in 1..(hi - 1) : G[i] = Frame(f[i])
  <2>1. \A i \in 1..(hi - 1) : i \in 0..(hi - 1) /\ i \in 1..hi
    OBVIOUS
  <2> QED
    BY <2>1, <1>4, <1>12, <1>15
<1>17. G[0] = WriteInt(0, 4)
  BY <1>N, <1>4, <1>12
<1>18. k \in -1..(hi - 1) /\ hi = hi - 1 + 1
  BY <1>3, <1>5
<1>19. Part(G[hi])
  BY <1>10, <1>12
<1>20. Carries(SubSeq(s, 1, Len(s) - n), f, k, FALSE, hi, G)
  BY <1>14, <1>15, <1>16, <1>17, <1>18, <1>19 DEF Carries
<1> QED
  BY <1>11, <1>20 DEF Carried, f

\* The client closes.
LEMMA CarriedClose ==
  ASSUME NEW s, NEW q, NEW k, Carried(s, q, k, TRUE)
  PROVE  Carried(s, q, k, FALSE)
<1>1. PICK hi \in Nat : \E F \in [0..hi -> Seq(Byte)] : Carries(s, q, k, TRUE, hi, F)
  BY DEF Carried
<1>2. PICK F \in [0..hi -> Seq(Byte)] : Carries(s, q, k, TRUE, hi, F)
  BY <1>1
<1>3. Carries(s, q, k, FALSE, hi, F)
  BY <1>2 DEF Carries
<1> QED
  BY <1>3 DEF Carried
\* The bytes of a part.
LEMMA SubSeqBytes ==
  ASSUME NEW s \in Seq(Byte), NEW m \in Nat, NEW n \in Nat, 1 <= m, m <= n + 1, n <= Len(s)
  PROVE  /\ SubSeq(s, m, n) \in Seq(Byte) /\ Len(SubSeq(s, m, n)) = n - m + 1
         /\ \A j \in 1..(n - m + 1) : SubSeq(s, m, n)[j] = s[m + j - 1]
  OBVIOUS

\* Bytes are taken off the front of a string that more will be written to.
LEMMA DropFront ==
  ASSUME NEW s \in Seq(Byte), NEW t \in Seq(Byte), NEW n \in Nat, n <= Len(s)
  PROVE  SubSeq(s, n + 1, Len(s)) \o t = SubSeq(s \o t, n + 1, Len(s \o t))
<1> DEFINE d == SubSeq(s, n + 1, Len(s))
           c == s \o t
           e == SubSeq(c, n + 1, Len(c))
<1>0. Len(s) \in Nat /\ Len(t) \in Nat
  OBVIOUS
<1>1. c \in Seq(Byte) /\ Len(c) = Len(s) + Len(t)
  BY Concat
<1>2. \A j \in 1..Len(s) : c[j] = s[j]
  BY Concat
<1>3. \A j \in 1..Len(t) : c[Len(s) + j] = t[j]
  BY Concat
<1>4. d \in Seq(Byte) /\ Len(d) = Len(s) - n
  BY <1>0
<1>5. \A j \in 1..(Len(s) - n) : d[j] = s[n + j]
  BY <1>0
<1> HIDE DEF c, d
<1>6. e \in Seq(Byte) /\ Len(e) = Len(c) - n
  BY <1>0, <1>1
<1>7. \A j \in 1..(Len(c) - n) : e[j] = c[n + j]
  BY <1>0, <1>1
<1> HIDE DEF e
<1>8. d \o t \in Seq(Byte) /\ Len(d \o t) = Len(s) - n + Len(t)
  BY <1>4, Concat
<1>9. Len(e) = Len(s) - n + Len(t)
  BY <1>0, <1>1, <1>6
<1>10. ASSUME NEW j \in 1..(Len(s) - n + Len(t)) PROVE (d \o t)[j] = e[j]
  <2>1. j \in 1..(Len(c) - n)
    BY <1>0, <1>1
  <2>2. e[j] = c[n + j]
    BY <2>1, <1>7
  <2>3. CASE j \in 1..(Len(s) - n)
    <3>1. n + j \in 1..Len(s)
      BY <2>3, <1>0
    <3>2. (d \o t)[j] = d[j]
      BY <2>3, <1>4, Concat
    <3> QED
      BY <2>2, <2>3, <3>1, <3>2, <1>2, <1>5
  <2>4. CASE j \in (Len(s) - n + 1)..(Len(s) - n + Len(t))
    <3> DEFINE i == j - (Len(s) - n)
    <3>1. i \in 1..Len(t) /\ j = Len(s) - n + i /\ n + j = Len(s) + i
      BY <2>4, <1>0
    <3> HIDE DEF i
    <3>2. (d \o t)[Len(d) + i] = t[i]
      BY <3>1, <1>4, Concat
    <3>3. (d \o t)[j] = t[i]
      BY <3>1, <3>2, <1>4
    <3>4. c[n + j] = t[i]
      BY <3>1, <1>3
    <3> QED
      BY <3>3, <3>4, <2>2
  <2>5. j \in 1..(Len(s) - n) \/ j \in (Len(s) - n + 1)..(Len(s) - n + Len(t))
    BY <1>0
  <2> QED
    BY <2>3, <2>4, <2>5
<1>11. d \o t = e
  BY <1>6, <1>8, <1>9, <1>10, SeqEqual
<1> QED
  BY <1>11 DEF c, d, e

\* The first string goes, and n bytes of the second.
LEMMA DropFirst ==
  ASSUME NEW s \in Seq(Byte), NEW t \in Seq(Byte), NEW n \in Nat, n <= Len(t)
  PROVE  SubSeq(s \o t, Len(s) + n + 1, Len(s \o t)) = SubSeq(t, n + 1, Len(t))
<1> DEFINE c == s \o t
           d == SubSeq(t, n + 1, Len(t))
           e == SubSeq(c, Len(s) + n + 1, Len(c))
<1>0. Len(s) \in Nat /\ Len(t) \in Nat
  OBVIOUS
<1>1. c \in Seq(Byte) /\ Len(c) = Len(s) + Len(t)
  BY Concat
<1>2. \A j \in 1..Len(t) : c[Len(s) + j] = t[j]
  BY Concat
<1>3. d \in Seq(Byte) /\ Len(d) = Len(t) - n
  BY <1>0
<1>4. \A j \in 1..(Len(t) - n) : d[j] = t[n + j]
  BY <1>0
<1> HIDE DEF c, d
<1>5. e \in Seq(Byte) /\ Len(e) = Len(t) - n
  BY <1>0, <1>1
<1>6. \A j \in 1..(Len(t) - n) : e[j] = c[Len(s) + n + j]
  BY <1>0, <1>1
<1> HIDE DEF e
<1>7. ASSUME NEW j \in 1..(Len(t) - n) PROVE e[j] = d[j]
  <2>1. n + j \in 1..Len(t) /\ Len(s) + n + j = Len(s) + (n + j)
    BY <1>0
  <2> QED
    BY <2>1, <1>2, <1>4, <1>6
<1>8. e = d
  BY <1>3, <1>5, <1>7, SeqEqual
<1> QED
  BY <1>8 DEF c, d, e

\* Bytes are taken off the end.
LEMMA DropEnd ==
  ASSUME NEW s \in Seq(Byte), NEW t \in Seq(Byte), NEW n \in Nat, n <= Len(t)
  PROVE  s \o SubSeq(t, 1, Len(t) - n) = SubSeq(s \o t, 1, Len(s \o t) - n)
<1> DEFINE c == s \o t
           d == SubSeq(t, 1, Len(t) - n)
           e == SubSeq(c, 1, Len(c) - n)
<1>0. Len(s) \in Nat /\ Len(t) \in Nat
  OBVIOUS
<1>1. c \in Seq(Byte) /\ Len(c) = Len(s) + Len(t)
  BY Concat
<1>2. \A j \in 1..Len(s) : c[j] = s[j]
  BY Concat
<1>3. \A j \in 1..Len(t) : c[Len(s) + j] = t[j]
  BY Concat
<1>4. d \in Seq(Byte) /\ Len(d) = Len(t) - n
  BY <1>0
<1>5. \A j \in 1..(Len(t) - n) : d[j] = t[j]
  BY <1>0
<1> HIDE DEF c, d
<1>6. e \in Seq(Byte) /\ Len(e) = Len(c) - n
  BY <1>0, <1>1
<1>7. \A j \in 1..(Len(c) - n) : e[j] = c[j]
  BY <1>0, <1>1
<1> HIDE DEF e
<1>8. s \o d \in Seq(Byte) /\ Len(s \o d) = Len(s) + (Len(t) - n)
  BY <1>4, Concat, ZenonT(30)
<1>9. Len(e) = Len(s) + (Len(t) - n)
  BY <1>0, <1>1, <1>6
<1>10. ASSUME NEW j \in 1..(Len(s) + (Len(t) - n)) PROVE (s \o d)[j] = e[j]
  <2>1. j \in 1..(Len(c) - n)
    BY <1>0, <1>1
  <2>2. e[j] = c[j]
    BY <2>1, <1>7
  <2>3. CASE j \in 1..Len(s)
    <3>1. (s \o d)[j] = s[j]
      BY <2>3, <1>4, Concat
    <3> QED
      BY <2>2, <2>3, <3>1, <1>2
  <2>4. CASE j \in (Len(s) + 1)..(Len(s) + (Len(t) - n))
    <3> DEFINE i == j - Len(s)
    <3>1. i \in 1..(Len(t) - n) /\ i \in 1..Len(t) /\ j = Len(s) + i
      BY <2>4, <1>0
    <3> HIDE DEF i
    <3>2. (s \o d)[Len(s) + i] = d[i]
      BY <3>1, <1>4, Concat
    <3>3. c[j] = t[i]
      BY <3>1, <1>3
    <3> QED
      BY <3>1, <3>2, <3>3, <2>2, <1>5
  <2>5. j \in 1..Len(s) \/ j \in (Len(s) + 1)..(Len(s) + (Len(t) - n))
    BY <1>0
  <2> QED
    BY <2>3, <2>4, <2>5
<1>11. s \o d = e
  BY <1>6, <1>8, <1>9, <1>10, SeqEqual
<1> QED
  BY <1>11 DEF c, d, e
-------------------------------------------------------------------------------
\* The frame of an answer, and the frames of all answers given.
AnswerFrame(r, a) ==
    WriteInt(Len(HeaderOf(r)) + Len(BodyOf(r, a)), 4) \o (HeaderOf(r) \o BodyOf(r, a))

AnswerFrames(h, as) == [i \in 1..Len(h) |-> AnswerFrame(h[i], as[i])]

\* The bytes of the writes still to be made.
Rest(writes) ==
    IF writes = <<>> THEN <<>>
    ELSE IF Len(writes) = 1 THEN writes[1]
    ELSE IF Len(writes) = 2 THEN writes[1] \o writes[2]
    ELSE writes[1] \o (writes[2] \o writes[3])

\* The bytes under way to the broker, and before them the size it has read of
\* a request whose payload it has not.
Stream == IF pc = "payload" THEN WriteInt(requestSize, 4) \o toServer ELSE toServer

AnyAnswer == UNION {Answers(r) : r \in Sendable}

ConnTypeOK ==
    /\ toServer \in Seq(Byte) /\ toClient \in Seq(Byte) /\ clientOpen \in BOOLEAN
    /\ pc \in {"size", "payload", "write", "closed"}
    /\ pc = "payload" => requestSize \in Nat \ {0} /\ SizeFits(requestSize)
    /\ sent \in Seq(Sendable) /\ handled \in Seq(Sendable)
    /\ answers \in Seq(AnyAnswer) /\ Len(answers) = Len(handled)
    /\ replies \in Seq({Reply(r, a) : r \in Sendable, a \in AnyAnswer})

\* There is something left to write exactly while Handle writes an answer.
Writing ==
    /\ out \in Seq(Seq(Byte)) /\ Len(out) <= 3
    /\ pc = "write" <=> out # <<>>

\* What was executed is what was sent, and the answers are answers to it.
Executed ==
    /\ Len(handled) <= Len(sent)
    /\ \A i \in 1..Len(handled) : handled[i] = sent[i] /\ answers[i] \in Answers(handled[i])

\* Handle has read k requests, or not yet the empty frame before them.
Position(k) ==
    IF k = -1 THEN handled = <<>> /\ pc \in {"size", "closed"}
    ELSE k \in Nat /\ Len(handled) <= k /\ (pc # "closed" => Len(handled) = k)

\* What is under way to the broker are the frames of the requests it has not
\* read, the first of them without its size if that has been read.
Arriving == \E k \in Int : Position(k) /\ Carried(Stream, sent, k, clientOpen)

\* What is under way to an open client, with the writes still to be made, are
\* the frames of the answers it has not read.
Returning ==
    clientOpen => 
        Joined(toClient \o Rest(out), AnswerFrames(handled, answers), Len(replies), Len(handled))

ConnInv ==
    /\ ConnTypeOK /\ Writing /\ Executed /\ Arriving /\ Returning
    /\ Len(replies) <= Len(handled) /\ AnswersFit
-------------------------------------------------------------------------------
\* The head and tail of a sequence of up to three.
LEMMA UpToThree ==
  ASSUME NEW S, NEW w \in Seq(S), Len(w) <= 3, w # <<>>
  PROVE  /\ Len(w) = 1 \/ Len(w) = 2 \/ Len(w) = 3
         /\ \A i \in 1..Len(w) : w[i] \in S
         /\ Head(w) \in S /\ Head(w) = w[1]
         /\ Tail(w) \in Seq(S) /\ Len(Tail(w)) = Len(w) - 1 /\ Len(Tail(w)) <= 3
         /\ \A i \in 1..(Len(w) - 1) : Tail(w)[i] = w[i + 1]
<1>1. Len(w) \in Nat /\ Len(w) # 0
  OBVIOUS
<1>2. Len(w) = 1 \/ Len(w) = 2 \/ Len(w) = 3
  <2>1. \A n \in Nat : n # 0 /\ n <= 3 => n = 1 \/ n = 2 \/ n = 3
    OBVIOUS
  <2> QED
    BY <2>1, <1>1, Zenon
<1>3. \A i \in 1..Len(w) : w[i] \in S
  OBVIOUS
<1>4. Tail(w) \in Seq(S) /\ Len(Tail(w)) = Len(w) - 1
  OBVIOUS
<1>5. \A i \in 1..(Len(w) - 1) : Tail(w)[i] = w[i + 1]
  BY <1>4, HeadTailProperties
<1>6. Head(w) = w[1] /\ 1 \in 1..Len(w)
  BY <1>1
<1>7. Len(Tail(w)) <= 3 /\ Head(w) \in S
  BY <1>1, <1>3, <1>4, <1>6
<1> QED
  BY <1>2, <1>3, <1>4, <1>5, <1>6, <1>7

\* The rest is a string of bytes.
LEMMA RestBytes ==
  ASSUME NEW w \in Seq(Seq(Byte)), Len(w) <= 3
  PROVE  Rest(w) \in Seq(Byte)
<1>1. CASE w = <<>>
  BY <1>1 DEF Rest
<1>2. ASSUME w # <<>> PROVE Rest(w) \in Seq(Byte)
  <2> DEFINE B == Seq(Byte)
  <2>0. w \in Seq(B)
    OBVIOUS
  <2> HIDE DEF B
  <2>1. (Len(w) = 1 \/ Len(w) = 2 \/ Len(w) = 3) /\ \A i \in 1..Len(w) : w[i] \in B
    BY <1>2, <2>0, UpToThree
  <2>2. CASE Len(w) = 1
    <3>1. w[1] \in B
      BY <2>1, <2>2
    <3> QED
      BY <1>2, <2>2, <3>1, Zenon DEF Rest, B
  <2>3. CASE Len(w) = 2
    <3>1. w[1] \in B /\ w[2] \in B
      BY <2>1, <2>3
    <3>2. w[1] \o w[2] \in B
      BY <3>1, Concat DEF B
    <3>3. Rest(w) = w[1] \o w[2]
      BY <1>2, <2>3 DEF Rest
    <3> QED
      BY <3>2, <3>3 DEF B
  <2>4. CASE Len(w) = 3
    <3>1. w[1] \in B /\ w[2] \in B /\ w[3] \in B
      BY <2>1, <2>4
    <3>2. w[2] \o w[3] \in B
      BY <3>1, Concat DEF B
    <3>3. w[1] \o (w[2] \o w[3]) \in B
      BY <3>1, <3>2, Concat DEF B
    <3>4. Rest(w) = w[1] \o (w[2] \o w[3])
      BY <1>2, <2>4, SMTT(30) DEF Rest
    <3> QED
      BY <3>3, <3>4 DEF B
  <2> QED
    BY <2>1, <2>2, <2>3, <2>4
<1> QED
  BY <1>1, <1>2

\* One write leaves the rest.
LEMMA RestWrite ==
  ASSUME NEW w \in Seq(Seq(Byte)), Len(w) <= 3, w # <<>>
  PROVE  /\ Head(w) \in Seq(Byte) /\ Tail(w) \in Seq(Seq(Byte)) /\ Len(Tail(w)) = Len(w) - 1
         /\ Len(Tail(w)) <= 3 /\ (Len(w) = 1 <=> Tail(w) = <<>>)
         /\ Rest(Tail(w)) \in Seq(Byte) /\ Rest(w) = Head(w) \o Rest(Tail(w))
<1> DEFINE B == Seq(Byte)
           u == Tail(w)
<1>0. w \in Seq(B)
  OBVIOUS
<1> HIDE DEF B
<1>1. /\ Len(w) = 1 \/ Len(w) = 2 \/ Len(w) = 3
      /\ \A i \in 1..Len(w) : w[i] \in B
      /\ Head(w) \in B /\ Head(w) = w[1]
      /\ u \in Seq(B) /\ Len(u) = Len(w) - 1 /\ Len(u) <= 3
      /\ \A i \in 1..(Len(w) - 1) : u[i] = w[i + 1]
  BY <1>0, UpToThree
<1>2. Rest(u) \in B
  BY <1>1, RestBytes DEF B
<1>3. Len(w) = 1 <=> u = <<>>
  <2>1. u \in Seq(B) => (u = <<>> <=> Len(u) = 0)
    BY EmptySeq
  <2>2. Len(w) = 1 <=> Len(u) = 0
    <3>1. Len(u) = Len(w) - 1 /\ (Len(w) = 1 \/ Len(w) = 2 \/ Len(w) = 3)
      BY <1>1
    <3> HIDE DEF u
    <3> QED
      BY <3>1
  <2> QED
    BY <2>1, <2>2, <1>1, Zenon
<1> HIDE DEF u
<1>4. Rest(w) = Head(w) \o Rest(u)
  <2>1. CASE Len(w) = 1
    <3>2. Rest(u) = <<>> /\ Rest(w) = w[1]
      BY <2>1, <1>3 DEF Rest
    <3>3. w[1] \o <<>> = w[1]
      BY <1>1 DEF B
    <3> QED
      BY <3>2, <3>3, <1>1
  <2>2. CASE Len(w) = 2
    <3>1. u # <<>> /\ Len(u) = 1 /\ u[1] = w[2]
      BY <2>2, <1>1, <1>3
    <3>2. Rest(u) = w[2] /\ Rest(w) = w[1] \o w[2]
      BY <2>2, <3>1 DEF Rest
    <3> QED
      BY <3>2, <1>1
  <2>3. CASE Len(w) = 3
    <3>1. u # <<>> /\ Len(u) = 2 /\ u[1] = w[2] /\ u[2] = w[3]
      BY <2>3, <1>1, <1>3
    <3>2. Rest(u) = w[2] \o w[3]
      <4>1. 1 # 2
        OBVIOUS
      <4> QED
        BY <3>1, <4>1, Zenon DEF Rest
    <3>3. Rest(w) = w[1] \o (w[2] \o w[3])
      BY <2>3, SMTT(30) DEF Rest
    <3> QED
      BY <3>2, <3>3, <1>1
  <2> QED
    BY <2>1, <2>2, <2>3, <1>1
<1> QED
  BY <1>1, <1>2, <1>3, <1>4 DEF B, u

\* The bytes of an answer's frame: the size, then header and body.
LEMMA AnswerBytes ==
  ASSUME NEW r \in Sendable, NEW a \in Answers(r)
  PROVE  LET n == Len(HeaderOf(r)) + Len(BodyOf(r, a)) IN
         /\ HeaderOf(r) \in Seq(Byte) /\ BodyOf(r, a) \in Seq(Byte)
         /\ n \in Nat /\ SizeFits(n)
         /\ AnswerFrame(r, a) \in Seq(Byte) /\ Len(AnswerFrame(r, a)) = 4 + n
         /\ \A j \in 1..4 : AnswerFrame(r, a)[j] = WriteInt(n, 4)[j]
         /\ HeaderOf(r) \o BodyOf(r, a) \in Seq(Byte)
         /\ Len(HeaderOf(r) \o BodyOf(r, a)) = n
         /\ \A j \in 1..n : AnswerFrame(r, a)[4 + j] = (HeaderOf(r) \o BodyOf(r, a))[j]
<1> DEFINE n == Len(HeaderOf(r)) + Len(BodyOf(r, a))
           w == WriteInt(n, 4)
           p == HeaderOf(r) \o BodyOf(r, a)
<1>1. HeaderOf(r) \in Seq(Byte) /\ BodyOf(r, a) \in Seq(Byte) /\ SizeFits(n)
  BY CodecAssumption
<1>2. n \in Nat
  BY <1>1
<1>3. p \in Seq(Byte) /\ Len(p) = n
  BY <1>1, Concat
<1>4. w \in Seq(Byte) /\ Len(w) = 4
  BY <1>1, WriteIntLen DEF SizeFits
<1>5. AnswerFrame(r, a) = w \o p
  BY DEF AnswerFrame
<1> HIDE DEF n, w, p
<1>6. /\ w \o p \in Seq(Byte) /\ Len(w \o p) = Len(w) + Len(p)
      /\ \A j \in 1..Len(w) : (w \o p)[j] = w[j]
      /\ \A j \in 1..Len(p) : (w \o p)[Len(w) + j] = p[j]
  BY <1>3, <1>4, Concat
<1>7. /\ AnswerFrame(r, a) \in Seq(Byte) /\ Len(AnswerFrame(r, a)) = 4 + n
      /\ \A j \in 1..4 : AnswerFrame(r, a)[j] = w[j]
      /\ \A j \in 1..n : AnswerFrame(r, a)[4 + j] = p[j]
  BY <1>3, <1>4, <1>5, <1>6, Zenon
<1> QED
  BY <1>1, <1>2, <1>3, <1>7 DEF n, w, p
\* All answers given have a frame.
LEMMA AnswersFramed ==
  ASSUME NEW h \in Seq(Sendable), NEW as, \A i \in 1..Len(h) : as[i] \in Answers(h[i]),
         NEW l \in Nat
  PROVE  /\ Framed(AnswerFrames(h, as), l, Len(h))
         /\ \A i \in 1..Len(h) : AnswerFrames(h, as)[i] = AnswerFrame(h[i], as[i])
<1>1. \A i \in 1..Len(h) : AnswerFrames(h, as)[i] = AnswerFrame(h[i], as[i])
  BY DEF AnswerFrames
<1>2. ASSUME NEW i \in (l + 1)..Len(h) PROVE AnswerFrames(h, as)[i] \in Seq(Byte)
  <2>1. i \in 1..Len(h) /\ h[i] \in Sendable
    OBVIOUS
  <2>2. as[i] \in Answers(h[i])
    BY <2>1
  <2>3. AnswerFrame(h[i], as[i]) \in Seq(Byte)
    BY <2>1, <2>2, AnswerBytes
  <2> QED
    BY <2>1, <2>3, <1>1
<1> QED
  BY <1>1, <1>2 DEF Framed

\* The empty frame a client may start with.
LEMMA CarriedStart == Carried(WriteInt(0, 4), <<>>, -1, TRUE)
<1> DEFINE w == WriteInt(0, 4)
           F == [i \in 0..0 |-> w]
<1>1. w \in Seq(Byte)
  BY EmptyFrame
<1> HIDE DEF w
<1>2. F \in [0..0 -> Seq(Byte)] /\ F[0] = w /\ F[-1 + 1] = w
  BY <1>1
<1>3. Framed(F, -1, 0) /\ Agree(F, F, -1, -1) /\ -1 + 1 = 0 /\ Framed(F, -1, -1 + 1)
  BY <1>1 DEF Framed, Agree
<1> HIDE DEF F
<1>4. Joined(<<>>, F, -1, -1)
  BY JoinedNone
<1>5. Joined(<<>> \o F[-1 + 1], F, -1, -1 + 1)
  <2>1. <<>> \in Seq(Byte) /\ -1 \in Int /\ -1 <= -1
    OBVIOUS
  <2> QED
    BY <2>1, <1>3, <1>4, JoinedAppend
<1>6. <<>> \o w = w
  BY <1>1
<1>7. Joined(w, F, -1, 0)
  BY <1>2, <1>3, <1>5, <1>6
<1>8. Len(<<>>) = 0 /\ -1 \in -1..0 /\ 0 \in Nat /\ 1..0 = {}
  OBVIOUS
<1>9. Carries(w, <<>>, -1, TRUE, 0, F)
  BY <1>2, <1>7, <1>8 DEF Carries, w
<1> QED
  BY <1>2, <1>8, <1>9 DEF Carried, w
-------------------------------------------------------------------------------
\* The new connection.
LEMMA ConnInitInv == ConnInit => ConnInv
<1> SUFFICES ASSUME ConnInit PROVE ConnInv
  OBVIOUS
<1>1. ConnTypeOK
  <2>1. toServer \in Seq(Byte)
    <3>1. <<>> \in Seq(Byte) /\ WriteInt(0, 4) \in Seq(Byte)
      BY EmptyFrame
    <3>2. toServer = <<>> \/ toServer = WriteInt(0, 4)
      BY DEF ConnInit
    <3> QED
      BY <3>1, <3>2
  <2>2. /\ toClient \in Seq(Byte) /\ sent \in Seq(Sendable) /\ handled \in Seq(Sendable)
        /\ answers \in Seq(AnyAnswer) /\ Len(answers) = Len(handled)
        /\ replies \in Seq({Reply(r, a) : r \in Sendable, a \in AnyAnswer})
    BY DEF ConnInit
  <2>3. clientOpen \in BOOLEAN /\ pc = "size"
    BY DEF ConnInit
  <2> QED
    BY <2>1, <2>2, <2>3 DEF ConnTypeOK
<1>2. Writing
  BY DEF ConnInit, Writing
<1>3. Executed /\ Len(replies) <= Len(handled) /\ AnswersFit
  BY DEF ConnInit, Executed, AnswersFit
<1>4. Arriving
  <2>1. CASE toServer = <<>>
    <3>1. Carried(<<>>, <<>>, 0, TRUE)
      <4>1. <<>> \in Seq(Sendable) /\ Len(<<>>) = 0
        OBVIOUS
      <4> QED
        BY <4>1, CarriedNone
    <3>2. Position(0)
      BY DEF ConnInit, Position
    <3>3. Stream = <<>> /\ sent = <<>> /\ clientOpen = TRUE /\ 0 \in Int
      BY <2>1 DEF ConnInit, Stream
    <3> QED
      BY <3>1, <3>2, <3>3 DEF Arriving
  <2>2. CASE toServer = WriteInt(0, 4)
    <3>1. Position(-1)
      BY DEF ConnInit, Position
    <3>2. Stream = WriteInt(0, 4) /\ sent = <<>> /\ clientOpen = TRUE /\ -1 \in Int
      BY <2>2 DEF ConnInit, Stream
    <3> QED
      BY <3>1, <3>2, CarriedStart DEF Arriving
  <2> QED
    BY <2>1, <2>2 DEF ConnInit
<1>5. Returning
  <2>1. Len(<<>>) = 0 /\ 0 \in Int /\ <<>> \o <<>> = <<>>
    OBVIOUS
  <2>2. Joined(<<>>, AnswerFrames(<<>>, <<>>), 0, 0)
    BY <2>1, JoinedNone
  <2>3. Rest(<<>>) = <<>>
    BY DEF Rest
  <2> QED
    BY <2>1, <2>2, <2>3 DEF ConnInit, Returning
<1> QED
  BY <1>1, <1>2, <1>3, <1>4, <1>5 DEF ConnInv

\* Facts about the stream to the broker that the steps need.
LEMMA StreamBytes ==
  ASSUME ConnTypeOK
  PROVE  Stream \in Seq(Byte)
<1>1. CASE pc = "payload"
  <2>1. WriteInt(requestSize, 4) \in Seq(Byte)
    BY <1>1 DEF ConnTypeOK, SizeFits
  <2> QED
    BY <2>1, <1>1, Concat DEF ConnTypeOK, Stream
<1>2. CASE pc # "payload"
  BY <1>2 DEF ConnTypeOK, Stream
<1> QED
  BY <1>1, <1>2

\* The client sends: one more frame is under way.
LEMMA SendStep ==
  ASSUME ConnInv, NEW r \in Sendable, Send(r)
  PROVE  ConnInv'
<1>I. /\ ConnTypeOK /\ Writing /\ Executed /\ Arriving /\ Returning
      /\ Len(replies) <= Len(handled) /\ AnswersFit
  BY DEF ConnInv
<1>1. ConnTypeOK'
  BY <1>I, FrameBytes, Concat DEF ConnTypeOK, Send
<1>2. Writing'
  BY <1>I DEF Writing, Send
<1>3. /\ Len(sent) \in Nat /\ Len(handled) \in Nat /\ Len(replies) \in Nat /\ Len(sent') = Len(sent) + 1
      /\ \A i \in 1..Len(sent) : sent'[i] = sent[i]
  BY <1>I DEF ConnTypeOK, Send
<1>4. Executed'
  BY <1>I, <1>3 DEF Executed, Send
<1>5. Arriving'
  <2>1. PICK k \in Int : Position(k) /\ Carried(Stream, sent, k, clientOpen)
    BY <1>I DEF Arriving
  <2>2. Position(k)'
    BY <2>1 DEF Position, Send
  <2>3. Stream' = Stream \o Frame(r)
    <3>1. CASE pc = "payload"
      <4>1. WriteInt(requestSize, 4) \in Seq(Byte) /\ toServer \in Seq(Byte) /\ Frame(r) \in Seq(Byte)
        BY <1>I, <3>1, FrameBytes DEF ConnTypeOK, SizeFits
      <4>2. WriteInt(requestSize, 4) \o (toServer \o Frame(r)) = (WriteInt(requestSize, 4) \o toServer) \o Frame(r)
        BY <4>1, ConcatAssociative, SMTT(30)
      <4> QED
        BY <3>1, <4>2 DEF Stream, Send
    <3>2. CASE pc # "payload"
      BY <3>2 DEF Stream, Send
    <3> QED
      BY <3>1, <3>2
  <2>4. Carried(Stream \o Frame(r), Append(sent, r), k, TRUE)
    <3>1. clientOpen = TRUE /\ sent \in Seq(Sendable)
      BY <1>I DEF Send, ConnTypeOK
    <3>2. Carried(Stream, sent, k, TRUE)
      BY <3>1, <2>1
    <3> QED
      BY <1>I, <3>1, <3>2, StreamBytes, CarriedSend
  <2>5. clientOpen' = TRUE /\ sent' = Append(sent, r)
    BY <1>I DEF Send, ConnTypeOK
  <2> QED
    BY <1>I, <2>2, <2>3, <2>4, <2>5 DEF Arriving
<1>6. Returning'
  BY <1>I DEF Returning, Send
<1>7. Len(replies') <= Len(handled')
  BY <1>I DEF Send
<1>8. AnswersFit'
  <2>1. \A i \in DOMAIN replies : i \in 1..Len(sent)
    BY <1>I, <1>3 DEF ConnTypeOK, Executed
  <2> QED
    BY <1>I, <2>1, <1>3 DEF AnswersFit, Send
<1> QED
  BY <1>1, <1>2, <1>4, <1>5, <1>6, <1>7, <1>8 DEF ConnInv

\* The client closes: nothing under way changes.
LEMMA CloseStep ==
  ASSUME ConnInv, Close
  PROVE  ConnInv'
<1>I. /\ ConnTypeOK /\ Writing /\ Executed /\ Arriving /\ Returning
      /\ Len(replies) <= Len(handled) /\ AnswersFit
  BY DEF ConnInv
<1>1. ConnTypeOK'
  <2>1. clientOpen' \in BOOLEAN
    BY DEF Close
  <2>2. /\ toServer' = toServer /\ toClient' = toClient /\ pc' = pc /\ requestSize' = requestSize
        /\ sent' = sent /\ handled' = handled /\ answers' = answers /\ replies' = replies
    BY DEF Close
  <2> QED
    BY <1>I, <2>1, <2>2 DEF ConnTypeOK
<1>4. Writing'
  BY <1>I DEF Writing, Close
<1>5. Executed'
  BY <1>I DEF Executed, Close
<1>2. Arriving'
  <2>1. PICK k \in Int : Position(k) /\ Carried(Stream, sent, k, clientOpen)
    BY <1>I DEF Arriving
  <2>2. Position(k)' /\ Stream' = Stream
    BY <2>1 DEF Position, Stream, Close
  <2>3. Carried(Stream, sent, k, FALSE)
    <3>1. clientOpen = TRUE
      BY <1>I DEF Close, ConnTypeOK
    <3> QED
      BY <3>1, <2>1, CarriedClose
  <2> QED
    BY <1>I, <2>2, <2>3 DEF Arriving, Close
<1>3. Returning' /\ Len(replies') <= Len(handled') /\ AnswersFit'
  BY <1>I DEF Returning, AnswersFit, Close
<1> QED
  BY <1>1, <1>2, <1>3, <1>4, <1>5 DEF ConnInv
\* A sequence without its last element.
LEMMA FrontOf ==
  ASSUME NEW S, NEW q \in Seq(S), q # <<>>
  PROVE  /\ SubSeq(q, 1, Len(q) - 1) \in Seq(S) /\ Len(SubSeq(q, 1, Len(q) - 1)) = Len(q) - 1
         /\ \A i \in 1..(Len(q) - 1) : SubSeq(q, 1, Len(q) - 1)[i] = q[i]
  OBVIOUS

\* The connection breaks: the last frame is cut short, and it was not the one
\* Handle has executed.
LEMMA BreakStep ==
  ASSUME ConnInv, Break
  PROVE  ConnInv'
<1>I. /\ ConnTypeOK /\ Writing /\ Executed /\ Arriving /\ Returning
      /\ Len(replies) <= Len(handled) /\ AnswersFit
  BY DEF ConnInv
<1>1. PICK n \in 1..Len(Frame(Last(sent))) : toServer' = SubSeq(toServer, 1, Len(toServer) - n)
  BY DEF Break
<1> DEFINE r == sent[Len(sent)]
<1>2. /\ sent \in Seq(Sendable) /\ sent # <<>> /\ Last(sent) = r /\ clientOpen = TRUE
      /\ toServer \in Seq(Byte) /\ Len(Frame(r)) <= Len(toServer)
      /\ sent' = SubSeq(sent, 1, Len(sent) - 1) /\ clientOpen' = FALSE
      /\ UNCHANGED <<toClient, pc, requestSize, out, handled, answers, replies>>
  BY <1>I DEF ConnTypeOK, Break, Last, Front
<1>3. Len(sent) \in Nat \ {0} /\ r \in Sendable
  BY <1>2
<1> HIDE DEF r
<1>4. Len(Frame(r)) \in Nat /\ Len(toServer) \in Nat
  BY <1>2, <1>3, FrameBytes, SMTT(30)
<1>5. n \in Nat /\ 1 <= n /\ n <= Len(Frame(r)) /\ n <= Len(toServer)
  BY <1>2, <1>4
<1>6. toServer' \in Seq(Byte)
  BY <1>1, <1>2, <1>4, <1>5
<1>7. /\ sent' \in Seq(Sendable) /\ Len(sent') = Len(sent) - 1
      /\ \A i \in 1..(Len(sent) - 1) : sent'[i] = sent[i]
  BY <1>2, FrontOf, Zenon
<1>8. ConnTypeOK'
  <2>1. clientOpen' \in BOOLEAN
    BY <1>2
  <2>2. /\ toClient' = toClient /\ pc' = pc /\ requestSize' = requestSize
        /\ handled' = handled /\ answers' = answers /\ replies' = replies
    BY <1>2
  <2> QED
    BY <1>I, <2>1, <2>2, <1>6, <1>7 DEF ConnTypeOK
<1>9. Writing'
  BY <1>I, <1>2 DEF Writing
<1>10. PICK k \in Int : Position(k) /\ Carried(Stream, sent, k, TRUE)
  BY <1>I, <1>2 DEF Arriving
<1>11. Stream \in Seq(Byte) /\ Stream # <<>>
  <2>1. CASE pc = "payload"
    <3>1. WriteInt(requestSize, 4) \in Seq(Byte) /\ Len(WriteInt(requestSize, 4)) = 4
      BY <1>I, <2>1, WriteIntLen DEF ConnTypeOK, SizeFits
    <3>4. Stream = WriteInt(requestSize, 4) \o toServer
      BY <2>1 DEF Stream
    <3>5. /\ WriteInt(requestSize, 4) \o toServer \in Seq(Byte)
          /\ Len(WriteInt(requestSize, 4) \o toServer) = Len(WriteInt(requestSize, 4)) + Len(toServer)
      BY <3>1, <1>2, Concat
    <3>2. Len(Stream) = 4 + Len(toServer) /\ Stream \in Seq(Byte)
      BY <3>1, <3>4, <3>5, Zenon
    <3>3. Len(Stream) # 0
      BY <3>2, <1>4
    <3> QED
      BY <3>2, <3>3
  <2>2. CASE pc # "payload"
    <3>1. toServer # <<>>
      BY <1>2, <1>4, <1>5
    <3> QED
      BY <2>2, <3>1, <1>2 DEF Stream
  <2> QED
    BY <2>1, <2>2
<1>12. k < Len(sent)
  <2>1. k # Len(sent)
    <3> SUFFICES ASSUME k = Len(sent) PROVE FALSE
      OBVIOUS
    <3> QED
      BY <1>2, <1>10, <1>11, CarriedAll
  <2>2. k <= Len(sent)
    <3>1. PICK hi \in Nat : \E F \in [0..hi -> Seq(Byte)] : Carries(Stream, sent, k, TRUE, hi, F)
      BY <1>10 DEF Carried
    <3>2. k \in -1..Len(sent)
      BY <3>1 DEF Carries
    <3> QED
      BY <3>2, <1>3
  <2> QED
    BY <2>1, <2>2, <1>3
<1>13. Stream' = SubSeq(Stream, 1, Len(Stream) - n)
  <2>1. CASE pc = "payload"
    <3>1. WriteInt(requestSize, 4) \in Seq(Byte)
      BY <1>I, <2>1 DEF ConnTypeOK, SizeFits
    <3>2. WriteInt(requestSize, 4) \o SubSeq(toServer, 1, Len(toServer) - n)
            = SubSeq(WriteInt(requestSize, 4) \o toServer, 1, Len(WriteInt(requestSize, 4) \o toServer) - n)
      BY <3>1, <1>2, <1>5, DropEnd
    <3> QED
      BY <2>1, <3>2, <1>1, <1>2 DEF Stream
  <2>2. CASE pc # "payload"
    BY <2>2, <1>1, <1>2 DEF Stream
  <2> QED
    BY <2>1, <2>2
<1>14. Carried(Stream', sent', k, FALSE)
  <2>1. n \in 1..Len(Frame(sent[Len(sent)]))
    BY <1>4, <1>5 DEF r
  <2>2. Carried(SubSeq(Stream, 1, Len(Stream) - n), SubSeq(sent, 1, Len(sent) - 1), k, FALSE)
    BY <2>1, <1>2, <1>10, <1>11, <1>12, CarriedBreak
  <2> QED
    BY <2>2, <1>2, <1>13
<1>15. Arriving'
  <2>1. Position(k)'
    BY <1>2, <1>10 DEF Position
  <2> QED
    BY <1>I, <2>1, <1>2, <1>14 DEF Arriving
<1>16. Len(handled) \in Nat /\ Len(handled) <= Len(sent) - 1
  <2>1. Len(handled) \in Nat
    BY <1>I DEF ConnTypeOK
  <2>2. CASE k = -1
    <3>1. handled = <<>>
      BY <2>2, <1>10 DEF Position
    <3>2. Len(handled) = 0
      BY <3>1
    <3> QED
      BY <3>2, <1>3
  <2>3. CASE k # -1
    <3>1. Len(handled) <= k
      BY <2>3, <1>10 DEF Position
    <3> QED
      BY <2>1, <3>1, <1>3, <1>12
  <2> QED
    BY <2>1, <2>2, <2>3
<1>17. Executed'
  <2>1. \A i \in 1..Len(handled) : i \in 1..(Len(sent) - 1)
    BY <1>3, <1>16
  <2> QED
    BY <1>I, <2>1, <1>2, <1>7, <1>16 DEF Executed
<1>18. Returning' /\ Len(replies') <= Len(handled')
  BY <1>I, <1>2 DEF Returning
<1>19. AnswersFit'
  <2>1. \A i \in DOMAIN replies : i \in 1..(Len(sent) - 1)
    BY <1>I, <1>3, <1>16 DEF ConnTypeOK
  <2> QED
    BY <1>I, <2>1, <1>2, <1>7 DEF AnswersFit
<1> QED
  BY <1>8, <1>9, <1>15, <1>17, <1>18, <1>19 DEF ConnInv
\* The first frame of s \o t is the answer a to r; if s holds all of it, it can
\* be read and taken off.
Taken(s, t, F, lo, hi, r, a) ==
    LET n == Unsigned(SubSeq(s, 1, 4)) IN
    /\ n = Len(HeaderOf(r)) + Len(BodyOf(r, a))
    /\ 4 + n <= Len(s) =>
        /\ SubSeq(s, 5, 4 + n) = HeaderOf(r) \o BodyOf(r, a)
        /\ SubSeq(s, 5 + n, Len(s)) \in Seq(Byte)
        /\ Joined(SubSeq(s, 5 + n, Len(s)) \o t, F, lo + 1, hi)

\* The m bytes after the size.
LEMMA AfterSize ==
  ASSUME NEW s \in Seq(Byte), NEW m \in Nat, 4 + m <= Len(s)
  PROVE  /\ SubSeq(s, 5, 4 + m) \in Seq(Byte) /\ Len(SubSeq(s, 5, 4 + m)) = m
         /\ \A j \in 1..m : SubSeq(s, 5, 4 + m)[j] = s[4 + j]
  OBVIOUS

\* The client takes the first frame, whose answer belongs to its oldest open
\* request.
LEMMA TakeAnswer ==
  ASSUME NEW s \in Seq(Byte), NEW t \in Seq(Byte), NEW F, NEW lo \in Nat, NEW hi \in Nat,
         lo <= hi, Framed(F, lo, hi), Joined(s \o t, F, lo, hi), 4 <= Len(s)
  PROVE  /\ lo < hi
         /\ \A r \in Sendable : \A a \in Answers(r) :
               F[lo + 1] = AnswerFrame(r, a) => Taken(s, t, F, lo, hi, r, a)
<1> DEFINE c == s \o t
<1>0. Len(s) \in Nat /\ Len(t) \in Nat
  OBVIOUS
<1>1. c \in Seq(Byte) /\ Len(c) = Len(s) + Len(t)
  BY Concat
<1>2. \A j \in 1..Len(s) : c[j] = s[j]
  BY Concat
<1>C. Joined(c, F, lo, hi)
  OBVIOUS
<1> HIDE DEF c
<1>3. lo < hi
  <2>1. lo # hi
    <3> SUFFICES ASSUME lo = hi PROVE FALSE
      OBVIOUS
    <3>1. c = <<>>
      BY <1>1, <1>C, JoinedNothing
    <3>2. Len(c) = 0
      BY <3>1
    <3>3. Len(s) + Len(t) = 0
      BY <3>2, <1>1
    <3> QED
      BY <3>3, <1>0
  <2> QED
    BY <2>1
<1>4. /\ Len(F[lo + 1]) <= Len(c)
      /\ \A j \in 1..Len(F[lo + 1]) : c[j] = F[lo + 1][j]
      /\ Joined(SubSeq(c, Len(F[lo + 1]) + 1, Len(c)), F, lo + 1, hi)
  <2>1. lo \in Int /\ hi \in Int
    OBVIOUS
  <2> QED
    BY <2>1, <1>1, <1>3, <1>C, JoinedHead, Zenon
<1>5. ASSUME NEW r \in Sendable, NEW a \in Answers(r), F[lo + 1] = AnswerFrame(r, a)
      PROVE  Taken(s, t, F, lo, hi, r, a)
  <2> DEFINE m == Len(HeaderOf(r)) + Len(BodyOf(r, a))
             p == HeaderOf(r) \o BodyOf(r, a)
             f == AnswerFrame(r, a)
  <2>1. /\ m \in Nat /\ SizeFits(m) /\ f \in Seq(Byte) /\ Len(f) = 4 + m
        /\ p \in Seq(Byte) /\ Len(p) = m
    BY AnswerBytes
  <2>2. \A j \in 1..4 : f[j] = WriteInt(m, 4)[j]
    BY AnswerBytes
  <2>3. \A j \in 1..m : f[4 + j] = p[j]
    BY AnswerBytes
  <2>4. F[lo + 1] = f
    BY <1>5
  <2> HIDE DEF m, p, f
  <2>5. \A j \in 1..4 : s[j] = WriteInt(m, 4)[j]
    <3>1. \A j \in 1..4 : j \in 1..Len(s) /\ j \in 1..Len(f)
      BY <1>0, <2>1
    <3> QED
      BY <3>1, <1>2, <1>4, <2>2, <2>4
  <2>6. Unsigned(SubSeq(s, 1, 4)) = m
    BY <2>1, <2>5, SizeRead
  <2>7. ASSUME 4 + m <= Len(s)
        PROVE  /\ SubSeq(s, 5, 4 + m) = p
               /\ SubSeq(s, 5 + m, Len(s)) \in Seq(Byte)
               /\ Joined(SubSeq(s, 5 + m, Len(s)) \o t, F, lo + 1, hi)
    <3>1. 4 + m \in Nat
      BY <2>1
    <3>2. SubSeq(s, 5, 4 + m) \in Seq(Byte) /\ Len(SubSeq(s, 5, 4 + m)) = m
      BY <2>1, <2>7, AfterSize
    <3>3. ASSUME NEW j \in 1..m PROVE SubSeq(s, 5, 4 + m)[j] = p[j]
      <4>1. 4 + j \in 1..Len(s) /\ 4 + j \in 1..Len(f) /\ 5 + j - 1 = 4 + j
        BY <2>1, <2>7, <1>0
      <4>2. SubSeq(s, 5, 4 + m)[j] = s[4 + j]
        BY <2>1, <2>7, AfterSize
      <4> QED
        BY <4>1, <4>2, <1>2, <1>4, <2>3, <2>4
    <3>4. SubSeq(s, 5, 4 + m) = p
      BY <2>1, <3>2, <3>3, SeqEqual
    <3>5. 5 + m = 4 + m + 1 /\ 1 <= 5 + m /\ 5 + m <= Len(s) + 1 /\ 5 + m \in Nat
      BY <2>1, <2>7, <1>0
    <3>6. SubSeq(s, 5 + m, Len(s)) \in Seq(Byte)
      BY <3>5, <1>0, SubSeqBytes
    <3>7. SubSeq(s, 4 + m + 1, Len(s)) \o t = SubSeq(s \o t, 4 + m + 1, Len(s \o t))
      BY <2>7, <3>1, DropFront
    <3>8. Joined(SubSeq(c, 4 + m + 1, Len(c)), F, lo + 1, hi)
      BY <1>4, <2>1, <2>4
    <3> QED
      BY <3>4, <3>5, <3>6, <3>7, <3>8 DEF c
  <2> QED
    BY <2>6, <2>7 DEF m, p, Taken
<1> QED
  BY <1>3, <1>5

\* The client reads an answer.
LEMMA ReceiveStep ==
  ASSUME ConnInv, Receive
  PROVE  ConnInv'
<1>I. /\ ConnTypeOK /\ Writing /\ Executed /\ Arriving /\ Returning
      /\ Len(replies) <= Len(handled) /\ AnswersFit
  BY DEF ConnInv
<1> DEFINE l == Len(replies)
           r == handled[l + 1]
           a == answers[l + 1]
           t == Rest(out)
           F == AnswerFrames(handled, answers)
           n == Unsigned(SubSeq(toClient, 1, 4))
<1>1. /\ clientOpen = TRUE /\ 4 <= Len(toClient) /\ toClient \in Seq(Byte) /\ handled \in Seq(Sendable)
      /\ l \in Nat /\ Len(handled) \in Nat /\ l <= Len(handled)
  BY <1>I DEF ConnTypeOK, Receive
<1>2. /\ 4 + n <= Len(toClient) /\ toClient' = SubSeq(toClient, 5 + n, Len(toClient))
      /\ replies' = Append(replies, ReadAnswer(sent[l + 1], SubSeq(toClient, 5, 4 + n)))
      /\ toServer' = toServer /\ clientOpen' = clientOpen /\ pc' = pc /\ requestSize' = requestSize
      /\ out' = out /\ sent' = sent /\ handled' = handled /\ answers' = answers
  <2>1. Len(toClient) \in Nat
    BY <1>1
  <2> QED
    BY <2>1 DEF Receive
<1>3. t \in Seq(Byte)
  BY <1>I, RestBytes DEF Writing
<1>4. /\ Framed(F, l, Len(handled))
      /\ \A i \in 1..Len(handled) : F[i] = AnswerFrame(handled[i], answers[i])
  BY <1>I, <1>1, AnswersFramed DEF Executed
<1>5. Joined(toClient \o t, F, l, Len(handled))
  BY <1>I, <1>1 DEF Returning
<1> HIDE DEF t, F
<1>6. l < Len(handled)
  BY <1>1, <1>3, <1>4, <1>5, TakeAnswer
<1>7. /\ l + 1 \in 1..Len(handled) /\ r \in Sendable /\ r = sent[l + 1] /\ a \in Answers(r)
      /\ F[l + 1] = AnswerFrame(r, a)
  <2>1. l + 1 \in 1..Len(handled)
    BY <1>1, <1>6
  <2> QED
    BY <2>1, <1>I, <1>1, <1>4 DEF Executed
<1> HIDE DEF l, r, a
<1>8. /\ n = Len(HeaderOf(r)) + Len(BodyOf(r, a))
      /\ SubSeq(toClient, 5, 4 + n) = HeaderOf(r) \o BodyOf(r, a)
      /\ SubSeq(toClient, 5 + n, Len(toClient)) \in Seq(Byte)
      /\ Joined(SubSeq(toClient, 5 + n, Len(toClient)) \o t, F, l + 1, Len(handled))
  <2>1. Taken(toClient, t, F, l, Len(handled), r, a)
    BY <1>1, <1>3, <1>4, <1>5, <1>7, TakeAnswer DEF l
  <2> QED
    BY <2>1, <1>2 DEF Taken
<1>9. ReadAnswer(sent[l + 1], SubSeq(toClient, 5, 4 + n)) = Reply(r, a)
  <2>1. ReadAnswer(r, HeaderOf(r) \o BodyOf(r, a)) = Reply(r, a)
    BY <1>7, CodecAssumption
  <2> QED
    BY <2>1, <1>7, <1>8
<1> HIDE DEF n
<1> DEFINE Known == {Reply(x, y) : x \in Sendable, y \in AnyAnswer}
<1>10. Reply(r, a) \in Known
  <2>1. a \in AnyAnswer
    BY <1>7 DEF AnyAnswer
  <2> QED
    BY <2>1, <1>7
<1>11. replies \in Seq(Known) /\ replies' = Append(replies, Reply(r, a))
  BY <1>I, <1>2, <1>9 DEF ConnTypeOK
<1> HIDE DEF Known
<1>12. /\ replies' \in Seq(Known) /\ Len(replies') = l + 1 /\ replies'[l + 1] = Reply(r, a)
       /\ \A i \in 1..l : replies'[i] = replies[i]
  BY <1>10, <1>11 DEF l
<1>13. ConnTypeOK'
  <2>1. toClient' \in Seq(Byte)
    BY <1>2, <1>8
  <2> QED
    BY <1>I, <1>2, <1>12, <2>1 DEF ConnTypeOK, Known
<1>14. Writing'
  BY <1>I, <1>2 DEF Writing
<1>15. Executed'
  BY <1>I, <1>2 DEF Executed
<1>16. Arriving'
  BY <1>I, <1>2 DEF Arriving, Position, Stream
<1>17. Returning'
  BY <1>2, <1>8, <1>12 DEF Returning, t, F
<1>18. Len(replies') <= Len(handled')
  BY <1>1, <1>2, <1>6, <1>12 DEF l
<1>19. AnswersFit'
  <2>1. DOMAIN replies' = 1..(l + 1) /\ DOMAIN replies = 1..l
    BY <1>11, <1>12 DEF l
  <2>2. ASSUME NEW i \in 1..(l + 1) PROVE replies'[i] = Reply(sent[i], answers[i])
    <3>1. CASE i = l + 1
      BY <3>1, <1>7, <1>12 DEF a
    <3>2. CASE i # l + 1
      <4>1. i \in 1..l
        BY <3>2, <1>1 DEF l
      <4> QED
        BY <4>1, <2>1, <1>I, <1>12 DEF AnswersFit
    <3> QED
      BY <3>1, <3>2
  <2> QED
    BY <2>1, <2>2, <1>2 DEF AnswersFit
<1> QED
  BY <1>13, <1>14, <1>15, <1>16, <1>17, <1>18, <1>19 DEF ConnInv

\* Handle may return when nothing is left to write, or nobody to read it.
LEMMA ReturnStep ==
  ASSUME ConnInv, Return, out = <<>> \/ ~clientOpen
  PROVE  ConnInv'
<1>I. /\ ConnTypeOK /\ Writing /\ Executed /\ Arriving /\ Returning
      /\ Len(replies) <= Len(handled) /\ AnswersFit
  BY DEF ConnInv
<1>1. /\ pc' = "closed" /\ out' = <<>> /\ toServer' = <<>> /\ toClient' = toClient
      /\ clientOpen' = clientOpen /\ requestSize' = requestSize /\ sent' = sent
      /\ handled' = handled /\ answers' = answers /\ replies' = replies
  BY DEF Return
<1>2. ConnTypeOK'
  BY <1>I, <1>1 DEF ConnTypeOK
<1>3. Writing'
  BY <1>1 DEF Writing
<1>4. Executed'
  BY <1>I, <1>1 DEF Executed
<1>5. Arriving'
  <2>1. sent \in Seq(Sendable) /\ Len(sent) \in Nat /\ Len(handled) \in Nat
    BY <1>I DEF ConnTypeOK
  <2>2. Carried(<<>>, sent, Len(sent), clientOpen)
    BY <2>1, CarriedNone
  <2>3. Stream' = <<>>
    BY <1>1 DEF Stream
  <2>4. Position(Len(sent))'
    BY <2>1, <1>I, <1>1 DEF Position, Executed
  <2>5. \E k \in Int : Position(k)' /\ Carried(Stream', sent', k, clientOpen')
    BY <2>1, <2>2, <2>3, <2>4, <1>1
  <2> QED
    BY <2>5 DEF Arriving
<1>6. Returning'
  BY <1>I, <1>1 DEF Returning
<1>7. Len(replies') <= Len(handled') /\ AnswersFit'
  BY <1>I, <1>1 DEF AnswersFit
<1> QED
  BY <1>2, <1>3, <1>4, <1>5, <1>6, <1>7 DEF ConnInv

\* Three strings.
LEMMA Reassociate ==
  ASSUME NEW s \in Seq(Byte), NEW t \in Seq(Byte), NEW u \in Seq(Byte)
  PROVE  (s \o t) \o u = s \o (t \o u)
  BY ConcatAssociative, SMTT(30)

\* Handle makes one of the three writes.
LEMMA WriteStep ==
  ASSUME ConnInv, Write
  PROVE  ConnInv'
<1>I. /\ ConnTypeOK /\ Writing /\ Executed /\ Arriving /\ Returning
      /\ Len(replies) <= Len(handled) /\ AnswersFit
  BY DEF ConnInv
<1>1. /\ pc = "write" /\ toClient' = toClient \o Head(out) /\ out' = Tail(out)
      /\ pc' = (IF Len(out) = 1 THEN "size" ELSE "write")
      /\ toServer' = toServer /\ clientOpen' = clientOpen /\ requestSize' = requestSize
      /\ sent' = sent /\ handled' = handled /\ answers' = answers /\ replies' = replies
  BY DEF Write
<1>2. out \in Seq(Seq(Byte)) /\ Len(out) <= 3 /\ out # <<>> /\ toClient \in Seq(Byte)
  BY <1>I, <1>1 DEF Writing, ConnTypeOK
<1>3. /\ Head(out) \in Seq(Byte) /\ Tail(out) \in Seq(Seq(Byte)) /\ Len(Tail(out)) <= 3
      /\ (Len(out) = 1 <=> Tail(out) = <<>>)
      /\ Rest(Tail(out)) \in Seq(Byte) /\ Rest(out) = Head(out) \o Rest(Tail(out))
  BY <1>2, RestWrite
<1>4. toClient' \in Seq(Byte)
  BY <1>1, <1>2, <1>3, Concat
<1>5. pc' \in {"size", "write"} /\ (pc' = "write" <=> out' # <<>>)
  BY <1>1, <1>3
<1>6. ConnTypeOK'
  BY <1>I, <1>1, <1>4, <1>5 DEF ConnTypeOK
<1>7. Writing'
  BY <1>1, <1>3, <1>5 DEF Writing
<1>8. Executed'
  BY <1>I, <1>1 DEF Executed
<1>9. Arriving'
  <2>1. PICK k \in Int : Position(k) /\ Carried(Stream, sent, k, clientOpen)
    BY <1>I DEF Arriving
  <2>2. Position(k)'
    BY <2>1, <1>1, <1>5 DEF Position
  <2>3. Stream' = Stream
    BY <1>1, <1>5 DEF Stream
  <2> QED
    BY <2>1, <2>2, <2>3, <1>1 DEF Arriving
<1>10. Returning'
  <2>1. (toClient \o Head(out)) \o Rest(Tail(out)) = toClient \o (Head(out) \o Rest(Tail(out)))
    BY <1>2, <1>3, Reassociate
  <2>2. toClient' \o Rest(out') = toClient \o Rest(out)
    BY <2>1, <1>1, <1>3
  <2> QED
    BY <2>2, <1>I, <1>1 DEF Returning
<1>11. Len(replies') <= Len(handled') /\ AnswersFit'
  BY <1>I, <1>1 DEF AnswersFit
<1> QED
  BY <1>6, <1>7, <1>8, <1>9, <1>10, <1>11 DEF ConnInv
\* A string that begins with the frame of r begins with its size.
LEMMA SizeOfFrame ==
  ASSUME NEW s \in Seq(Byte), 4 <= Len(s), NEW r \in Sendable, Begins(s, r)
  PROVE  /\ Unsigned(SubSeq(s, 1, 4)) = Len(PayloadOf(r))
         /\ s = WriteInt(Len(PayloadOf(r)), 4) \o SubSeq(s, 5, Len(s))
         /\ SubSeq(s, 5, Len(s)) \in Seq(Byte)
<1>0. Len(s) \in Nat
  OBVIOUS
<1>1. /\ SizeFits(Len(PayloadOf(r))) /\ Len(PayloadOf(r)) \in Nat
      /\ Len(Frame(r)) = 4 + Len(PayloadOf(r))
  BY FrameBytes
<1>2. \A j \in 1..4 : Frame(r)[j] = WriteInt(Len(PayloadOf(r)), 4)[j]
  BY FrameBytes
<1>3. \A j \in 1..4 : j \in 1..Len(s) /\ j <= Len(Frame(r))
  BY <1>0, <1>1
<1>4. \A j \in 1..4 : s[j] = WriteInt(Len(PayloadOf(r)), 4)[j]
  BY <1>2, <1>3 DEF Begins
<1> QED
  BY <1>1, <1>4, SizeRead

\* Handle reads a size: of the empty frame, which is then gone, or of the next
\* request, which stays under way.
LEMMA ReadSizeStep ==
  ASSUME ConnInv, ReadSize
  PROVE  ConnInv'
<1>I. /\ ConnTypeOK /\ Writing /\ Executed /\ Arriving /\ Returning
      /\ Len(replies) <= Len(handled) /\ AnswersFit
  BY DEF ConnInv
<1> DEFINE n == Unsigned(SubSeq(toServer, 1, 4))
<1>1. /\ pc = "size" /\ requestSize' = n /\ pc' = (IF n = 0 THEN "size" ELSE "payload")
      /\ toServer' = SubSeq(toServer, 5, Len(toServer))
      /\ toClient' = toClient /\ clientOpen' = clientOpen /\ out' = out
      /\ sent' = sent /\ handled' = handled /\ answers' = answers /\ replies' = replies
  BY DEF ReadSize
<1>2. /\ toServer \in Seq(Byte) /\ 4 <= Len(toServer) /\ Len(toServer) \in Nat /\ sent \in Seq(Sendable)
  BY <1>I DEF ReadSize, ConnTypeOK
<1>3. PICK k \in Int : Position(k) /\ Carried(toServer, sent, k, clientOpen)
  BY <1>I, <1>1 DEF Arriving, Stream
<1> HIDE DEF n
<1>4. Executed'
  BY <1>I, <1>1 DEF Executed
<1>5. Returning'
  BY <1>I, <1>1 DEF Returning
<1>6. Len(replies') <= Len(handled') /\ AnswersFit'
  BY <1>I, <1>1 DEF AnswersFit
<1>7. CASE k = -1
  <2>1. /\ \A j \in 1..4 : toServer[j] = WriteInt(0, 4)[j]
        /\ Carried(SubSeq(toServer, 5, Len(toServer)), sent, 0, clientOpen)
    BY <1>2, <1>3, <1>7, CarriedEmpty
  <2>2. n = 0 /\ SubSeq(toServer, 5, Len(toServer)) \in Seq(Byte)
    BY <2>1, <1>2, ConnectionAssumption, SizeRead DEF n
  <2>3. pc' = "size" /\ toServer' \in Seq(Byte)
    BY <2>2, <1>1
  <2>4. Arriving'
    <3>1. Position(0)'
      <4>1. handled = <<>> /\ Len(<<>>) = 0
        BY <1>3, <1>7 DEF Position
      <4> QED
        BY <4>1, <2>3, <1>1 DEF Position
    <3>2. Stream' = SubSeq(toServer, 5, Len(toServer))
      BY <2>3, <1>1 DEF Stream
    <3> QED
      BY <3>1, <3>2, <2>1, <1>1 DEF Arriving
  <2>5. ConnTypeOK'
    BY <2>3, <1>I, <1>1 DEF ConnTypeOK
  <2>6. Writing'
    BY <2>3, <1>I, <1>1 DEF Writing
  <2> QED
    BY <2>4, <2>5, <2>6, <1>4, <1>5, <1>6 DEF ConnInv
<1>8. CASE k # -1
  <2>1. k \in Nat
    BY <1>3, <1>8 DEF Position
  <2>2. toServer # <<>>
    BY <1>2
  <2>3. PICK r \in Sendable : Begins(toServer, r)
    BY <2>1, <2>2, <1>2, <1>3, CarriedNext
  <2>4. /\ n = Len(PayloadOf(r))
        /\ toServer = WriteInt(n, 4) \o SubSeq(toServer, 5, Len(toServer))
        /\ SubSeq(toServer, 5, Len(toServer)) \in Seq(Byte)
    BY <2>3, <1>2, SizeOfFrame DEF n
  <2>5. n \in Nat \ {0} /\ SizeFits(n)
    BY <2>3, <2>4, FrameBytes
  <2>6. pc' = "payload" /\ toServer' \in Seq(Byte)
    BY <2>4, <2>5, <1>1
  <2>7. Arriving'
    <3>1. Position(k)'
      BY <2>6, <1>1, <1>3, <1>8 DEF Position
    <3>2. Stream' = toServer
      BY <2>4, <2>6, <1>1 DEF Stream
    <3> QED
      BY <3>1, <3>2, <1>1, <1>3 DEF Arriving
  <2>8. ConnTypeOK'
    BY <2>5, <2>6, <1>I, <1>1 DEF ConnTypeOK
  <2>9. Writing'
    BY <2>6, <1>I, <1>1 DEF Writing
  <2> QED
    BY <2>7, <2>8, <2>9, <1>4, <1>5, <1>6 DEF ConnInv
<1> QED
  BY <1>7, <1>8

\* The payload Handle has before it is that of the next request sent.
LEMMA NextPayload ==
  ASSUME ConnInv, pc = "payload", requestSize <= Len(toServer)
  PROVE  \E k \in Nat :
            /\ k = Len(handled) /\ k < Len(sent)
            /\ SubSeq(toServer, 1, requestSize) = PayloadOf(sent[k + 1])
            /\ SubSeq(toServer, requestSize + 1, Len(toServer)) \in Seq(Byte)
            /\ Carried(SubSeq(toServer, requestSize + 1, Len(toServer)), sent, k + 1, clientOpen)
<1>I. /\ ConnTypeOK /\ Writing /\ Executed /\ Arriving /\ Returning
      /\ Len(replies) <= Len(handled) /\ AnswersFit
  BY DEF ConnInv
<1> DEFINE m == requestSize
           w == WriteInt(m, 4)
           x == Stream
<1>1. /\ toServer \in Seq(Byte) /\ sent \in Seq(Sendable) /\ Len(toServer) \in Nat
      /\ m \in Nat \ {0} /\ SizeFits(m) /\ m <= Len(toServer)
  BY <1>I DEF ConnTypeOK
<1>2. w \in Seq(Byte) /\ Len(w) = 4
  BY <1>1, WriteIntLen DEF SizeFits
<1>3. x = w \o toServer
  BY DEF Stream
<1>4. PICK k \in Int : Position(k) /\ Carried(x, sent, k, clientOpen)
  BY <1>I DEF Arriving
<1>5. k \in Nat /\ k = Len(handled)
  BY <1>4 DEF Position
<1> HIDE DEF m, w, x
<1>6. x \in Seq(Byte) /\ Len(x) = 4 + Len(toServer)
  <2>1. w \o toServer \in Seq(Byte) /\ Len(w \o toServer) = Len(w) + Len(toServer)
    BY <1>1, <1>2, Concat
  <2> QED
    BY <2>1, <1>2, <1>3
<1>7. \A j \in 1..4 : x[j] = w[j]
  <2>1. \A j \in 1..Len(w) : (w \o toServer)[j] = w[j]
    BY <1>1, <1>2, Concat
  <2> QED
    BY <2>1, <1>2, <1>3
<1>8. \A j \in 1..Len(toServer) : x[4 + j] = toServer[j]
  <2>1. \A j \in 1..Len(toServer) : (w \o toServer)[Len(w) + j] = toServer[j]
    BY <1>1, <1>2, Concat
  <2> QED
    BY <2>1, <1>2, <1>3
<1>9. x # <<>> /\ 4 <= Len(x)
  <2>1. 4 <= Len(x) /\ Len(x) # 0
    BY <1>1, <1>6
  <2> QED
    BY <2>1
<1>10. PICK r \in Sendable :
          /\ Begins(x, r)
          /\ \/ k < Len(sent) /\ r = sent[k + 1] /\ Len(Frame(r)) <= Len(x)
                /\ Carried(SubSeq(x, Len(Frame(r)) + 1, Len(x)), sent, k + 1, clientOpen)
             \/ Len(x) < Len(Frame(r))
  BY <1>1, <1>4, <1>5, <1>6, <1>9, CarriedNext
<1>11. m = Len(PayloadOf(r))
  <2>1. Unsigned(SubSeq(x, 1, 4)) = Len(PayloadOf(r))
    BY <1>6, <1>9, <1>10, SizeOfFrame
  <2>2. Unsigned(SubSeq(x, 1, 4)) = m
    BY <1>1, <1>6, <1>7, <1>9, SizeRead DEF w
  <2> QED
    BY <2>1, <2>2
<1>12. PayloadOf(r) \in Seq(Byte) /\ Len(Frame(r)) = 4 + m
  BY <1>11, FrameBytes
<1>13. \A j \in 1..m : Frame(r)[4 + j] = PayloadOf(r)[j]
  BY <1>11, FrameBytes
<1>14. /\ k < Len(sent) /\ r = sent[k + 1]
       /\ Carried(SubSeq(x, 4 + m + 1, Len(x)), sent, k + 1, clientOpen)
  <2>1. ~(Len(x) < Len(Frame(r)))
    <3>1. ~(4 + Len(toServer) < 4 + m)
      BY <1>1
    <3> QED
      BY <3>1, <1>6, <1>12
  <2> QED
    BY <2>1, <1>10, <1>12
<1>15. /\ SubSeq(toServer, 1, m) \in Seq(Byte) /\ Len(SubSeq(toServer, 1, m)) = m
       /\ SubSeq(toServer, m + 1, Len(toServer)) \in Seq(Byte)
  BY <1>1
<1>16. ASSUME NEW j \in 1..m PROVE SubSeq(toServer, 1, m)[j] = PayloadOf(r)[j]
  <2>1. j \in 1..Len(toServer) /\ 4 + j \in 1..(4 + Len(toServer)) /\ 4 + j <= 4 + m
    BY <1>1
  <2>2. SubSeq(toServer, 1, m)[j] = toServer[j]
    BY <1>1
  <2>3. x[4 + j] = Frame(r)[4 + j]
    BY <2>1, <1>6, <1>10, <1>12 DEF Begins
  <2> QED
    BY <2>1, <2>2, <2>3, <1>8, <1>13
<1>17. SubSeq(toServer, 1, m) = PayloadOf(r)
  BY <1>11, <1>12, <1>15, <1>16, SeqEqual
<1>18. SubSeq(x, 4 + m + 1, Len(x)) = SubSeq(toServer, m + 1, Len(toServer))
  <2>1. SubSeq(w \o toServer, Len(w) + m + 1, Len(w \o toServer)) = SubSeq(toServer, m + 1, Len(toServer))
    BY <1>1, <1>2, DropFirst
  <2> QED
    BY <2>1, <1>2, <1>3
<1> QED
  BY <1>5, <1>14, <1>15, <1>17, <1>18 DEF m
\* Handle executes the request at the head of the stream.
LEMMA PayloadStep ==
  ASSUME ConnInv, HandlePayload
  PROVE  ConnInv'
<1>I. /\ ConnTypeOK /\ Writing /\ Executed /\ Arriving /\ Returning
      /\ Len(replies) <= Len(handled) /\ AnswersFit
  BY DEF ConnInv
<1>0. pc = "payload" /\ requestSize <= Len(toServer)
  BY <1>I DEF HandlePayload, ConnTypeOK
<1> DEFINE rest == SubSeq(toServer, requestSize + 1, Len(toServer))
<1>1. PICK k \in Nat :
         /\ k = Len(handled) /\ k < Len(sent)
         /\ SubSeq(toServer, 1, requestSize) = PayloadOf(sent[k + 1])
         /\ rest \in Seq(Byte) /\ Carried(rest, sent, k + 1, clientOpen)
  BY <1>0, NextPayload
<1> DEFINE r == sent[k + 1]
<1>2. k + 1 \in 1..Len(sent) /\ r \in Sendable /\ Len(sent) \in Nat
  <2>1. sent \in Seq(Sendable) /\ Len(sent) \in Nat
    BY <1>I DEF ConnTypeOK
  <2>2. k + 1 \in 1..Len(sent)
    BY <2>1, <1>1
  <2> QED
    BY <2>1, <2>2
<1>3. Decoded = Ok(r, <<>>) \/ Decoded = Error
  BY <1>1, <1>2, CodecAssumption DEF Decoded
<1>4. Decoded.ok
  BY DEF HandlePayload
<1>5. Decoded.value = r
  BY <1>3, <1>4 DEF Ok, Error
<1>6. PICK a \in Answers(r) : answers' = Append(answers, a) /\ out' = Response(r, a)
  BY <1>5 DEF HandlePayload
<1>7. /\ handled' = Append(handled, r) /\ pc' = "write" /\ toServer' = rest
      /\ toClient' = toClient /\ clientOpen' = clientOpen /\ requestSize' = requestSize
      /\ sent' = sent /\ replies' = replies
  BY <1>5 DEF HandlePayload
<1> HIDE DEF rest, r
<1>8. /\ handled \in Seq(Sendable) /\ answers \in Seq(AnyAnswer) /\ Len(answers) = k /\ Len(handled) = k
      /\ a \in AnyAnswer
  BY <1>I, <1>1, <1>2, <1>6 DEF ConnTypeOK, AnyAnswer
<1>9. /\ handled' \in Seq(Sendable) /\ Len(handled') = k + 1 /\ handled'[k + 1] = r
      /\ \A i \in 1..k : handled'[i] = handled[i]
  BY <1>2, <1>7, <1>8
<1>10. /\ answers' \in Seq(AnyAnswer) /\ Len(answers') = k + 1 /\ answers'[k + 1] = a
       /\ \A i \in 1..k : answers'[i] = answers[i]
  BY <1>6, <1>8
<1>11. ConnTypeOK'
  BY <1>I, <1>1, <1>7, <1>9, <1>10 DEF ConnTypeOK
<1>12. /\ HeaderOf(r) \in Seq(Byte) /\ BodyOf(r, a) \in Seq(Byte)
       /\ WriteInt(Len(HeaderOf(r)) + Len(BodyOf(r, a)), 4) \in Seq(Byte)
  BY <1>2, <1>6, AnswerBytes DEF SizeFits
<1>13. Writing'
  BY <1>7, <1>6, <1>12 DEF Writing, Response
<1>14. ASSUME NEW i \in 1..(k + 1)
       PROVE  handled'[i] = sent[i] /\ answers'[i] \in Answers(handled'[i])
  <2>1. CASE i = k + 1
    BY <2>1, <1>6, <1>9, <1>10 DEF r
  <2>2. CASE i # k + 1
    <3>1. i \in 1..k
      BY <2>2
    <3> QED
      BY <3>1, <1>I, <1>8, <1>9, <1>10 DEF Executed
  <2> QED
    BY <2>1, <2>2
<1>15. Executed'
  <2>1. Len(handled') <= Len(sent')
    BY <1>2, <1>7, <1>9
  <2> QED
    BY <2>1, <1>7, <1>9, <1>14 DEF Executed
<1>16. Arriving'
  <2>1. Position(k + 1)'
    <3>1. k + 1 \in Nat /\ k + 1 # -1 /\ k + 1 <= k + 1
      OBVIOUS
    <3> QED
      BY <3>1, <1>9 DEF Position
  <2>2. Stream' = rest
    BY <1>7 DEF Stream
  <2> QED
    BY <2>1, <2>2, <1>1, <1>7 DEF Arriving
<1>17. Returning'
  <2> SUFFICES ASSUME clientOpen
               PROVE  Joined(toClient \o Rest(out'), AnswerFrames(handled', answers'), Len(replies), k + 1)
    BY <1>7, <1>9 DEF Returning
  <2> DEFINE F == AnswerFrames(handled, answers)
             G == AnswerFrames(handled', answers')
             l == Len(replies)
  <2>1. out = <<>> /\ toClient \in Seq(Byte) /\ l \in Nat /\ l <= k
    BY <1>I, <1>0, <1>8 DEF Writing, ConnTypeOK
  <2>2. toClient \o Rest(out) = toClient
    BY <2>1 DEF Rest
  <2>3. Joined(toClient, F, l, k)
    BY <2>2, <1>I, <1>8 DEF Returning
  <2>4. /\ Framed(G, l, k + 1)
        /\ \A i \in 1..(k + 1) : G[i] = AnswerFrame(handled'[i], answers'[i])
    BY <2>1, <1>9, <1>14, AnswersFramed
  <2>5. \A i \in 1..k : F[i] = AnswerFrame(handled[i], answers[i])
    BY <1>8 DEF AnswerFrames
  <2> HIDE DEF F, G, l
  <2>6. Agree(F, G, l, k)
    <3>1. \A i \in (l + 1)..k : i \in 1..k /\ i \in 1..(k + 1)
      BY <2>1
    <3> QED
      BY <3>1, <2>4, <2>5, <1>9, <1>10 DEF Agree
  <2>7. Joined(toClient \o G[k + 1], G, l, k + 1)
    <3>1. l \in Int /\ k \in Int
      BY <2>1
    <3> QED
      BY <3>1, <2>1, <2>3, <2>4, <2>6, JoinedAppend
  <2>8. G[k + 1] = AnswerFrame(r, a)
    BY <2>4, <1>9, <1>10
  <2>9. Rest(out') = AnswerFrame(r, a)
    BY <1>6, SMTT(30) DEF Rest, Response, AnswerFrame
  <2> QED
    BY <2>7, <2>8, <2>9 DEF G, l
<1>18. Len(replies') <= Len(handled')
  <2>1. Len(replies) \in Nat /\ Len(replies) <= k
    BY <1>I, <1>8 DEF ConnTypeOK
  <2> QED
    BY <2>1, <1>7, <1>9
<1>19. AnswersFit'
  <2>1. \A i \in DOMAIN replies : i \in 1..k
    BY <1>I, <1>8 DEF ConnTypeOK
  <2> QED
    BY <2>1, <1>I, <1>7, <1>10 DEF AnswersFit
<1> QED
  BY <1>11, <1>13, <1>15, <1>16, <1>17, <1>18, <1>19 DEF ConnInv
-------------------------------------------------------------------------------
\* Every step keeps the invariant.
LEMMA ConnNextInv == ConnInv /\ [ConnNext]_connVars => ConnInv'
<1> SUFFICES ASSUME ConnInv, [ConnNext]_connVars PROVE ConnInv'
  OBVIOUS
<1>0. Writing
  BY DEF ConnInv
<1>1. ASSUME Len(sent) < Len(Requests), NEW r \in Requests[Len(sent) + 1], Send(r) PROVE ConnInv'
  <2>1. Len(sent) + 1 \in DOMAIN Requests
    <3>1. Len(sent) \in Nat
      BY DEF ConnInv, ConnTypeOK
    <3> QED
      BY <3>1, <1>1, ConnectionAssumption
  <2>2. r \in Sendable
    BY <2>1 DEF Sendable
  <2> QED
    BY <2>2, <1>1, SendStep
<1>2. CASE Close
  BY <1>2, CloseStep
<1>3. CASE Break
  BY <1>3, BreakStep
<1>4. CASE Receive
  BY <1>4, ReceiveStep
<1>5. CASE ReadSize
  BY <1>5, ReadSizeStep
<1>6. CASE SizeFails
  BY <1>6, <1>0, ReturnStep DEF SizeFails, Writing
<1>7. CASE HandlePayload
  BY <1>7, PayloadStep
<1>8. CASE PayloadFails
  BY <1>8, <1>0, ReturnStep DEF PayloadFails, Writing
<1>9. CASE Write
  BY <1>9, WriteStep
<1>10. CASE WriteFails
  BY <1>10, ReturnStep DEF WriteFails
<1>11. CASE UNCHANGED connVars
  BY <1>11 DEF ConnInv, connVars, ConnTypeOK, Writing, Executed, Arriving, Position, Stream,
               Returning, AnswersFit
<1> QED
  BY <1>1, <1>2, <1>3, <1>4, <1>5, <1>6, <1>7, <1>8, <1>9, <1>10, <1>11 DEF ConnNext, Handle

\* The invariant has both properties in it.
LEMMA ConnInvProps == ConnInv => ExecutesWhatWasSent /\ AnswersFit
<1> SUFFICES ASSUME ConnInv PROVE ExecutesWhatWasSent
  BY DEF ConnInv
<1>1. /\ handled \in Seq(Sendable) /\ sent \in Seq(Sendable)
      /\ Len(handled) \in Nat /\ Len(sent) \in Nat /\ Len(handled) <= Len(sent)
      /\ \A i \in 1..Len(handled) : handled[i] = sent[i]
  BY DEF ConnInv, ConnTypeOK, Executed
<1>2. SubSeq(handled, 1, Len(handled)) = SubSeq(sent, 1, Len(handled))
  BY <1>1
<1> QED
  BY <1>1, <1>2 DEF ExecutesWhatWasSent, IsPrefix

\* What the handlers execute is a prefix of what the client sent, whatever the
\* number and the contents of the requests, with pipelining, an empty frame,
\* refused requests and a connection that breaks within a frame
\* (ConnectionHandler.Handle).
THEOREM ConnExecutes == ConnSpec => []ExecutesWhatWasSent
  BY ConnInitInv, ConnNextInv, ConnInvProps, PTL DEF ConnSpec

\* Every answer a client reads is the one to its oldest open request and fills
\* its frame, whatever answers are under way and wherever the three writes of
\* the next one stand (ConnectionHandler.Handle).
THEOREM ConnAnswers == ConnSpec => []AnswersFit
  BY ConnInitInv, ConnNextInv, ConnInvProps, PTL DEF ConnSpec
===============================================================================
