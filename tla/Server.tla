------------------------------- MODULE Server -------------------------------
(***************************************************************************)
(* The broker process: main, the accept loop of TCPServer with a goroutine *)
(* per connection, the CleanerWorker's loop, and the hub of the web UI     *)
(* that streams telemetry to the viewers.  What a request does is modelled *)
(* elsewhere; here a request is read, executed and answered, or refused.   *)
(* Every client and every viewer connects once.                            *)
(***************************************************************************)
EXTENDS Integers, FiniteSets

CONSTANTS Clients,     \* connections to the broker port
          Viewers,     \* web socket connections
          SocketFrames \* bound: frames a socket buffers before a write blocks

ASSUME ServerAssumption == SocketFrames \in Nat \ {0} /\ IsFiniteSet(Clients)

VARIABLES
    main,      \* where main is
    quit,      \* TCPServer.quit is closed
    listener,  \* TCPServer.listener: "none", "open" or "closed"
    start,     \* where the goroutine of TCPServer.Start is
    wg,        \* TCPServer.wg
    conn,      \* client -> its connection
    open,      \* client -> it is connected and has not closed
    request,   \* client -> the request it waits for: "none", "acceptable" or "refused"
    late,      \* history: clients counted after Wait had returned
    stopChan,  \* CleanerWorker.stopChan is closed
    cleaner,   \* where CleanerWorker.loop is
    uiOpen,    \* the HTTP server accepts connections
    hub,       \* WSHub.conns
    socket,    \* viewer -> its web socket
    frames,    \* viewer -> frames it has not read
    writing,   \* connections Broadcast has still to write to
    current    \* the connection it is writing to, if any

tcp  == <<quit, listener, start, wg, conn, open, request, late>>
work == <<stopChan, cleaner>>
ui   == <<uiOpen, hub, socket, frames, writing, current>>
vars == <<main, tcp, work, ui>>

Init ==
    /\ main = "select"
    /\ quit = FALSE /\ listener = "none" /\ start = "bind" /\ wg = 0
    /\ conn = [c \in Clients |-> "away"]
    /\ open = [c \in Clients |-> FALSE] /\ request = [c \in Clients |-> "none"]
    /\ late = {}
    /\ stopChan = FALSE /\ cleaner = "select"
    /\ uiOpen = TRUE /\ hub = {} /\ writing = {} /\ current = {}
    /\ socket = [v \in Viewers |-> "away"] /\ frames = [v \in Viewers |-> 0]

\* After main has returned, or log.Fatalf, no goroutine runs.
Running == main \notin {"exited", "fatal"}
-------------------------------------------------------------------------------
(* Clients of the broker port *)

Dial(c) ==
    /\ Running /\ listener = "open" /\ conn[c] = "away"
    /\ conn' = [conn EXCEPT ![c] = "backlog"]
    /\ open' = [open EXCEPT ![c] = TRUE]
    /\ UNCHANGED <<main, quit, listener, start, wg, request, late, work, ui>>

\* A refused request has a frame above the limit, cannot be decoded, or fails in
\* HandleRequest.
SendRequest(c) ==
    /\ Running /\ open[c] /\ conn[c] # "closed" /\ request[c] = "none"
    /\ \E r \in {"acceptable", "refused"} : request' = [request EXCEPT ![c] = r]
    /\ UNCHANGED <<main, quit, listener, start, wg, conn, open, late, work, ui>>

Disconnect(c) ==
    /\ Running /\ open[c]
    /\ open' = [open EXCEPT ![c] = FALSE]
    /\ UNCHANGED <<main, quit, listener, start, wg, conn, request, late, work, ui>>
-------------------------------------------------------------------------------
(* TCPServer.Start *)

\* The listener is bound under s.mu, or cannot be.
Bind ==
    /\ Running /\ start = "bind"
    /\ \/ listener' = "open" /\ start' = "accept"
       \/ UNCHANGED listener /\ start' = "failed"
    /\ UNCHANGED <<main, quit, wg, conn, open, request, late, work, ui>>

Accept(c) ==
    /\ Running /\ start = "accept" /\ listener = "open" /\ conn[c] = "backlog"
    /\ conn' = [conn EXCEPT ![c] = "accepted"]
    /\ start' = "add"
    /\ UNCHANGED <<main, quit, listener, wg, open, request, late, work, ui>>

\* Accept fails, always once the listener is closed: Start returns, with an
\* error unless it is being stopped.
AcceptFails ==
    /\ Running /\ start = "accept"
    /\ start' = IF quit THEN "returned" ELSE "failed"
    /\ UNCHANGED <<main, quit, listener, wg, conn, open, request, late, work, ui>>

AddMutant(c) ==
    /\ Running /\ start = "add" /\ conn[c] = "accepted"
    /\ wg' = wg + 1
    /\ conn' = [conn EXCEPT ![c] = "idle"]
    /\ late' = IF main = "stopped" THEN late \cup {c} ELSE late
    /\ start' = "returned"
    /\ UNCHANGED <<main, quit, listener, open, request, work, ui>>
\* wg.Add(1), and the goroutine that runs Handle.
Add(c) ==
    /\ Running /\ start = "add" /\ conn[c] = "accepted"
    /\ wg' = wg + 1
    /\ conn' = [conn EXCEPT ![c] = "idle"]
    /\ late' = IF main = "stopped" THEN late \cup {c} ELSE late
    /\ start' = "accept"
    /\ UNCHANGED <<main, quit, listener, open, request, work, ui>>
-------------------------------------------------------------------------------
(* ConnectionHandler.Handle *)

ReadRequest(c) ==
    /\ Running /\ conn[c] = "idle" /\ request[c] # "none"
    /\ conn' = [conn EXCEPT ![c] = "busy"]
    /\ UNCHANGED <<main, quit, listener, start, wg, open, request, late, work, ui>>

\* The answer is written and the next request is read.
WriteAnswer(c) ==
    /\ Running /\ conn[c] = "busy" /\ request[c] = "acceptable"
    /\ conn' = [conn EXCEPT ![c] = "idle"]
    /\ request' = [request EXCEPT ![c] = "none"]
    /\ UNCHANGED <<main, quit, listener, start, wg, open, late, work, ui>>

\* Handle returns without an answer and closes the connection, wg.Done; the
\* client's own end is still open.
RefuseRequest(c) ==
    /\ Running /\ conn[c] = "busy" /\ request[c] = "refused"
    /\ conn' = [conn EXCEPT ![c] = "closed"]
    /\ wg' = wg - 1
    /\ request' = [request EXCEPT ![c] = "none"]
    /\ UNCHANGED <<main, quit, listener, start, open, late, work, ui>>

HandleReturnsMutant(c) ==
    /\ Running /\ conn[c] \in {"idle", "busy"} /\ ~open[c]
    /\ conn' = [conn EXCEPT ![c] = "closed"]
    /\ wg' = IF conn[c] = "busy" THEN wg ELSE wg - 1
    /\ request' = [request EXCEPT ![c] = "none"]
    /\ UNCHANGED <<main, quit, listener, start, open, late, work, ui>>
\* A read or a write fails because the client is gone: Handle returns, wg.Done.
HandleReturns(c) ==
    /\ Running /\ conn[c] \in {"idle", "busy"} /\ ~open[c]
    /\ conn' = [conn EXCEPT ![c] = "closed"]
    /\ wg' = wg - 1
    /\ request' = [request EXCEPT ![c] = "none"]
    /\ UNCHANGED <<main, quit, listener, start, open, late, work, ui>>
-------------------------------------------------------------------------------
(* main, CleanerWorker.Stop, UIServer.Stop and TCPServer.Stop *)

\* A signal arrives; CleanerWorker.Stop closes stopChan.
Signal ==
    /\ main = "select"
    /\ main' = "cleaner" /\ stopChan' = TRUE
    /\ UNCHANGED <<tcp, cleaner, ui>>

\* The error of Start is fatal unless main has left its select.
ServerError ==
    /\ main = "select" /\ start = "failed"
    /\ main' = "fatal"
    /\ UNCHANGED <<tcp, work, ui>>

CleanerStopped ==
    /\ main = "cleaner" /\ cleaner = "stopped"
    /\ main' = "ui"
    /\ UNCHANGED <<tcp, work, ui>>

\* http.Server.Close leaves the web sockets alone.
StopUI ==
    /\ main = "ui"
    /\ main' = "quit" /\ uiOpen' = FALSE
    /\ UNCHANGED <<tcp, work, hub, socket, frames, writing, current>>

CloseQuit ==
    /\ main = "quit"
    /\ main' = "close" /\ quit' = TRUE
    /\ UNCHANGED <<listener, start, wg, conn, open, request, late, work, ui>>

\* Under s.mu; a listener that is not bound yet stays as it is.  Connections
\* nobody has accepted are reset.
CloseListener ==
    /\ main = "close"
    /\ main' = "wait"
    /\ listener' = IF listener = "open" THEN "closed" ELSE listener
    /\ conn' = [c \in Clients |->
                  IF listener = "open" /\ conn[c] = "backlog" THEN "closed" ELSE conn[c]]
    /\ open' = [c \in Clients |-> open[c] /\ conn'[c] # "closed"]
    /\ request' = [c \in Clients |-> IF conn'[c] = "closed" THEN "none" ELSE request[c]]
    /\ UNCHANGED <<quit, start, wg, late, work, ui>>

WaitDoneMutant ==
    /\ main = "wait"
    /\ main' = "stopped"
    /\ UNCHANGED <<tcp, work, ui>>
\* wg.Wait returns, and Stop with it.
WaitDone ==
    /\ main = "wait" /\ wg = 0
    /\ main' = "stopped"
    /\ UNCHANGED <<tcp, work, ui>>

Exit ==
    /\ main = "stopped"
    /\ main' = "exited"
    /\ UNCHANGED <<tcp, work, ui>>

(* CleanerWorker.loop *)

CleanTick ==
    /\ Running /\ cleaner = "select"
    /\ cleaner' = "cycle"
    /\ UNCHANGED <<main, tcp, stopChan, ui>>

CycleEnds ==
    /\ Running /\ cleaner = "cycle"
    /\ cleaner' = "select"
    /\ UNCHANGED <<main, tcp, stopChan, ui>>

StopSeen ==
    /\ Running /\ cleaner = "select" /\ stopChan
    /\ cleaner' = "stopped"
    /\ UNCHANGED <<main, tcp, stopChan, ui>>
-------------------------------------------------------------------------------
(* The web UI *)

\* WSHub.Upgrade.
Upgrade(v) ==
    /\ Running /\ uiOpen /\ socket[v] = "away"
    /\ socket' = [socket EXCEPT ![v] = "open"]
    /\ hub' = hub \cup {v}
    /\ UNCHANGED <<main, tcp, work, uiOpen, frames, writing, current>>

\* The viewer closes, or reads a frame; one that stays may also stop reading.
CloseViewer(v) ==
    /\ Running /\ socket[v] = "open"
    /\ socket' = [socket EXCEPT ![v] = "left"]
    /\ frames' = [frames EXCEPT ![v] = 0]
    /\ UNCHANGED <<main, tcp, work, uiOpen, hub, writing, current>>

ViewerReads(v) ==
    /\ Running /\ socket[v] = "open" /\ frames[v] > 0
    /\ frames' = [frames EXCEPT ![v] = @ - 1]
    /\ UNCHANGED <<main, tcp, work, uiOpen, hub, socket, writing, current>>

\* wsStreamLoop, and the copy of the connections Broadcast makes.
StreamTick ==
    /\ Running /\ writing = {} /\ current = {} /\ hub # {}
    /\ writing' = hub
    /\ UNCHANGED <<main, tcp, work, uiOpen, hub, socket, frames, current>>

\* Broadcast goes on to the next connection of its copy, in any order.
NextConn(v) ==
    /\ Running /\ current = {} /\ v \in writing
    /\ current' = {v}
    /\ writing' = writing \ {v}
    /\ UNCHANGED <<main, tcp, work, uiOpen, hub, socket, frames>>

\* The write waits until there is room in the socket, and all others with it.
WriteFrame(v) ==
    /\ Running /\ v \in current /\ socket[v] = "open" /\ frames[v] < SocketFrames
    /\ frames' = [frames EXCEPT ![v] = @ + 1]
    /\ current' = {}
    /\ UNCHANGED <<main, tcp, work, uiOpen, hub, socket, writing>>

\* removeConn: the connection leaves the map and is closed.
removeConn(v) ==
    /\ hub' = hub \ {v}
    /\ socket' = [socket EXCEPT ![v] = "closed"]

\* A write to a connection that is gone fails, and Broadcast goes on.
WriteFrameFailsMutant(v) ==
    /\ Running /\ v \in current /\ socket[v] \in {"left", "closed"}
    /\ removeConn(v)
    /\ UNCHANGED <<main, tcp, work, uiOpen, frames, writing, current>>
WriteFrameFails(v) ==
    /\ Running /\ v \in current /\ socket[v] \in {"left", "closed"}
    /\ removeConn(v)
    /\ current' = {}
    /\ UNCHANGED <<main, tcp, work, uiOpen, frames, writing>>

\* readLoop sees the end of the connection.
ReadLoopEnds(v) ==
    /\ Running /\ socket[v] = "left"
    /\ removeConn(v)
    /\ UNCHANGED <<main, tcp, work, uiOpen, frames, writing, current>>
-------------------------------------------------------------------------------
Next ==
    \/ \E c \in Clients :
        \/ Dial(c) \/ SendRequest(c) \/ Disconnect(c)
        \/ Accept(c) \/ Add(c)
        \/ ReadRequest(c) \/ WriteAnswer(c) \/ RefuseRequest(c) \/ HandleReturns(c)
    \/ Bind \/ AcceptFails
    \/ Signal \/ ServerError \/ CleanerStopped \/ StopUI \/ CloseQuit \/ CloseListener \/ WaitDone \/ Exit
    \/ CleanTick \/ CycleEnds \/ StopSeen
    \/ StreamTick
    \/ \E v \in Viewers :
        \/ Upgrade(v) \/ CloseViewer(v) \/ ViewerReads(v)
        \/ NextConn(v) \/ WriteFrame(v) \/ WriteFrameFails(v) \/ ReadLoopEnds(v)

Shutdown == CleanerStopped \/ StopUI \/ CloseQuit \/ CloseListener \/ WaitDone \/ Exit
            \/ ServerError

\* Goroutines run.  A select that finds the stop channel closed again and again
\* takes it at some time, and connections are accepted in the order they came.
\* Nobody has to disconnect or to read, and Accept need not fail while the
\* listener is open.
Fairness ==
    /\ WF_vars(Shutdown) /\ WF_vars(Bind)
    /\ WF_vars(CycleEnds) /\ SF_vars(StopSeen)
    /\ WF_vars(StreamTick)
    /\ WF_vars(listener = "closed" /\ AcceptFails)
    /\ \A c \in Clients :
        /\ SF_vars(Accept(c))
        /\ WF_vars(Add(c))
        /\ WF_vars(ReadRequest(c) \/ WriteAnswer(c) \/ RefuseRequest(c) \/ HandleReturns(c))
    /\ \A v \in Viewers :
        /\ WF_vars(NextConn(v))
        /\ WF_vars(WriteFrame(v) \/ WriteFrameFails(v))
        /\ WF_vars(ReadLoopEnds(v))

Spec == Init /\ [][Next]_vars /\ Fairness
-------------------------------------------------------------------------------
(* Properties *)

\* When Stop lets the process end, every connection it had to wait for has
\* ended, so no request is cut off half way; only the one connection that Start
\* had accepted and not yet counted when Wait returned can be, or those
\* of a listener bound after Stop had looked for it (TCPServer.Start,
\* TCPServer.Stop).
NothingCutOff ==
    main = "exited" =>
        /\ \A c \in Clients : conn[c] \in {"idle", "busy"} => c \in late
        /\ listener = "closed" => Cardinality(late) <= 1

\* After a signal the process ends, unless a client keeps its connection open:
\* Handle reads without a deadline and Stop waits for it (main, CleanerWorker.Stop,
\* TCPServer.Stop).
StopReturns ==
    <>(main = "cleaner") => (<>(main = "exited") \/ []<>(\E c \in Clients : open[c] /\ conn[c] # "closed"))

\* A client that connects and sends an acceptable request gets its answer, unless
\* it leaves or the broker is stopped, whatever other connections do and
\* however many of them are closed because their request was refused
\* (TCPServer.Start, ConnectionHandler.Handle).
RequestServed ==
    \A c \in Clients :
        (open[c] /\ request[c] = "acceptable") ~> (request[c] = "none" \/ ~open[c] \/ quit \/ main = "fatal")

\* A viewer that stays connected gets the telemetry, although Broadcast writes
\* to one connection after the other and others come and go in the meantime:
\* only one that stays and does not read any more, its socket full, can keep it
\* from the rest, and then for ever (WSHub.Broadcast, wsStreamLoop).
Blocked == \E u \in current : socket[u] = "open" /\ frames[u] = SocketFrames
ViewerServed ==
    \/ \A v \in Viewers : (v \in hub) ~> (frames[v] > 0 \/ socket[v] # "open" \/ ~Running)
    \/ <>[]Blocked
=============================================================================
