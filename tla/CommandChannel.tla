--------------------------- MODULE CommandChannel ---------------------------
(***************************************************************************)
(* The WebSocket between the panel and one node: WebSocketServer.java on   *)
(* the panel, whose handlers run in threads of the container and whose     *)
(* send_msg runs in the thread of whoever sends a command, and             *)
(* websocket_reporter.go on the node, with the goroutine of run() and one  *)
(* receiving goroutine per connection.                                     *)
(*                                                                         *)
(* A session is one connection, numbered in the order they are dialled.    *)
(* Only commands and their responses are messages here; the system         *)
(* information, sent every two seconds, appears as the test whether the    *)
(* link still works.  Encryption and the sessions of administrators'       *)
(* browsers are left out, and the node is not deleted.                     *)
(***************************************************************************)
EXTENDS Naturals, Sequences

CONSTANTS
    Requests,     \* bound: the commands sent
    MaxSessions   \* bound: connections dialled

ASSUME ChannelAssumption == MaxSessions \in Nat

Sessions == 1..MaxSessions
None == 0

VARIABLES
    \* the node
    run,          \* where run() is: "dial", "check" the flag again after
                  \* connect, or "serve" in handleConnection
    conn,         \* w.conn
    connected,    \* w.connected
    dialled,      \* how many connections were dialled
    receiver,     \* per session: its goroutine receiveMessages
    executed,     \* how often each command was executed
    \* the network
    up,           \* sessions whose TCP connection works
    toNode,       \* per session: commands on their way
    toPanel,      \* per session: responses on their way
    \* the panel
    nodeSession,  \* nodeSessions.get(nodeId)
    opened,       \* sessions for which isOpen() is TRUE
    establish,    \* per session: afterConnectionEstablished
    closing,      \* per session: afterConnectionClosed
    status,       \* the status of the node's row: 1 online, 0 offline
    pending,      \* pendingRequests
    call          \* per request: send_msg

node == <<run, conn, connected, dialled, receiver, executed>>
net == <<up, toNode, toPanel>>
sessions == <<nodeSession, opened, establish, closing, status>>
vars == <<node, net, sessions, pending, call>>

Init ==
    /\ run = "dial" /\ conn = None /\ connected = FALSE /\ dialled = 0
    /\ receiver = [s \in Sessions |-> [pc |-> "none"]]
    /\ executed = [r \in Requests |-> 0]
    /\ up = {} /\ toNode = [s \in Sessions |-> <<>>] /\ toPanel = [s \in Sessions |-> <<>>]
    /\ nodeSession = None /\ opened = {} /\ status = 0
    /\ establish = [s \in Sessions |-> [pc |-> "none"]]
    /\ closing = [s \in Sessions |-> "none"]
    /\ pending = {}
    /\ call = [r \in Requests |-> [pc |-> "none"]]

-----------------------------------------------------------------------------
\* connect, under connMutex: a connection left over from before (see Skip) is
\* overwritten, not closed.  The container of the panel accepts the new one and
\* calls afterConnectionEstablished.
Connect ==
    LET s == dialled + 1 IN
    /\ run = "dial" /\ ~connected /\ dialled < MaxSessions
    /\ dialled' = s
    /\ conn' = s /\ connected' = TRUE /\ run' = "check"
    /\ up' = up \cup {s}
    /\ opened' = opened \cup {s}
    /\ establish' = [establish EXCEPT ![s] = [pc |-> "check"]]
    /\ UNCHANGED <<receiver, executed, toNode, toPanel, nodeSession, closing, status, pending, call>>

\* run() reads the flag without the lock: handleConnection starts the receiving
\* goroutine.
Serve ==
    /\ run = "check" /\ connected
    /\ run' = "serve"
    /\ receiver' = [receiver EXCEPT ![conn] = [pc |-> "top"]]
    /\ UNCHANGED <<conn, connected, dialled, executed, net, sessions, pending, call>>

\* A goroutine of an earlier connection has cleared the flag since connect: run()
\* waits and dials again; nobody closes the connection it has.
Skip ==
    /\ run = "check" /\ ~connected
    /\ run' = "dial"
    /\ UNCHANGED <<conn, connected, dialled, receiver, executed, net, sessions, pending, call>>

\* A connection that ends, closed by a side or broken, may take what is on its
\* way with it.
Drop(s) ==
    /\ up' = up \ {s}
    /\ toNode' \in {toNode, [toNode EXCEPT ![s] = <<>>]}
    /\ toPanel' \in {toPanel, [toPanel EXCEPT ![s] = <<>>]}

\* Mutant: the deferred function leaves the flag as it is.
DisconnectConnected ==
    /\ run = "serve"
    /\ ~connected \/ conn \notin up
    /\ Drop(conn)
    /\ conn' = None /\ connected' = connected
    /\ run' = "dial"
    /\ UNCHANGED <<dialled, receiver, executed, sessions, pending, call>>

\* The ticker of handleConnection finds the connection lost, by the flag or by
\* a failing send, and the deferred function closes it.
Disconnect ==
    /\ run = "serve"
    /\ ~connected \/ conn \notin up
    /\ Drop(conn)
    /\ conn' = None /\ connected' = FALSE
    /\ run' = "dial"
    /\ UNCHANGED <<dialled, receiver, executed, sessions, pending, call>>

\* receiveMessages, of session k's goroutine: at the top of its loop it takes
\* whatever connection is current, not the one it was started for.
Receiver(k, r) == receiver' = [receiver EXCEPT ![k] = r]

ReceiveTop(k) ==
    /\ receiver[k].pc = "top"
    /\ Receiver(k, IF conn = None \/ ~connected THEN [pc |-> "none"]
                   ELSE [pc |-> "read", on |-> conn])
    /\ UNCHANGED <<run, conn, connected, dialled, executed, net, sessions, pending, call>>

\* handleReceivedMessage executes the command in this goroutine.
ReceiveCommand(k) ==
    LET s == receiver[k].on IN
    /\ receiver[k].pc = "read" /\ toNode[s] # <<>>
    /\ Receiver(k, [pc |-> "handle", r |-> Head(toNode[s])])
    /\ toNode' = [toNode EXCEPT ![s] = Tail(@)]
    /\ UNCHANGED <<run, conn, connected, dialled, executed, up, toPanel, sessions, pending, call>>

\* ReadMessage fails: the link is gone, another goroutine reads it too, or
\* nothing arrives for 30 seconds.  The flag is cleared whatever connection is
\* current by now.
ReceiveFails(k) ==
    /\ receiver[k].pc = "read"
    /\ connected' = FALSE
    /\ Receiver(k, [pc |-> "none"])
    /\ UNCHANGED <<run, conn, dialled, executed, net, sessions, pending, call>>

\* Mutant: the response is sent before the command is executed.
ExecuteLate(k) ==
    /\ receiver[k].pc = "handle"
    /\ executed' = executed
    /\ Receiver(k, [receiver[k] EXCEPT !.pc = "respond"])
    /\ UNCHANGED <<run, conn, connected, dialled, net, sessions, pending, call>>

Execute(k) ==
    /\ receiver[k].pc = "handle"
    /\ executed' = [executed EXCEPT ![receiver[k].r] = @ + 1]
    /\ Receiver(k, [receiver[k] EXCEPT !.pc = "respond"])
    /\ UNCHANGED <<run, conn, connected, dialled, net, sessions, pending, call>>

\* sendResponse writes to the current connection; without one the response is
\* dropped.  A write to a connection that ended may fail, which clears the flag.
SendResponse(k) ==
    /\ receiver[k].pc = "respond"
    /\ Receiver(k, [pc |-> "top"])
    /\ \/ /\ conn # None /\ connected /\ conn \in up
          /\ toPanel' = [toPanel EXCEPT ![conn] = Append(@, receiver[k].r)]
          /\ connected' = connected
       \/ /\ conn = None \/ ~connected \/ conn \notin up
          /\ connected' \in {connected, FALSE}
          /\ toPanel' = toPanel
    /\ UNCHANGED <<run, conn, dialled, executed, up, toNode, sessions, pending, call>>

-----------------------------------------------------------------------------
\* afterConnectionEstablished of a node's session.
Establish(s, e) == establish' = [establish EXCEPT ![s] = e]

EstablishCheck(s) ==
    /\ establish[s].pc = "check"
    /\ Establish(s, [pc |-> "put", old |-> IF nodeSession \in opened THEN nodeSession ELSE None])
    /\ UNCHANGED <<node, net, nodeSession, opened, closing, status, pending, call>>

EstablishPut(s) ==
    /\ establish[s].pc = "put"
    /\ nodeSession' = s
    /\ Establish(s, [establish[s] EXCEPT !.pc =
                        IF establish[s].old = None THEN "online" ELSE "closeOld"])
    /\ UNCHANGED <<node, net, opened, closing, status, pending, call>>

\* existingSession.close(): the container then calls afterConnectionClosed.
Shut(s) ==
    /\ opened' = opened \ {s}
    /\ closing' = [closing EXCEPT ![s] = IF s \in opened THEN "check" ELSE @]

EstablishCloseOld(s) ==
    /\ establish[s].pc = "closeOld"
    /\ Shut(establish[s].old) /\ Drop(establish[s].old)
    /\ Establish(s, [establish[s] EXCEPT !.pc = "online"])
    /\ UNCHANGED <<node, nodeSession, status, pending, call>>

EstablishOnline(s) ==
    /\ establish[s].pc = "online"
    /\ status' = 1
    /\ Establish(s, [pc |-> "done"])
    /\ UNCHANGED <<node, net, nodeSession, opened, closing, pending, call>>

\* The node's row cannot be read or written: the exception is caught and the
\* session, or whichever has replaced it, is removed by the node's id.
EstablishFails(s) ==
    /\ establish[s].pc = "online"
    /\ nodeSession' = None
    /\ Establish(s, [pc |-> "done"])
    /\ UNCHANGED <<node, net, opened, closing, status, pending, call>>

\* The container notices that the link is gone; it reads from a session only
\* when afterConnectionEstablished has returned.
Notice(s) ==
    /\ s \in opened \ up /\ establish[s].pc = "done"
    /\ Shut(s)
    /\ UNCHANGED <<node, net, nodeSession, establish, status, pending, call>>

\* afterConnectionClosed: the session is compared, then removed by the node's id.
Closing(s, label) == closing' = [closing EXCEPT ![s] = label]

ClosedCheck(s) ==
    /\ closing[s] = "check"
    /\ Closing(s, IF nodeSession = s THEN "remove" ELSE "done")
    /\ UNCHANGED <<node, net, nodeSession, opened, establish, status, pending, call>>

ClosedRemove(s) ==
    /\ closing[s] = "remove"
    /\ nodeSession' = None
    /\ Closing(s, "offline")
    /\ UNCHANGED <<node, net, opened, establish, status, pending, call>>

\* The update of the row may throw, which is only logged.
ClosedOffline(s) ==
    /\ closing[s] = "offline"
    /\ status' \in {0, status}
    /\ Closing(s, "done")
    /\ UNCHANGED <<node, net, nodeSession, opened, establish, pending, call>>

-----------------------------------------------------------------------------
\* send_msg.
Call(r, c) == call' = [call EXCEPT ![r] = c]

SendLookup(r) ==
    /\ call[r].pc = "none"
    /\ Call(r, IF nodeSession = None THEN [pc |-> "refused"] ELSE [pc |-> "open", on |-> nodeSession])
    /\ UNCHANGED <<node, net, sessions, pending>>

\* A session that is not open any more is removed by the node's id.
SendCheckOpen(r) ==
    /\ call[r].pc = "open"
    /\ \/ /\ call[r].on \in opened
          /\ Call(r, [call[r] EXCEPT !.pc = "send"])
          /\ nodeSession' = nodeSession
       \/ /\ call[r].on \notin opened
          /\ Call(r, [pc |-> "refused"])
          /\ nodeSession' = None
    /\ UNCHANGED <<node, net, opened, establish, closing, status, pending>>

\* cleanupSession: the entry is removed if it is this very session.
CleanupSession(s) == nodeSession' = IF nodeSession = s THEN None ELSE nodeSession

\* pendingRequests.put, sendToUser.  A send into a broken link need not fail.
\* When the session is not open any more, or sendMessage throws (the link is
\* broken, or another thread is sending), it is cleaned up.  The caller waits
\* all the same.
SendCommand(r) ==
    LET s == call[r].on IN
    /\ call[r].pc = "send"
    /\ pending' = pending \cup {r}
    /\ Call(r, [pc |-> "wait"])
    /\ \/ /\ s \in opened \cap up
          /\ toNode' = [toNode EXCEPT ![s] = Append(@, r)]
          /\ nodeSession' = nodeSession
       \/ s \in opened \ up /\ UNCHANGED <<toNode, nodeSession>>
       \/ CleanupSession(s) /\ toNode' = toNode
    /\ UNCHANGED <<node, up, toPanel, opened, establish, closing, status>>

\* handleTextMessage: system information is acknowledged to the node, and a
\* failing acknowledgement cleans up the session as well.
AcknowledgeFails(s) ==
    /\ s \in opened /\ establish[s].pc = "done"
    /\ CleanupSession(s)
    /\ UNCHANGED <<node, net, opened, establish, closing, status, pending, call>>

\* handleTextMessage: the future of the request is completed, if it is there.
HandleResponse(s) ==
    /\ s \in opened /\ establish[s].pc = "done" /\ toPanel[s] # <<>>
    /\ LET r == Head(toPanel[s]) IN
           /\ pending' = pending \ {r}
           /\ IF r \in pending THEN Call(r, [pc |-> "ok"]) ELSE call' = call
    /\ toPanel' = [toPanel EXCEPT ![s] = Tail(@)]
    /\ UNCHANGED <<node, up, toNode, sessions>>

\* Mutant: the request stays in the map.
TimeoutLeaks(r) ==
    /\ call[r].pc = "wait"
    /\ Call(r, [pc |-> "timeout"])
    /\ UNCHANGED <<node, net, sessions, pending>>

\* Mutant: a request that timed out is sent once more.
TimeoutRetries(r) ==
    /\ call[r].pc = "wait"
    /\ Call(r, [pc |-> "none"])
    /\ UNCHANGED <<node, net, sessions, pending>>

\* future.get gives up after 10 seconds.
Timeout(r) ==
    /\ call[r].pc = "wait"
    /\ pending' = pending \ {r}
    /\ Call(r, [pc |-> "timeout"])
    /\ UNCHANGED <<node, net, sessions>>

-----------------------------------------------------------------------------
Break(s) ==
    /\ s \in up
    /\ Drop(s)
    /\ UNCHANGED <<node, sessions, pending, call>>

NodeStep ==
    \/ Connect \/ Serve \/ Skip \/ Disconnect
    \/ \E k \in Sessions :
          ReceiveTop(k) \/ ReceiveCommand(k) \/ ReceiveFails(k) \/ Execute(k) \/ SendResponse(k)

Handlers(s) ==
    \/ EstablishCheck(s) \/ EstablishPut(s) \/ EstablishCloseOld(s) \/ EstablishOnline(s)
    \/ EstablishFails(s) \/ Notice(s) \/ ClosedCheck(s) \/ ClosedRemove(s) \/ ClosedOffline(s)
    \/ HandleResponse(s) \/ AcknowledgeFails(s)

Caller(r) == SendLookup(r) \/ SendCheckOpen(r) \/ SendCommand(r) \/ Timeout(r)

Next ==
    \/ NodeStep
    \/ \E s \in Sessions : Handlers(s) \/ Break(s)
    \/ \E r \in Requests : Caller(r)

Spec == Init /\ [][Next]_vars

-----------------------------------------------------------------------------
ReceiverTypes ==
    [pc : {"none", "top"}] \cup [pc : {"read"}, on : Sessions]
        \cup [pc : {"handle", "respond"}, r : Requests]
EstablishTypes ==
    [pc : {"none", "check", "done"}]
        \cup [pc : {"put", "closeOld", "online"}, old : Sessions \cup {None}]
CallTypes ==
    [pc : {"none", "refused", "wait", "ok", "timeout"}]
        \cup [pc : {"open", "send"}, on : Sessions]

\* Every variable keeps its type.  The flag is only set while run() has the latest
\* connection in use, which is then the current one, and while it dials the flag
\* is clear, so that it never waits for a connection it takes for a working one;
\* only connections that were dialled are in use anywhere.
TypeOK ==
    /\ run \in {"dial", "check", "serve"} /\ connected \in BOOLEAN
    /\ dialled \in 0..MaxSessions
    /\ conn \in {None, dialled}
    /\ run # "dial" => conn = dialled /\ dialled # 0
    /\ run = "dial" => ~connected
    /\ receiver \in [Sessions -> ReceiverTypes]
    /\ executed \in [Requests -> Nat]
    /\ up \subseteq 1..dialled /\ opened \subseteq 1..dialled
    /\ nodeSession \in 0..dialled
    /\ toNode \in [Sessions -> Seq(Requests)] /\ toPanel \in [Sessions -> Seq(Requests)]
    /\ establish \in [Sessions -> EstablishTypes]
    /\ \A s \in Sessions : establish[s].pc # "none" => s <= dialled
    /\ closing \in [Sessions -> {"none", "check", "remove", "offline", "done"}]
    /\ status \in {0, 1}
    /\ pending \subseteq Requests
    /\ call \in [Requests -> CallTypes]

Sent(r) == call[r].pc \in {"wait", "ok", "timeout"}
Handles(k, r) == receiver[k].pc = "handle" /\ receiver[k].r = r

\* A command is executed once because it is only ever in one place: in one
\* queue and once, or in the hands of one goroutine, and in neither any more
\* when it has been executed.  Responses are those of executed commands.
Once ==
    /\ \A s \in Sessions : \A i \in 1..Len(toNode[s]) :
           executed[toNode[s][i]] = 0 /\ Sent(toNode[s][i])
    /\ \A s, t \in Sessions : \A i \in 1..Len(toNode[s]), j \in 1..Len(toNode[t]) :
           toNode[s][i] = toNode[t][j] => s = t /\ i = j
    /\ \A k \in Sessions, r \in Requests : Handles(k, r) =>
           /\ executed[r] = 0 /\ Sent(r)
           /\ \A s \in Sessions : \A i \in 1..Len(toNode[s]) : toNode[s][i] # r
           /\ \A j \in Sessions : Handles(j, r) => j = k
    /\ \A k \in Sessions : receiver[k].pc = "respond" => executed[receiver[k].r] = 1
    /\ \A s \in Sessions : \A i \in 1..Len(toPanel[s]) : executed[toPanel[s][i]] = 1
    /\ \A r \in Requests :
           /\ executed[r] \in {0, 1}
           /\ executed[r] = 1 => Sent(r)
           /\ call[r].pc = "ok" => executed[r] = 1

Result(r) ==
    CASE call[r].pc \in {"ok", "refused"} -> call[r].pc
      [] call[r].pc = "timeout" -> "unknown"
      [] OTHER -> "none"

\* Over connections that break, overtake each other and are closed from either
\* side, send_msg keeps what its callers count on (RemoteCall).
Remote == INSTANCE RemoteCall WITH result <- [r \in Requests |-> Result(r)]
RemoteSpec == Remote!Spec

\* pendingRequests holds the requests somebody waits for and no others: neither
\* a late response nor a timeout leaves one behind or takes away another's.
PendingExact == pending = {r \in Requests : call[r].pc = "wait"}

-----------------------------------------------------------------------------
\* WebSocketServer.java:328 says that the comparison filters out connections
\* that were overwritten: the close handler of a session never takes the entry
\* of a newer one out of the map.
SessionKept ==
    [][\A s \in Sessions : closing[s] = "remove" /\ closing'[s] = "offline"
          => nodeSession \in {s, None}]_vars
=============================================================================
