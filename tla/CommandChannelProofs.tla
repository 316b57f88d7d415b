------------------------ MODULE CommandChannelProofs ------------------------
(***************************************************************************)
(* Proofs about CommandChannel, for any number of commands and connections *)
(* : its types, that a command is only ever in one place, and from both    *)
(* that it implements RemoteCall.                                          *)
(***************************************************************************)
EXTENDS CommandChannel, TLAPS

USE ChannelAssumption DEF Sessions, None

NodeTypes ==
    /\ run \in {"dial", "check", "serve"} /\ connected \in BOOLEAN
    /\ dialled \in 0..MaxSessions
    /\ conn \in {0, dialled}
    /\ run # "dial" => conn = dialled /\ dialled # 0
    /\ run = "dial" => ~connected
    /\ receiver \in [Sessions -> ReceiverTypes]
    /\ executed \in [Requests -> Nat]

NetTypes ==
    /\ up \subseteq 1..dialled
    /\ toNode \in [Sessions -> Seq(Requests)] /\ toPanel \in [Sessions -> Seq(Requests)]

PanelTypes ==
    /\ opened \subseteq 1..dialled
    /\ nodeSession \in 0..dialled
    /\ establish \in [Sessions -> EstablishTypes]
    /\ \A s \in Sessions : establish[s].pc # "none" => s <= dialled
    /\ closing \in [Sessions -> {"none", "check", "remove", "offline", "done"}]
    /\ status \in {0, 1}
    /\ pending \subseteq Requests
    /\ call \in [Requests -> CallTypes]

\* The type invariant in three parts, so that a step is asked only about the
\* part it changes.
LEMMA TypeParts == TypeOK <=> NodeTypes /\ NetTypes /\ PanelTypes
BY DEF TypeOK, NodeTypes, NetTypes, PanelTypes

\* The initial state is well typed.
LEMMA InitTypes == Init => TypeOK
<1> SUFFICES ASSUME Init PROVE NodeTypes /\ NetTypes /\ PanelTypes
    BY TypeParts
<1>1. NodeTypes
    <2>1. receiver \in [Sessions -> ReceiverTypes]
        BY DEF Init, ReceiverTypes
    <2>2. connected \in BOOLEAN /\ ~connected
        BY DEF Init
    <2>3. executed \in [Requests -> Nat]
        BY DEF Init
    <2>4. run = "dial" /\ conn = 0 /\ dialled = 0
        BY DEF Init
    <2> QED BY <2>1, <2>2, <2>3, <2>4 DEF NodeTypes
<1>2. NetTypes
    BY DEF Init, NetTypes
<1>3. PanelTypes
    BY DEF Init, PanelTypes, EstablishTypes, CallTypes
<1> QED BY <1>1, <1>2, <1>3

\* What each kind of step of a connection's goroutine may put into receiver.
LEMMA ReceiverUpdate ==
    ASSUME NEW k \in Sessions, NEW x \in ReceiverTypes,
           receiver \in [Sessions -> ReceiverTypes], Receiver(k, x)
    PROVE  receiver' \in [Sessions -> ReceiverTypes]
BY DEF Receiver

\* Reading the fields of a goroutine's state.
LEMMA ReceiverFields ==
    ASSUME NEW k \in Sessions, receiver \in [Sessions -> ReceiverTypes]
    PROVE  /\ receiver[k].pc = "read" => receiver[k].on \in Sessions
           /\ receiver[k].pc \in {"handle", "respond"} => receiver[k].r \in Requests
BY DEF ReceiverTypes

LEMMA CallFields ==
    ASSUME NEW r \in Requests, call \in [Requests -> CallTypes]
    PROVE  call[r].pc \in {"open", "send"} => call[r].on \in Sessions
BY DEF CallTypes

LEMMA EstablishFields ==
    ASSUME NEW s \in Sessions, establish \in [Sessions -> EstablishTypes]
    PROVE  establish[s].pc \in {"put", "closeOld", "online"} =>
               establish[s].old \in Sessions \cup {0}
BY DEF EstablishTypes

\* Ending a connection keeps the queues typed.
LEMMA DropTypes ==
    ASSUME NetTypes, dialled' = dialled, NEW s, Drop(s)
    PROVE  NetTypes'
<1>1. up' \subseteq 1..dialled'
    BY DEF NetTypes, Drop
<1>2. toNode' \in [Sessions -> Seq(Requests)]
    <2>1. <<>> \in Seq(Requests)
        OBVIOUS
    <2> QED BY <2>1 DEF NetTypes, Drop
<1>3. toPanel' \in [Sessions -> Seq(Requests)]
    <2>1. <<>> \in Seq(Requests)
        OBVIOUS
    <2> QED BY <2>1 DEF NetTypes, Drop
<1> QED BY <1>1, <1>2, <1>3 DEF NetTypes

-----------------------------------------------------------------------------
\* The node's own steps keep the types.
LEMMA NodeStepTypes == TypeOK /\ NodeStep => TypeOK'
<1> SUFFICES ASSUME TypeOK, NodeStep PROVE TypeOK'
    OBVIOUS
<1>t. NodeTypes /\ NetTypes /\ PanelTypes
    BY TypeParts
<1>1. CASE Connect
    <2>1. dialled + 1 \in Sessions
        BY <1>1, <1>t DEF Connect, NodeTypes
    <2>2. NodeTypes'
        BY <1>1, <1>t, <2>1 DEF Connect, NodeTypes
    <2>3. NetTypes'
        BY <1>1, <1>t, <2>1 DEF Connect, NodeTypes, NetTypes
    <2>4. PanelTypes'
        BY <1>1, <1>t, <2>1 DEF Connect, NodeTypes, PanelTypes, EstablishTypes
    <2> QED BY <2>2, <2>3, <2>4, TypeParts, PTL
<1>8. CASE Serve \/ Skip
    <2>1. conn # 0 => conn \in Sessions
        BY <1>t DEF NodeTypes
    <2>2. [pc |-> "top"] \in ReceiverTypes
        BY DEF ReceiverTypes
    <2>3. receiver' \in [Sessions -> ReceiverTypes]
        BY <1>8, <1>t, <2>1, <2>2 DEF Serve, Skip, NodeTypes
    <2>4. NodeTypes'
        BY <1>8, <1>t, <2>3 DEF Serve, Skip, NodeTypes
    <2>5. NetTypes' /\ PanelTypes'
        BY <1>8, <1>t DEF Serve, Skip, NetTypes, PanelTypes, net, sessions
    <2> QED BY <2>4, <2>5, TypeParts, PTL
<1>2. CASE Disconnect
    <2>1. NodeTypes'
        BY <1>2, <1>t DEF Disconnect, NodeTypes
    <2>2. NetTypes'
        BY <1>2, <1>t, DropTypes DEF Disconnect
    <2>3. PanelTypes'
        BY <1>2, <1>t DEF Disconnect, PanelTypes, sessions
    <2> QED BY <2>1, <2>2, <2>3, TypeParts, PTL
<1>3. ASSUME NEW k \in Sessions, ReceiveTop(k) PROVE TypeOK'
    <2>1. conn # 0 => conn \in Sessions
        BY <1>t DEF NodeTypes
    <2>2. NodeTypes'
        BY <1>3, <1>t, <2>1, ReceiverUpdate DEF ReceiveTop, NodeTypes, ReceiverTypes
    <2>3. NetTypes' /\ PanelTypes'
        BY <1>3, <1>t DEF ReceiveTop, NetTypes, PanelTypes, net, sessions
    <2> QED BY <2>2, <2>3, TypeParts, PTL
<1>4. ASSUME NEW k \in Sessions, ReceiveCommand(k) PROVE TypeOK'
    <2>1. receiver[k].on \in Sessions
        BY <1>4, <1>t, ReceiverFields DEF ReceiveCommand, NodeTypes
    <2>2. /\ Head(toNode[receiver[k].on]) \in Requests
          /\ Tail(toNode[receiver[k].on]) \in Seq(Requests)
        BY <1>4, <1>t, <2>1 DEF ReceiveCommand, NetTypes
    <2>3. NodeTypes'
        BY <1>4, <1>t, <2>2, ReceiverUpdate DEF ReceiveCommand, NodeTypes, ReceiverTypes
    <2>4. NetTypes'
        BY <1>4, <1>t, <2>1, <2>2 DEF ReceiveCommand, NetTypes
    <2>5. PanelTypes'
        BY <1>4, <1>t DEF ReceiveCommand, PanelTypes, sessions
    <2> QED BY <2>3, <2>4, <2>5, TypeParts, PTL
<1>5. ASSUME NEW k \in Sessions, ReceiveFails(k) PROVE TypeOK'
    <2>1. NodeTypes'
        BY <1>5, <1>t, ReceiverUpdate DEF ReceiveFails, NodeTypes, ReceiverTypes
    <2>2. NetTypes' /\ PanelTypes'
        BY <1>5, <1>t DEF ReceiveFails, NetTypes, PanelTypes, net, sessions
    <2> QED BY <2>1, <2>2, TypeParts, PTL
<1>6. ASSUME NEW k \in Sessions, Execute(k) PROVE TypeOK'
    <2>1. [receiver[k] EXCEPT !.pc = "respond"] \in ReceiverTypes
        BY <1>6, <1>t DEF Execute, NodeTypes, ReceiverTypes
    <2>2. receiver' \in [Sessions -> ReceiverTypes]
        BY <1>6, <1>t, <2>1, ReceiverUpdate DEF Execute, NodeTypes
    <2>3. executed' \in [Requests -> Nat]
        BY <1>6, <1>t, ReceiverFields DEF Execute, NodeTypes
    <2>4. NodeTypes'
        BY <1>6, <1>t, <2>2, <2>3 DEF Execute, NodeTypes
    <2>5. NetTypes' /\ PanelTypes'
        BY <1>6, <1>t DEF Execute, NetTypes, PanelTypes, net, sessions
    <2> QED BY <2>4, <2>5, TypeParts, PTL
<1>7. ASSUME NEW k \in Sessions, SendResponse(k) PROVE TypeOK'
    <2>6. receiver' \in [Sessions -> ReceiverTypes]
        BY <1>7, <1>t, ReceiverUpdate DEF SendResponse, NodeTypes, ReceiverTypes
    <2>7. connected' = connected \/ connected' = FALSE
        BY <1>7 DEF SendResponse
    <2>8. connected' \in BOOLEAN /\ (~connected => ~connected')
        <3>1. connected \in BOOLEAN
            BY <1>t DEF NodeTypes
        <3>2. CASE connected' = connected
            BY <3>1, <3>2, Zenon
        <3>3. CASE connected' = FALSE
            BY <3>3, Zenon
        <3> QED BY <2>7, <3>2, <3>3
    <2>9. UNCHANGED <<run, conn, dialled, executed>>
        BY <1>7 DEF SendResponse
    <2>1. NodeTypes'
        BY <2>6, <2>8, <2>9, <1>t DEF NodeTypes
    <2>2. receiver[k].r \in Requests
        BY <1>7, <1>t, ReceiverFields DEF SendResponse, NodeTypes
    <2>3. toPanel' \in [Sessions -> Seq(Requests)]
        <3>1. \/ toPanel' = [toPanel EXCEPT ![conn] = Append(toPanel[conn], receiver[k].r)]
              \/ toPanel' = toPanel
            BY <1>7 DEF SendResponse
        <3>2. \A s \in Sessions : Append(toPanel[s], receiver[k].r) \in Seq(Requests)
            BY <2>2, <1>t DEF NetTypes
        <3> QED BY <3>1, <3>2, <1>t DEF NetTypes
    <2>4. NetTypes'
        BY <1>7, <1>t, <2>3 DEF SendResponse, NetTypes
    <2>5. PanelTypes'
        BY <1>7, <1>t DEF SendResponse, PanelTypes, sessions
    <2> QED BY <2>1, <2>4, <2>5, TypeParts, PTL
<1> QED BY <1>1, <1>2, <1>3, <1>4, <1>5, <1>6, <1>7, <1>8 DEF NodeStep

-----------------------------------------------------------------------------
\* A step of the panel that leaves the node alone and the network typed only
\* has its own part to show.
LEMMA PanelOnly ==
    ASSUME TypeOK, UNCHANGED node, NetTypes', PanelTypes'
    PROVE  TypeOK'
<1>1. NodeTypes'
    BY TypeParts DEF NodeTypes, node
<1> QED BY <1>1, TypeParts, PTL

LEMMA NetKept ==
    ASSUME TypeOK, UNCHANGED net, UNCHANGED node
    PROVE  NetTypes'
BY TypeParts DEF NetTypes, net, node

\* A step of afterConnectionEstablished of a session that was dialled.
LEMMA EstablishUpdate ==
    ASSUME PanelTypes, UNCHANGED dialled, NEW s \in Sessions, establish[s].pc # "none",
           NEW e \in EstablishTypes, Establish(s, e)
    PROVE  /\ establish' \in [Sessions -> EstablishTypes]
           /\ \A t \in Sessions : establish'[t].pc # "none" => t <= dialled'
BY DEF PanelTypes, Establish

\* The handlers the container calls keep the types.
LEMMA HandlersTypes ==
    ASSUME TypeOK, NEW s \in Sessions, Handlers(s)
    PROVE  TypeOK'
<1>t. NodeTypes /\ NetTypes /\ PanelTypes
    BY TypeParts
<1>d. dialled \in 0..MaxSessions
    BY <1>t DEF NodeTypes
<1>1. CASE EstablishCheck(s)
    <2>1. [pc |-> "put", old |-> IF nodeSession \in opened THEN nodeSession ELSE 0]
              \in EstablishTypes
        BY <1>t, <1>d DEF PanelTypes, EstablishTypes
    <2>2. PanelTypes'
        BY <1>1, <1>t, <2>1, EstablishUpdate DEF EstablishCheck, PanelTypes, node
    <2> QED BY <1>1, <2>2, NetKept, PanelOnly DEF EstablishCheck
<1>2. CASE EstablishPut(s)
    <2>1. [establish[s] EXCEPT !.pc = IF establish[s].old = 0 THEN "online" ELSE "closeOld"]
              \in EstablishTypes
        BY <1>2, <1>t DEF EstablishPut, PanelTypes, EstablishTypes
    <2>2. s \in 0..dialled
        BY <1>2, <1>t, <1>d DEF EstablishPut, PanelTypes
    <2>3. PanelTypes'
        BY <1>2, <1>t, <2>1, <2>2, EstablishUpdate DEF EstablishPut, PanelTypes, node
    <2> QED BY <1>2, <2>3, NetKept, PanelOnly DEF EstablishPut
<1>3. CASE EstablishCloseOld(s)
    <2>1. [establish[s] EXCEPT !.pc = "online"] \in EstablishTypes
        BY <1>3, <1>t DEF EstablishCloseOld, PanelTypes, EstablishTypes
    <2>2. PanelTypes'
        BY <1>3, <1>t, <2>1, EstablishUpdate DEF EstablishCloseOld, Shut, PanelTypes, node
    <2>3. NetTypes'
        BY <1>3, <1>t, DropTypes DEF EstablishCloseOld, node
    <2> QED BY <1>3, <2>2, <2>3, PanelOnly DEF EstablishCloseOld
<1>4. CASE EstablishOnline(s)
    <2>1. [pc |-> "done"] \in EstablishTypes
        BY DEF EstablishTypes
    <2>2. PanelTypes'
        BY <1>4, <1>t, <2>1, EstablishUpdate DEF EstablishOnline, PanelTypes, node
    <2> QED BY <1>4, <2>2, NetKept, PanelOnly DEF EstablishOnline
<1>8. CASE EstablishFails(s) \/ AcknowledgeFails(s)
    <2>1. [pc |-> "done"] \in EstablishTypes
        BY DEF EstablishTypes
    <2>2. nodeSession' \in 0..dialled
        BY <1>8, <1>t, <1>d DEF EstablishFails, AcknowledgeFails, CleanupSession, PanelTypes
    <2>3. UNCHANGED establish \/ (establish[s].pc # "none" /\ Establish(s, [pc |-> "done"]))
        BY <1>8 DEF EstablishFails, AcknowledgeFails
    <2>4. UNCHANGED <<dialled, opened, closing, status, pending, call>>
        BY <1>8 DEF EstablishFails, AcknowledgeFails, node
    <2>5. /\ establish' \in [Sessions -> EstablishTypes]
          /\ \A t \in Sessions : establish'[t].pc # "none" => t <= dialled'
        <3>1. CASE UNCHANGED establish
            BY <1>t, <2>4, <3>1 DEF PanelTypes
        <3>2. CASE establish[s].pc # "none" /\ Establish(s, [pc |-> "done"])
            BY <1>t, <2>1, <2>4, <3>2, EstablishUpdate
        <3> QED BY <2>3, <3>1, <3>2
    <2>6. PanelTypes'
        BY <1>t, <2>2, <2>4, <2>5 DEF PanelTypes
    <2> QED BY <1>8, <2>6, NetKept, PanelOnly DEF EstablishFails, AcknowledgeFails
<1>5. CASE Notice(s)
    <2>1. PanelTypes'
        BY <1>5, <1>t DEF Notice, Shut, PanelTypes, node
    <2> QED BY <1>5, <2>1, NetKept, PanelOnly DEF Notice
<1>6. CASE ClosedCheck(s) \/ ClosedRemove(s) \/ ClosedOffline(s)
    <2>3. closing' \in [Sessions -> {"none", "check", "remove", "offline", "done"}]
        BY <1>6, <1>t DEF ClosedCheck, ClosedRemove, ClosedOffline, Closing, PanelTypes
    <2>4. (nodeSession' = nodeSession \/ nodeSession' = 0) /\ (status' = status \/ status' = 0)
        BY <1>6 DEF ClosedCheck, ClosedRemove, ClosedOffline
    <2>5. UNCHANGED <<dialled, opened, establish, pending, call>>
        BY <1>6 DEF ClosedCheck, ClosedRemove, ClosedOffline, node
    <2>1. PanelTypes'
        BY <1>t, <1>d, <2>3, <2>4, <2>5 DEF PanelTypes
    <2>2. UNCHANGED node /\ UNCHANGED net
        BY <1>6 DEF ClosedCheck, ClosedRemove, ClosedOffline
    <2> QED BY <2>1, <2>2, NetKept, PanelOnly
<1>7. CASE HandleResponse(s)
    <2>1. Tail(toPanel[s]) \in Seq(Requests)
        BY <1>7, <1>t DEF HandleResponse, NetTypes
    <2>2. NetTypes'
        BY <1>7, <1>t, <2>1 DEF HandleResponse, NetTypes, node
    <2>3. call' \in [Requests -> CallTypes]
        BY <1>7, <1>t DEF HandleResponse, Call, PanelTypes, CallTypes
    <2>4. PanelTypes'
        BY <1>7, <1>t, <2>3 DEF HandleResponse, PanelTypes, node, sessions
    <2> QED BY <1>7, <2>2, <2>4, PanelOnly DEF HandleResponse
<1> QED BY <1>1, <1>2, <1>3, <1>4, <1>5, <1>6, <1>7, <1>8 DEF Handlers

\* The thread that sends a command keeps the types.
LEMMA CallerTypes ==
    ASSUME TypeOK, NEW r \in Requests, Caller(r)
    PROVE  TypeOK'
<1>t. NodeTypes /\ NetTypes /\ PanelTypes
    BY TypeParts
<1>d. dialled \in 0..MaxSessions
    BY <1>t DEF NodeTypes
<1>1. CASE SendLookup(r)
    <2>1. nodeSession # 0 => nodeSession \in Sessions
        BY <1>t, <1>d DEF PanelTypes
    <2>2. call' \in [Requests -> CallTypes]
        BY <1>1, <1>t, <2>1 DEF SendLookup, Call, PanelTypes, CallTypes
    <2>3. PanelTypes'
        BY <1>1, <1>t, <2>2 DEF SendLookup, PanelTypes, node, sessions
    <2> QED BY <1>1, <2>3, NetKept, PanelOnly DEF SendLookup
<1>2. CASE SendCheckOpen(r)
    <2>1. [call[r] EXCEPT !.pc = "send"] \in CallTypes
        BY <1>2, <1>t DEF SendCheckOpen, PanelTypes, CallTypes
    <2>5. [pc |-> "refused"] \in CallTypes
        BY DEF CallTypes
    <2>2. call' \in [Requests -> CallTypes]
        BY <1>2, <1>t, <2>1, <2>5 DEF SendCheckOpen, Call, PanelTypes
    <2>3. nodeSession' \in 0..dialled
        BY <1>2, <1>t, <1>d DEF SendCheckOpen, PanelTypes
    <2>4. PanelTypes'
        BY <1>2, <1>t, <2>2, <2>3 DEF SendCheckOpen, PanelTypes, node
    <2> QED BY <1>2, <2>4, NetKept, PanelOnly DEF SendCheckOpen
<1>3. CASE SendCommand(r)
    <2>1. call[r].on \in Sessions
        BY <1>3, <1>t, CallFields DEF SendCommand, PanelTypes
    <2>7. Append(toNode[call[r].on], r) \in Seq(Requests)
        BY <1>t, <2>1 DEF NetTypes
    <2>8. \/ toNode' = [toNode EXCEPT ![call[r].on] = Append(toNode[call[r].on], r)]
          \/ toNode' = toNode
        BY <1>3 DEF SendCommand
    <2>2. toNode' \in [Sessions -> Seq(Requests)]
        BY <1>t, <2>7, <2>8 DEF NetTypes
    <2>3. NetTypes'
        BY <1>3, <1>t, <2>2 DEF SendCommand, NetTypes, node
    <2>4. nodeSession' \in 0..dialled
        BY <1>3, <1>t, <1>d DEF SendCommand, CleanupSession, PanelTypes
    <2>5. call' \in [Requests -> CallTypes]
        BY <1>3, <1>t DEF SendCommand, Call, PanelTypes, CallTypes
    <2>6. PanelTypes'
        BY <1>3, <1>t, <2>4, <2>5 DEF SendCommand, PanelTypes, node
    <2> QED BY <1>3, <2>3, <2>6, PanelOnly DEF SendCommand
<1>4. CASE Timeout(r)
    <2>1. call' \in [Requests -> CallTypes]
        BY <1>4, <1>t DEF Timeout, Call, PanelTypes, CallTypes
    <2>2. PanelTypes'
        BY <1>4, <1>t, <2>1 DEF Timeout, PanelTypes, node, sessions
    <2> QED BY <1>4, <2>2, NetKept, PanelOnly DEF Timeout
<1> QED BY <1>1, <1>2, <1>3, <1>4 DEF Caller

\* Every step keeps the types.
LEMMA NextTypes == TypeOK /\ [Next]_vars => TypeOK'
<1> SUFFICES ASSUME TypeOK, [Next]_vars PROVE TypeOK'
    OBVIOUS
<1>1. CASE NodeStep
    BY <1>1, NodeStepTypes
<1>2. ASSUME NEW s \in Sessions, Handlers(s) PROVE TypeOK'
    BY <1>2, HandlersTypes
<1>3. ASSUME NEW s \in Sessions, Break(s) PROVE TypeOK'
    <2>1. NetTypes'
        BY <1>3, TypeParts, DropTypes DEF Break, node
    <2>2. PanelTypes'
        BY <1>3, TypeParts DEF Break, PanelTypes, node, sessions
    <2> QED BY <1>3, <2>1, <2>2, PanelOnly DEF Break
<1>4. ASSUME NEW r \in Requests, Caller(r) PROVE TypeOK'
    BY <1>4, CallerTypes
<1>5. CASE UNCHANGED vars
    BY <1>5 DEF TypeOK, vars, node, net, sessions
<1> QED BY <1>1, <1>2, <1>3, <1>4, <1>5 DEF Next

\* TypeOK holds in every reachable state: whatever breaks, and although a
\* goroutine of an earlier connection may clear the flag between connect and
\* run's second look at it, the flag is only set while run() is past its dialling
\* and has the connection dialled last; all threads and goroutines only use
\* connections that were dialled.
THEOREM ChannelTypes == Spec => []TypeOK
BY InitTypes, NextTypes, PTL DEF Spec

-----------------------------------------------------------------------------
\* Once, by what a conjunct looks at.
Queued ==
    /\ \A s \in Sessions : \A i \in 1..Len(toNode[s]) :
           executed[toNode[s][i]] = 0 /\ Sent(toNode[s][i])
    /\ \A s, t \in Sessions : \A i \in 1..Len(toNode[s]), j \in 1..Len(toNode[t]) :
           toNode[s][i] = toNode[t][j] => s = t /\ i = j

Held == \A k \in Sessions, r \in Requests : Handles(k, r) =>
    /\ executed[r] = 0 /\ Sent(r)
    /\ \A s \in Sessions : \A i \in 1..Len(toNode[s]) : toNode[s][i] # r
    /\ \A j \in Sessions : Handles(j, r) => j = k

Answers ==
    /\ \A k \in Sessions : receiver[k].pc = "respond" => executed[receiver[k].r] = 1
    /\ \A s \in Sessions : \A i \in 1..Len(toPanel[s]) : executed[toPanel[s][i]] = 1

Told == \A r \in Requests :
    /\ executed[r] \in {0, 1}
    /\ executed[r] = 1 => Sent(r)
    /\ call[r].pc = "ok" => executed[r] = 1

LEMMA OnceParts == Once <=> Queued /\ Held /\ Answers /\ Told
BY DEF Once, Queued, Held, Answers, Told

\* Equal commands in queues are one and the same place.
LEMMA Distinct ==
    ASSUME Queued, NEW t \in Sessions, NEW u \in Sessions,
           NEW i \in 1..Len(toNode[t]), NEW j \in 1..Len(toNode[u]),
           toNode[t][i] = toNode[u][j]
    PROVE  t = u /\ i = j
<1>1. \A s, v \in Sessions : \A a \in 1..Len(toNode[s]), b \in 1..Len(toNode[v]) :
          toNode[s][a] = toNode[v][b] => s = v /\ a = b
    BY DEF Queued
<1> HIDE DEF Queued
<1> QED BY <1>1

\* A command in the hands of a goroutine is in no queue, nor in other hands.
LEMMA HeldBy ==
    ASSUME Held, NEW k \in Sessions, NEW r \in Requests, Handles(k, r)
    PROVE  /\ executed[r] = 0 /\ Sent(r)
           /\ \A s \in Sessions : \A i \in 1..Len(toNode[s]) : toNode[s][i] # r
           /\ \A j \in Sessions : Handles(j, r) => j = k
BY Zenon DEF Held

\* Nothing is in any place at first.
LEMMA InitOnce == Init => Once
<1> SUFFICES ASSUME Init PROVE Queued /\ Held /\ Answers /\ Told
    BY OnceParts
<1>1. \A s \in Sessions : Len(toNode[s]) = 0 /\ Len(toPanel[s]) = 0
    BY DEF Init
<1>2. \A k \in Sessions : receiver[k].pc = "none"
    BY DEF Init
<1>3. Queued
    BY <1>1 DEF Queued
<1>4. Held /\ Answers
    BY <1>1, <1>2 DEF Held, Answers, Handles
<1>5. Told
    <2>1. \A r \in Requests : executed[r] = 0 /\ call[r].pc = "none"
        BY DEF Init
    <2>2. SUFFICES ASSUME NEW r \in Requests
                   PROVE  /\ executed[r] \in {0, 1}
                          /\ executed[r] = 1 => Sent(r)
                          /\ call[r].pc = "ok" => executed[r] = 1
        BY DEF Told
    <2>3. executed[r] = 0 /\ call[r].pc = "none"
        BY <2>1
    <2> QED BY <2>3
<1> QED BY <1>3, <1>4, <1>5

\* A step that executes nothing, sends nothing and picks nothing up, at most
\* loses what was on its way or tells callers what is true, keeps Once.
LEMMA Fewer ==
    ASSUME Once, executed' = executed,
           \A s \in Sessions : toNode'[s] = toNode[s] \/ toNode'[s] = <<>>,
           \A s \in Sessions : toPanel'[s] = toPanel[s] \/ toPanel'[s] = <<>>,
           \A k \in Sessions :
               receiver'[k] = receiver[k] \/ receiver'[k].pc \notin {"handle", "respond"},
           \A r \in Requests : Sent(r) => Sent(r)',
           \A r \in Requests : call'[r].pc = "ok" => executed[r] = 1,
           TypeOK
    PROVE  Once'
<1>o. Queued /\ Held /\ Answers /\ Told
    BY OnceParts
<1>q. \A s \in Sessions : \A i \in 1..Len(toNode'[s]) :
          toNode'[s] = toNode[s] /\ i \in 1..Len(toNode[s]) /\ toNode[s][i] \in Requests
    BY DEF TypeOK
<1>p. \A s \in Sessions : \A i \in 1..Len(toPanel'[s]) :
          toPanel'[s] = toPanel[s] /\ i \in 1..Len(toPanel[s])
    BY DEF TypeOK
<1>1. Queued'
    <2>1. ASSUME NEW s \in Sessions, NEW i \in 1..Len(toNode'[s])
          PROVE  (executed[toNode[s][i]] = 0 /\ Sent(toNode[s][i]))'
        <3>1. /\ toNode'[s] = toNode[s] /\ i \in 1..Len(toNode[s])
              /\ toNode[s][i] \in Requests
            BY <1>q
        <3>2. executed[toNode[s][i]] = 0 /\ Sent(toNode[s][i])
            BY <1>o, <3>1 DEF Queued
        <3> QED BY <3>1, <3>2 DEF Sent
    <2>2. \A s, t \in Sessions : \A i \in 1..Len(toNode'[s]), j \in 1..Len(toNode'[t]) :
              toNode'[s][i] = toNode'[t][j] => s = t /\ i = j
        BY <1>o, <1>q DEF Queued
    <2> QED BY <2>1, <2>2 DEF Queued, Sent
<1>2. Held'
    <2>1. \A k \in Sessions, r \in Requests : Handles(k, r)' => Handles(k, r)
        BY DEF Handles
    <2>2. ASSUME NEW k \in Sessions, NEW r \in Requests, Handles(k, r)'
          PROVE  /\ executed'[r] = 0 /\ Sent(r)'
                 /\ \A s \in Sessions : \A i \in 1..Len(toNode'[s]) : toNode'[s][i] # r
                 /\ \A j \in Sessions : Handles(j, r)' => j = k
        <3>1. /\ executed[r] = 0 /\ Sent(r)
              /\ \A s \in Sessions : \A i \in 1..Len(toNode[s]) : toNode[s][i] # r
              /\ \A j \in Sessions : Handles(j, r) => j = k
            BY <1>o, <2>1, <2>2, HeldBy
        <3>2. \A s \in Sessions : \A i \in 1..Len(toNode'[s]) : toNode'[s][i] # r
            BY <1>q, <3>1
        <3>3. \A j \in Sessions : Handles(j, r)' => j = k
            BY <2>1, <3>1
        <3> QED BY <3>1, <3>2, <3>3
    <2> QED BY Zenon, <2>2 DEF Held
<1>3. Answers'
    <2>1. \A k \in Sessions : receiver'[k].pc = "respond" => executed'[receiver'[k].r] = 1
        BY <1>o DEF Answers
    <2>2. \A s \in Sessions : \A i \in 1..Len(toPanel'[s]) : executed'[toPanel'[s][i]] = 1
        BY <1>o, <1>p DEF Answers
    <2> QED BY <2>1, <2>2 DEF Answers
<1>4. Told'
    BY <1>o DEF Told
<1> QED BY <1>1, <1>2, <1>3, <1>4, OnceParts, PTL

\* Taking the first command of a queue: it moves from the queue to the goroutine.
LEMMA ReceiveCommandOnce ==
    ASSUME TypeOK, Once, NEW k \in Sessions, ReceiveCommand(k)
    PROVE  Once'
<1> DEFINE s == receiver[k].on
           r == Head(toNode[s])
<1>o. Queued /\ Held /\ Answers /\ Told
    BY OnceParts
<1>t. /\ s \in Sessions /\ toNode \in [Sessions -> Seq(Requests)] /\ toNode[s] # <<>>
      /\ receiver \in [Sessions -> ReceiverTypes]
    BY ReceiverFields DEF TypeOK, ReceiveCommand
<1>a. /\ receiver' = [receiver EXCEPT ![k] = [pc |-> "handle", r |-> r]]
      /\ toNode' = [toNode EXCEPT ![s] = Tail(toNode[s])]
      /\ UNCHANGED <<executed, toPanel, call>>
    BY DEF ReceiveCommand, Receiver, net, sessions
<1>r. r \in Requests /\ r = toNode[s][1] /\ 1 \in 1..Len(toNode[s])
    BY <1>t
<1>q. ASSUME NEW t \in Sessions, NEW i \in 1..Len(toNode'[t])
      PROVE  \E a \in 1..Len(toNode[t]) :
                 toNode'[t][i] = toNode[t][a] /\ a = IF t = s THEN i + 1 ELSE i
    <2>1. CASE t = s
        BY <1>t, <1>a, <2>1
    <2>2. CASE t # s
        BY <1>t, <1>a, <2>2
    <2> QED BY <2>1, <2>2
<1> HIDE DEF s, r
<1>h. \A j \in Sessions : j # k => receiver'[j] = receiver[j]
    BY <1>t, <1>a
<1>k. receiver'[k] = [pc |-> "handle", r |-> r]
    BY <1>t, <1>a
<1>1. Queued'
    <2>1. ASSUME NEW t \in Sessions, NEW i \in 1..Len(toNode'[t])
          PROVE  (executed[toNode[t][i]] = 0 /\ Sent(toNode[t][i]))'
        BY <1>o, <1>q, <1>a DEF Queued, Sent
    <2>2. ASSUME NEW t \in Sessions, NEW u \in Sessions,
                 NEW i \in 1..Len(toNode'[t]), NEW j \in 1..Len(toNode'[u]),
                 toNode'[t][i] = toNode'[u][j]
          PROVE  t = u /\ i = j
        <3>1. PICK a \in 1..Len(toNode[t]) :
                  toNode'[t][i] = toNode[t][a] /\ a = IF t = s THEN i + 1 ELSE i
            BY <1>q
        <3>2. PICK b \in 1..Len(toNode[u]) :
                  toNode'[u][j] = toNode[u][b] /\ b = IF u = s THEN j + 1 ELSE j
            BY <1>q
        <3>3. toNode[t][a] = toNode[u][b]
            BY <2>2, <3>1, <3>2
        <3>4. t = u /\ a = b
            BY <1>o, <3>3, Distinct
        <3> QED BY <3>1, <3>2, <3>4
    <2> QED BY <2>1, <2>2 DEF Queued, Sent
<1>2. Held'
    <2>1. executed[r] = 0 /\ Sent(r)
        BY <1>o, <1>r, <1>t DEF Queued
    <2>2. ASSUME NEW t \in Sessions, NEW i \in 1..Len(toNode'[t]), toNode'[t][i] = r
          PROVE  FALSE
        <3>1. PICK a \in 1..Len(toNode[t]) :
                  toNode'[t][i] = toNode[t][a] /\ a = IF t = s THEN i + 1 ELSE i
            BY <1>q
        <3>2. toNode[t][a] = toNode[s][1]
            BY <2>2, <3>1, <1>r
        <3>3. t = s /\ a = 1
            BY <1>o, <1>r, <1>t, <3>2, Distinct
        <3> QED BY <3>1, <3>3
    <2>3. \A j \in Sessions : ~ Handles(j, r)
        BY <1>o, <1>r, <1>t DEF Held
    <2>4. ASSUME NEW j \in Sessions, NEW x \in Requests, Handles(j, x)'
          PROVE  (j = k /\ x = r) \/ (j # k /\ x # r /\ Handles(j, x))
        BY <2>3, <2>4, <1>h, <1>k DEF Handles
    <2>5. ASSUME NEW j \in Sessions, NEW x \in Requests, Handles(j, x)'
          PROVE  /\ executed[x] = 0 /\ Sent(x)
                 /\ \A t \in Sessions : \A i \in 1..Len(toNode'[t]) : toNode'[t][i] # x
                 /\ \A l \in Sessions : Handles(l, x)' => l = j
        <3>1. CASE j = k /\ x = r
            BY <3>1, <2>1, <2>2, <2>4
        <3>2. CASE j # k /\ x # r /\ Handles(j, x)
            <4>1. \A t \in Sessions : \A i \in 1..Len(toNode'[t]) : toNode'[t][i] # x
                <5>1. ASSUME NEW t \in Sessions, NEW i \in 1..Len(toNode'[t])
                      PROVE  toNode'[t][i] # x
                    <6>1. \E a \in 1..Len(toNode[t]) : toNode'[t][i] = toNode[t][a]
                        BY <1>q
                    <6>2. \A a \in 1..Len(toNode[t]) : toNode[t][a] # x
                        BY <3>2, <1>o, HeldBy
                    <6> QED BY <6>1, <6>2
                <5> QED BY <5>1
            <4>2. \A l \in Sessions : Handles(l, x)' => l = j
                BY <3>2, <1>o, <2>4 DEF Held
            <4> QED BY <3>2, <1>o, <4>1, <4>2 DEF Held
        <3> QED BY <2>4, <2>5, <3>1, <3>2
    <2> QED BY <2>5, <1>a DEF Held, Sent, Handles
<1>3. Answers'
    BY <1>o, <1>a, <1>h, <1>k DEF Answers
<1>4. Told'
    BY <1>o, <1>a DEF Told, Sent
<1> QED BY <1>1, <1>2, <1>3, <1>4, OnceParts, PTL

\* Executing a command: it was in the hands of this goroutine alone.
LEMMA ExecuteOnce ==
    ASSUME TypeOK, Once, NEW k \in Sessions, Execute(k)
    PROVE  Once'
<1> DEFINE r == receiver[k].r
<1>o. Queued /\ Held /\ Answers /\ Told
    BY OnceParts
<1>t. /\ r \in Requests /\ executed \in [Requests -> Nat]
      /\ receiver \in [Sessions -> ReceiverTypes]
    BY ReceiverFields DEF TypeOK, Execute
<1>a. /\ receiver' = [receiver EXCEPT ![k] = [receiver[k] EXCEPT !.pc = "respond"]]
      /\ executed' = [executed EXCEPT ![r] = executed[r] + 1]
      /\ receiver[k].pc = "handle"
      /\ UNCHANGED <<toNode, toPanel, call>>
    BY DEF Execute, Receiver, net, sessions
<1>h. Handles(k, r)
    BY <1>a DEF Handles
<1>k. receiver'[k].pc = "respond" /\ receiver'[k].r = r
    <2>1. receiver[k] \in [pc : {"handle", "respond"}, r : Requests]
        BY <1>t, <1>a DEF ReceiverTypes
    <2> QED BY <1>t, <1>a, <2>1
<1>j. \A j \in Sessions : j # k => receiver'[j] = receiver[j]
    BY <1>t, <1>a
<1> HIDE DEF r
<1>r. /\ executed[r] = 0 /\ Sent(r)
      /\ \A s \in Sessions : \A i \in 1..Len(toNode[s]) : toNode[s][i] # r
      /\ \A j \in Sessions : Handles(j, r) => j = k
    BY <1>o, <1>h, <1>t DEF Held
<1>e. executed'[r] = 1 /\ \A x \in Requests : x # r => executed'[x] = executed[x]
    BY <1>t, <1>a, <1>r
<1>1. Queued'
    <2>1. ASSUME NEW s \in Sessions, NEW i \in 1..Len(toNode[s])
          PROVE  executed'[toNode[s][i]] = 0 /\ Sent(toNode[s][i])
        <3>1. toNode[s][i] \in Requests /\ toNode[s][i] # r
            BY <1>r DEF TypeOK
        <3> QED BY <3>1, <1>e, <1>o DEF Queued
    <2> QED BY <2>1, <1>a, <1>o DEF Queued, Sent
<1>2. Held'
    <2>1. ASSUME NEW j \in Sessions, NEW x \in Requests, Handles(j, x)'
          PROVE  x # r /\ Handles(j, x)
        <3>1. j # k
            BY <2>1, <1>k DEF Handles
        <3>2. Handles(j, x)
            BY <2>1, <3>1, <1>j DEF Handles
        <3> QED BY <3>1, <3>2, <1>r
    <2> QED BY <2>1, <1>a, <1>e, <1>o DEF Held, Sent
<1>3. Answers'
    <2>1. ASSUME NEW j \in Sessions, receiver'[j].pc = "respond"
          PROVE  executed'[receiver'[j].r] = 1
        <3>1. CASE j = k
            BY <3>1, <1>k, <1>e
        <3>2. CASE j # k
            <4>1. receiver'[j] = receiver[j] /\ executed[receiver[j].r] = 1
                BY <3>2, <2>1, <1>j, <1>o DEF Answers
            <4>2. receiver[j].r \in Requests /\ receiver[j].r # r
                BY <4>1, <2>1, <1>r, <1>t, ReceiverFields
            <4> QED BY <4>1, <4>2, <1>e
        <3> QED BY <3>1, <3>2
    <2>2. ASSUME NEW s \in Sessions, NEW i \in 1..Len(toPanel[s])
          PROVE  executed'[toPanel[s][i]] = 1
        <3>1. toPanel[s][i] \in Requests /\ executed[toPanel[s][i]] = 1
            BY <1>o DEF TypeOK, Answers
        <3> QED BY <3>1, <1>e, <1>r
    <2> QED BY <2>1, <2>2, <1>a DEF Answers
<1>4. Told'
    <2>1. ASSUME NEW x \in Requests
          PROVE  /\ executed'[x] \in {0, 1}
                 /\ executed'[x] = 1 => Sent(x)
                 /\ call[x].pc = "ok" => executed'[x] = 1
        BY <1>e, <1>r, <1>o DEF Told
    <2> QED BY <2>1, <1>a DEF Told, Sent
<1> QED BY <1>1, <1>2, <1>3, <1>4, OnceParts, PTL

\* The answer of an executed command joins a queue or is dropped.
LEMMA SendResponseOnce ==
    ASSUME TypeOK, Once, NEW k \in Sessions, SendResponse(k)
    PROVE  Once'
<1> DEFINE r == receiver[k].r
<1>o. Queued /\ Held /\ Answers /\ Told
    BY OnceParts
<1>t. /\ r \in Requests /\ toPanel \in [Sessions -> Seq(Requests)]
      /\ receiver \in [Sessions -> ReceiverTypes]
    BY ReceiverFields DEF TypeOK, SendResponse
<1>a. /\ receiver' = [receiver EXCEPT ![k] = [pc |-> "top"]]
      /\ toPanel' = toPanel \/ toPanel' = [toPanel EXCEPT ![conn] = Append(toPanel[conn], r)]
      /\ UNCHANGED <<executed, toNode, call>>
    BY DEF SendResponse, Receiver, sessions
<1>r. executed[r] = 1
    BY <1>o DEF Answers, SendResponse
<1> HIDE DEF r
<1>h. \A j \in Sessions : receiver'[j] = receiver[j] \/ receiver'[j].pc = "top"
    BY <1>t, <1>a
<1>1. Queued'
    BY <1>o, <1>a DEF Queued, Sent
<1>2. Held'
    <2>1. \A j \in Sessions, x \in Requests : Handles(j, x)' => Handles(j, x)
        BY <1>h DEF Handles
    <2> QED BY <2>1, <1>o, <1>a DEF Held, Sent
<1>3. Answers'
    <2>1. ASSUME NEW s \in Sessions, NEW i \in 1..Len(toPanel'[s])
          PROVE  executed[toPanel'[s][i]] = 1
        <3>1. CASE toPanel'[s] = toPanel[s]
            BY <3>1, <1>o DEF Answers
        <3>2. CASE toPanel'[s] = Append(toPanel[s], r)
            <4>1. \/ i \in 1..Len(toPanel[s]) /\ toPanel'[s][i] = toPanel[s][i]
                  \/ toPanel'[s][i] = r
                BY <3>2, <1>t
            <4> QED BY <4>1, <1>o, <1>r DEF Answers
        <3> QED BY <3>1, <3>2, <1>t, <1>a
    <2>2. \A j \in Sessions : receiver'[j].pc = "respond" => executed[receiver'[j].r] = 1
        BY <1>h, <1>o DEF Answers
    <2> QED BY <2>1, <2>2, <1>a DEF Answers
<1>4. Told'
    BY <1>o, <1>a DEF Told, Sent
<1> QED BY <1>1, <1>2, <1>3, <1>4, OnceParts, PTL

\* Sending a command puts it into the one place it has been in none before.
LEMMA SendCommandOnce ==
    ASSUME TypeOK, Once, NEW r \in Requests, SendCommand(r)
    PROVE  Once'
<1> DEFINE s == call[r].on
<1>o. Queued /\ Held /\ Answers /\ Told
    BY OnceParts
<1>t. /\ s \in Sessions /\ toNode \in [Sessions -> Seq(Requests)]
      /\ call \in [Requests -> CallTypes]
    BY CallFields DEF TypeOK, SendCommand
<1>a. /\ call' = [call EXCEPT ![r] = [pc |-> "wait"]]
      /\ toNode' = toNode \/ toNode' = [toNode EXCEPT ![s] = Append(toNode[s], r)]
      /\ UNCHANGED <<executed, receiver, toPanel>>
      /\ call[r].pc = "send"
    BY DEF SendCommand, Call, node
<1> HIDE DEF s
<1>r. ~Sent(r) /\ executed[r] = 0
    BY <1>o, <1>a DEF Told, Sent
<1>s. \A x \in Requests : Sent(x) => Sent(x)'
    BY <1>t, <1>a DEF Sent
<1>w. Sent(r)'
    BY <1>t, <1>a DEF Sent
<1>c. \A x \in Requests : call'[x].pc = "ok" => call[x].pc = "ok"
    BY <1>t, <1>a
<1>n. \A t \in Sessions : \A i \in 1..Len(toNode[t]) : toNode[t][i] \in Requests /\ toNode[t][i] # r
    <2>1. \A t \in Sessions : \A i \in 1..Len(toNode[t]) : Sent(toNode[t][i])
        BY <1>o DEF Queued
    <2> QED BY <2>1, <1>r, <1>t
<1>q. ASSUME NEW t \in Sessions, NEW i \in 1..Len(toNode'[t])
      PROVE  \/ i \in 1..Len(toNode[t]) /\ toNode'[t][i] = toNode[t][i]
             \/ t = s /\ i = Len(toNode[s]) + 1 /\ toNode'[t][i] = r
    <2>1. CASE toNode' = toNode
        BY <2>1
    <2>2. CASE toNode' # toNode /\ t = s
        <3>1. toNode'[s] = Append(toNode[s], r) /\ toNode[s] \in Seq(Requests)
            BY <2>2, <1>t, <1>a
        <3>2. i \in 1..Len(Append(toNode[s], r)) /\ toNode'[t][i] = Append(toNode[s], r)[i]
            BY <2>2, <3>1
        <3> QED BY <2>2, <3>1, <3>2
    <2>3. CASE toNode' # toNode /\ t # s
        BY <2>3, <1>t, <1>a
    <2> QED BY <2>1, <2>2, <2>3
<1>1. Queued'
    <2>1. ASSUME NEW t \in Sessions, NEW i \in 1..Len(toNode'[t])
          PROVE  (executed[toNode[t][i]] = 0 /\ Sent(toNode[t][i]))'
        <3>1. CASE i \in 1..Len(toNode[t]) /\ toNode'[t][i] = toNode[t][i]
            <4>1. executed[toNode[t][i]] = 0 /\ Sent(toNode[t][i])
                BY <3>1, <1>o DEF Queued
            <4> QED BY <3>1, <4>1, <1>n, <1>s, <1>a DEF Sent
        <3>2. CASE toNode'[t][i] = r
            BY <3>2, <1>r, <1>w, <1>a DEF Sent
        <3> QED BY <3>1, <3>2, <1>q
    <2>2. ASSUME NEW t \in Sessions, NEW u \in Sessions,
                 NEW i \in 1..Len(toNode'[t]), NEW j \in 1..Len(toNode'[u]),
                 toNode'[t][i] = toNode'[u][j]
          PROVE  t = u /\ i = j
        <3>1. \/ i \in 1..Len(toNode[t]) /\ toNode'[t][i] = toNode[t][i]
              \/ t = s /\ i = Len(toNode[s]) + 1 /\ toNode'[t][i] = r
            BY <1>q
        <3>2. \/ j \in 1..Len(toNode[u]) /\ toNode'[u][j] = toNode[u][j]
              \/ u = s /\ j = Len(toNode[s]) + 1 /\ toNode'[u][j] = r
            BY <1>q
        <3>3. CASE toNode'[t][i] = r
            BY <2>2, <3>1, <3>2, <3>3, <1>n
        <3>4. CASE toNode'[t][i] # r
            <4>1. /\ i \in 1..Len(toNode[t]) /\ j \in 1..Len(toNode[u])
                  /\ toNode[t][i] = toNode[u][j]
                BY <2>2, <3>1, <3>2, <3>4
            <4> QED BY <4>1, <1>o, Distinct
        <3> QED BY <3>3, <3>4
    <2> QED BY <2>1, <2>2 DEF Queued, Sent
<1>2. Held'
    <2>1. ASSUME NEW k \in Sessions, NEW x \in Requests, Handles(k, x)
          PROVE  /\ executed[x] = 0 /\ Sent(x)'
                 /\ \A t \in Sessions : \A i \in 1..Len(toNode'[t]) : toNode'[t][i] # x
                 /\ \A j \in Sessions : Handles(j, x) => j = k
        <3>1. /\ executed[x] = 0 /\ Sent(x)
              /\ \A t \in Sessions : \A i \in 1..Len(toNode[t]) : toNode[t][i] # x
              /\ \A j \in Sessions : Handles(j, x) => j = k
            BY <2>1, <1>o DEF Held
        <3>2. x # r
            BY <3>1, <1>r
        <3> QED BY <3>1, <3>2, <1>q, <1>s
    <2> QED BY <2>1, <1>a DEF Held, Handles
<1>3. Answers'
    BY <1>o, <1>a DEF Answers
<1>4. Told'
    BY <1>o, <1>a, <1>s, <1>c DEF Told
<1> QED BY <1>1, <1>2, <1>3, <1>4, OnceParts, PTL

\* An answer that arrives tells its caller that the command was executed.
LEMMA HandleResponseOnce ==
    ASSUME TypeOK, Once, NEW s \in Sessions, HandleResponse(s)
    PROVE  Once'
<1> DEFINE r == Head(toPanel[s])
<1>o. Queued /\ Held /\ Answers /\ Told
    BY OnceParts
<1>t. /\ toPanel \in [Sessions -> Seq(Requests)] /\ toPanel[s] # <<>>
      /\ call \in [Requests -> CallTypes]
    BY DEF TypeOK, HandleResponse
<1>a. /\ toPanel' = [toPanel EXCEPT ![s] = Tail(toPanel[s])]
      /\ call' = [call EXCEPT ![r] = [pc |-> "ok"]] \/ call' = call
      /\ UNCHANGED <<executed, receiver, toNode>>
    BY DEF HandleResponse, Call, node
<1>r. r \in Requests /\ executed[r] = 1
    <2>1. 1 \in 1..Len(toPanel[s]) /\ r = toPanel[s][1] /\ r \in Requests
        BY <1>t
    <2> QED BY <2>1, <1>o DEF Answers
<1> HIDE DEF r
<1>s. \A x \in Requests : Sent(x) => Sent(x)'
    <2>1. ASSUME NEW x \in Requests, Sent(x) PROVE Sent(x)'
        <3>1. CASE call' = call
            BY <2>1, <3>1 DEF Sent
        <3>2. CASE call' = [call EXCEPT ![r] = [pc |-> "ok"]]
            BY <2>1, <3>2, <1>t DEF Sent
        <3> QED BY <3>1, <3>2, <1>a
    <2> QED BY <2>1
<1>1. Queued'
    <2>1. ASSUME NEW t \in Sessions, NEW i \in 1..Len(toNode[t])
          PROVE  executed[toNode[t][i]] = 0 /\ call'[toNode[t][i]].pc \in {"wait", "ok", "timeout"}
        <3>1. toNode[t][i] \in Requests
            BY DEF TypeOK
        <3>2. executed[toNode[t][i]] = 0 /\ Sent(toNode[t][i])
            BY <1>o DEF Queued
        <3> QED BY <3>1, <3>2, <1>s DEF Sent
    <2>2. toNode' = toNode /\ executed' = executed
        BY <1>a
    <2>3. \A t, u \in Sessions : \A i \in 1..Len(toNode[t]), j \in 1..Len(toNode[u]) :
              toNode[t][i] = toNode[u][j] => t = u /\ i = j
        BY <1>o DEF Queued
    <2>4. \A t \in Sessions : \A i \in 1..Len(toNode'[t]) :
              (executed[toNode[t][i]] = 0 /\ Sent(toNode[t][i]))'
        BY <2>1, <2>2 DEF Sent
    <2>5. (\A t, u \in Sessions : \A i \in 1..Len(toNode[t]), j \in 1..Len(toNode[u]) :
               toNode[t][i] = toNode[u][j] => t = u /\ i = j)'
        BY <2>2, <2>3
    <2> QED BY <2>4, <2>5 DEF Queued
<1>2. Held'
    <2>1. \A k \in Sessions, x \in Requests : Handles(k, x)' <=> Handles(k, x)
        BY <1>a DEF Handles
    <2> QED BY <2>1, <1>o, <1>a, <1>s DEF Held
<1>3. Answers'
    <2>1. ASSUME NEW t \in Sessions, NEW i \in 1..Len(toPanel'[t])
          PROVE  \E j \in 1..Len(toPanel[t]) : toPanel'[t][i] = toPanel[t][j]
        <3>1. CASE t = s
            <4>1. i + 1 \in 1..Len(toPanel[t]) /\ toPanel'[t][i] = toPanel[t][i + 1]
                BY <3>1, <1>t, <1>a
            <4> QED BY <4>1
        <3>2. CASE t # s
            BY <3>2, <1>t, <1>a
        <3> QED BY <3>1, <3>2
    <2>2. ASSUME NEW t \in Sessions, NEW i \in 1..Len(toPanel'[t])
          PROVE  executed[toPanel'[t][i]] = 1
        <3>1. PICK j \in 1..Len(toPanel[t]) : toPanel'[t][i] = toPanel[t][j]
            BY <2>1, <2>2
        <3>2. executed[toPanel[t][j]] = 1
            BY <1>o DEF Answers
        <3> QED BY <3>1, <3>2
    <2> QED BY <2>2, <1>o, <1>a DEF Answers
<1>4. Told'
    <2>1. \A x \in Requests : call'[x].pc = "ok" => call[x].pc = "ok" \/ x = r
        BY <1>t, <1>a
    <2> QED BY <2>1, <1>o, <1>a, <1>r, <1>s DEF Told
<1> QED BY <1>1, <1>2, <1>3, <1>4, OnceParts, PTL

\* Ending a connection at most empties queues.
LEMMA DropQueues ==
    ASSUME TypeOK, NEW s, Drop(s)
    PROVE  /\ \A t \in Sessions : toNode'[t] = toNode[t] \/ toNode'[t] = <<>>
           /\ \A t \in Sessions : toPanel'[t] = toPanel[t] \/ toPanel'[t] = <<>>
BY DEF TypeOK, Drop

\* The other steps move no command, and tell no caller that one was executed.
LEMMA OtherOnce ==
    ASSUME TypeOK, Once, [Next]_vars,
           ~ \E k \in Sessions : ReceiveCommand(k) \/ Execute(k) \/ SendResponse(k)
                                 \/ HandleResponse(k),
           ~ \E r \in Requests : SendCommand(r)
    PROVE  Once'
<1> USE DEF TypeOK
<1>c. /\ call \in [Requests -> CallTypes] /\ receiver \in [Sessions -> ReceiverTypes]
      /\ \A r \in Requests : call[r].pc = "ok" => executed[r] = 1
    BY OnceParts DEF Told
<1>1. executed' = executed
    BY DEF Next, NodeStep, Handlers, Caller, Connect, Serve, Skip, Disconnect, ReceiveTop, ReceiveFails,
           EstablishCheck, EstablishPut, EstablishCloseOld, EstablishOnline, EstablishFails,
           AcknowledgeFails, Notice, ClosedCheck, ClosedRemove, ClosedOffline, Break, SendLookup, SendCheckOpen, Timeout, vars, node
<1>2. \/ UNCHANGED <<toNode, toPanel>>
      \/ \E s : Drop(s)
    BY DEF Next, NodeStep, Handlers, Caller, Connect, Serve, Skip, Disconnect, ReceiveTop, ReceiveFails,
           EstablishCheck, EstablishPut, EstablishCloseOld, EstablishOnline, EstablishFails,
           AcknowledgeFails, Notice, ClosedCheck, ClosedRemove, ClosedOffline, Break, SendLookup, SendCheckOpen, Timeout, vars, net
<1>3. \/ UNCHANGED receiver
      \/ receiver' = [receiver EXCEPT ![conn] = [pc |-> "top"]]
      \/ \E k \in Sessions : Receiver(k, [pc |-> "none"])
      \/ \E k \in Sessions : Receiver(k, [pc |-> "read", on |-> conn])
    <2>1. CASE \E k \in Sessions : ReceiveTop(k)
        BY <2>1 DEF ReceiveTop
    <2>2. CASE ~ \E k \in Sessions : ReceiveTop(k)
        BY <2>2 DEF Next, NodeStep, Handlers, Caller, Connect, Serve, Skip, Disconnect, ReceiveFails,
           EstablishCheck, EstablishPut, EstablishCloseOld, EstablishOnline, EstablishFails,
           AcknowledgeFails, Notice, ClosedCheck, ClosedRemove, ClosedOffline, Break, SendLookup, SendCheckOpen, Timeout, vars, node
    <2> QED BY <2>1, <2>2
<1>4. \/ UNCHANGED call
      \/ \E r \in Requests : SendLookup(r) \/ SendCheckOpen(r) \/ Timeout(r)
    BY DEF Next, NodeStep, Handlers, Caller, Connect, Serve, Skip, Disconnect, ReceiveTop, ReceiveFails,
           EstablishCheck, EstablishPut, EstablishCloseOld, EstablishOnline, EstablishFails,
           AcknowledgeFails, Notice, ClosedCheck, ClosedRemove, ClosedOffline, Break, vars
<1>5. /\ \A s \in Sessions : toNode'[s] = toNode[s] \/ toNode'[s] = <<>>
      /\ \A s \in Sessions : toPanel'[s] = toPanel[s] \/ toPanel'[s] = <<>>
    BY <1>2, DropQueues
<1>6. \A k \in Sessions :
          receiver'[k] = receiver[k] \/ receiver'[k].pc \notin {"handle", "respond"}
    <2>1. CASE \E k \in Sessions : Receiver(k, [pc |-> "none"])
        BY <2>1, <1>c DEF Receiver
    <2>2. CASE \E k \in Sessions : Receiver(k, [pc |-> "read", on |-> conn])
        BY <2>2, <1>c DEF Receiver
    <2>3. CASE UNCHANGED receiver
        BY <2>3
    <2>4. CASE receiver' = [receiver EXCEPT ![conn] = [pc |-> "top"]]
        <3>1. \A k \in Sessions : receiver'[k] = receiver[k] \/ receiver'[k] = [pc |-> "top"]
            BY <2>4, <1>c
        <3>2. [pc |-> "top"].pc \notin {"handle", "respond"}
            OBVIOUS
        <3> QED BY <3>1, <3>2
    <2> QED BY <1>3, <2>1, <2>2, <2>3, <2>4
<1>7. \A r \in Requests : (Sent(r) => Sent(r)') /\ (call'[r].pc = "ok" => executed[r] = 1)
    <2>1. CASE UNCHANGED call
        BY <2>1, <1>c DEF Sent
    <2>2. ASSUME NEW r \in Requests, SendLookup(r) \/ SendCheckOpen(r) \/ Timeout(r)
          PROVE  \A x \in Requests :
                     (Sent(x) => Sent(x)') /\ (call'[x].pc = "ok" => executed[x] = 1)
        <3>1. \E c : /\ Call(r, c)
                     /\ c.pc # "ok" /\ (Sent(r) => c.pc = "timeout")
            <4>1. CASE SendLookup(r)
                BY <4>1 DEF SendLookup, Sent
            <4>2. CASE SendCheckOpen(r)
                <5>1. call[r] \in [pc : {"open", "send"}, on : Sessions]
                    BY <4>2, <1>c DEF SendCheckOpen, CallTypes
                <5>2. [call[r] EXCEPT !.pc = "send"].pc = "send"
                    BY <5>1
                <5> QED BY <4>2, <5>2 DEF SendCheckOpen, Sent
            <4>3. CASE Timeout(r)
                <5>1. Call(r, [pc |-> "timeout"])
                    BY <4>3 DEF Timeout
                <5>2. [pc |-> "timeout"].pc # "ok" /\ [pc |-> "timeout"].pc = "timeout"
                    OBVIOUS
                <5> QED BY <5>1, <5>2
            <4> QED BY <2>2, <4>1, <4>2, <4>3
        <3> QED BY <3>1, <1>c DEF Call, Sent
    <2> QED BY <2>1, <2>2, <1>4
<1> QED BY <1>1, <1>5, <1>6, <1>7, Fewer

LEMMA NextOnce == TypeOK /\ Once /\ [Next]_vars => Once'
<1> SUFFICES ASSUME TypeOK, Once, [Next]_vars PROVE Once'
    OBVIOUS
<1>1. ASSUME NEW k \in Sessions, ReceiveCommand(k) PROVE Once'
    BY <1>1, ReceiveCommandOnce
<1>2. ASSUME NEW k \in Sessions, Execute(k) PROVE Once'
    BY <1>2, ExecuteOnce
<1>3. ASSUME NEW k \in Sessions, SendResponse(k) PROVE Once'
    BY <1>3, SendResponseOnce
<1>4. ASSUME NEW s \in Sessions, HandleResponse(s) PROVE Once'
    BY <1>4, HandleResponseOnce
<1>5. ASSUME NEW r \in Requests, SendCommand(r) PROVE Once'
    BY <1>5, SendCommandOnce
<1> QED BY <1>1, <1>2, <1>3, <1>4, <1>5, OtherOnce

\* Once holds in every reachable state: however connections break and however
\* many goroutines of old ones are still at work, no command is executed twice,
\* and an answer is never that of a command that was not executed.
THEOREM ChannelOnce == Spec => []Once
BY ChannelTypes, InitOnce, NextOnce, PTL DEF Spec

-----------------------------------------------------------------------------
\* What a step can do to the callers and to the record of executions.
LEMMA CallSteps ==
    ASSUME [Next]_vars
    PROVE  \/ UNCHANGED <<call, pending>>
           \/ \E s \in Sessions : HandleResponse(s)
           \/ \E r \in Requests : Caller(r)
BY DEF Next, NodeStep, Handlers, Connect, Serve, Skip, Disconnect, ReceiveTop, ReceiveCommand, ReceiveFails,
       Execute, SendResponse, EstablishCheck, EstablishPut, EstablishCloseOld, EstablishOnline,
       EstablishFails, AcknowledgeFails, Notice, ClosedCheck, ClosedRemove, ClosedOffline, Break, vars

LEMMA ExecutedSteps ==
    ASSUME [Next]_vars
    PROVE  UNCHANGED executed \/ \E k \in Sessions : Execute(k)
BY DEF Next, NodeStep, Handlers, Caller, Connect, Serve, Skip, Disconnect, ReceiveTop, ReceiveCommand,
       ReceiveFails, SendResponse, EstablishCheck, EstablishPut, EstablishCloseOld,
       EstablishOnline, EstablishFails, AcknowledgeFails, Notice, ClosedCheck, ClosedRemove,
       ClosedOffline, HandleResponse, Break,
       SendLookup, SendCheckOpen, SendCommand, Timeout, vars, node

\* How one call moves on: what it was, and what it becomes.
LEMMA CallMoves ==
    ASSUME TypeOK, PendingExact, NEW r \in Requests, Caller(r)
    PROVE  \E c :
        /\ call' = [call EXCEPT ![r] = c]
        /\ \/ /\ call[r].pc \in {"none", "open"} /\ c.pc \in {"refused", "open", "send"}
              /\ pending' = pending
           \/ /\ call[r].pc = "send" /\ c.pc = "wait" /\ pending' = pending \cup {r}
           \/ /\ call[r].pc = "wait" /\ c.pc = "timeout" /\ pending' = pending \ {r}
        /\ UNCHANGED executed
<1>1. CASE SendLookup(r)
    <2>1. CASE nodeSession = 0
        <3>1. call' = [call EXCEPT ![r] = [pc |-> "refused"]] /\ call[r].pc = "none"
            BY <1>1, <2>1 DEF SendLookup, Call
        <3>2. UNCHANGED <<pending, executed>>
            BY <1>1 DEF SendLookup, node
        <3>3. [pc |-> "refused"].pc \in {"refused", "open", "send"}
            OBVIOUS
        <3> QED BY <3>1, <3>2, <3>3
    <2>2. CASE nodeSession # 0
        BY <1>1, <2>2 DEF SendLookup, Call, node
    <2> QED BY <2>1, <2>2
<1>2. CASE SendCheckOpen(r)
    <2>1. call[r] \in [pc : {"open", "send"}, on : Sessions]
        BY <1>2 DEF SendCheckOpen, TypeOK, CallTypes
    <2>2. [call[r] EXCEPT !.pc = "send"].pc = "send"
        BY <2>1
    <2> QED BY <1>2, <2>2 DEF SendCheckOpen, Call, node
<1>3. CASE SendCommand(r)
    BY <1>3 DEF SendCommand, Call, node
<1>4. CASE Timeout(r)
    BY <1>4 DEF Timeout, Call, node
<1> QED BY <1>1, <1>2, <1>3, <1>4 DEF Caller

LEMMA ResponseMoves ==
    ASSUME TypeOK, PendingExact, Once, NEW s \in Sessions, HandleResponse(s)
    PROVE  \/ UNCHANGED <<call, pending, executed>>
           \/ \E r \in Requests :
                 /\ call[r].pc = "wait" /\ executed[r] = 1
                 /\ call' = [call EXCEPT ![r] = [pc |-> "ok"]]
                 /\ pending' = pending \ {r} /\ UNCHANGED executed
<1> DEFINE r == Head(toPanel[s])
<1>1. r \in Requests /\ executed[r] = 1
    <2>1. toPanel[s] \in Seq(Requests) /\ toPanel[s] # <<>>
        BY DEF TypeOK, HandleResponse
    <2>2. 1 \in 1..Len(toPanel[s]) /\ r = toPanel[s][1] /\ r \in Requests
        BY <2>1
    <2> QED BY <2>2, OnceParts DEF Answers
<1>2. CASE r \in pending
    BY <1>1, <1>2 DEF HandleResponse, Call, PendingExact, node
<1>3. CASE r \notin pending
    BY <1>3 DEF HandleResponse, node
<1> QED BY <1>2, <1>3

\* pendingRequests changes with the callers.
LEMMA NextPending == TypeOK /\ Once /\ PendingExact /\ [Next]_vars => PendingExact'
<1> SUFFICES ASSUME TypeOK, Once, PendingExact, [Next]_vars PROVE PendingExact'
    OBVIOUS
<1>t. call \in [Requests -> CallTypes]
    BY DEF TypeOK
<1>1. CASE UNCHANGED <<call, pending>>
    BY <1>1 DEF PendingExact
<1>2. ASSUME NEW s \in Sessions, HandleResponse(s) PROVE PendingExact'
    <2>1. CASE UNCHANGED <<call, pending, executed>>
        BY <2>1 DEF PendingExact
    <2>2. ASSUME NEW r \in Requests, call' = [call EXCEPT ![r] = [pc |-> "ok"]],
                 pending' = pending \ {r}
          PROVE  PendingExact'
        BY <2>2, <1>t DEF PendingExact
    <2> QED BY <1>2, <2>1, <2>2, ResponseMoves
<1>3. ASSUME NEW r \in Requests, Caller(r) PROVE PendingExact'
    <2>1. PICK c :
        /\ call' = [call EXCEPT ![r] = c]
        /\ \/ /\ call[r].pc \in {"none", "open"} /\ c.pc \in {"refused", "open", "send"}
              /\ pending' = pending
           \/ /\ call[r].pc = "send" /\ c.pc = "wait" /\ pending' = pending \cup {r}
           \/ /\ call[r].pc = "wait" /\ c.pc = "timeout" /\ pending' = pending \ {r}
        BY <1>3, CallMoves
    <2> QED BY <2>1, <1>t DEF PendingExact
<1> QED BY <1>1, <1>2, <1>3, CallSteps

\* In every reachable state somebody waits for exactly the requests of the map:
\* an answer that comes after its timeout finds nothing, and nothing leaks.
THEOREM ChannelPending == Spec => []PendingExact
<1>1. Init => PendingExact
    BY DEF Init, PendingExact
<1> QED BY <1>1, ChannelTypes, ChannelOnce, NextPending, PTL DEF Spec

-----------------------------------------------------------------------------
\* The initial state is RemoteCall's.
LEMMA RemoteInit == Init => Remote!Init
BY DEF Init, Remote!Init, Result

\* Every step is one of RemoteCall or none.
LEMMA RemoteNext ==
    TypeOK /\ Once /\ PendingExact /\ [Next]_vars => [Remote!Next]_(Remote!vars)
<1> SUFFICES ASSUME TypeOK, Once, PendingExact, [Next]_vars
             PROVE  [Remote!Next]_(Remote!vars)
    OBVIOUS
<1> DEFINE result == [r \in Requests |-> Result(r)]
<1>t. call \in [Requests -> CallTypes] /\ executed \in [Requests -> Nat]
    BY DEF TypeOK
<1>o. Held /\ Told
    BY OnceParts
<1>1. CASE UNCHANGED <<call, executed>>
    BY <1>1 DEF Remote!vars, Result
<1>2. ASSUME NEW k \in Sessions, Execute(k) PROVE Remote!Next
    <2> DEFINE r == receiver[k].r
    <2>1. r \in Requests /\ Handles(k, r)
        BY <1>2, ReceiverFields DEF Execute, TypeOK, Handles
    <2>2. executed[r] = 0 /\ Sent(r)
        BY <2>1, <1>o DEF Held
    <2>3. executed' = [executed EXCEPT ![r] = 1] /\ UNCHANGED call
        BY <1>2, <2>2 DEF Execute
    <2>4. result' = result /\ result[r] # "refused"
        BY <2>1, <2>2, <2>3 DEF Result, Sent
    <2> QED BY <2>1, <2>2, <2>3, <2>4 DEF Remote!Next, Remote!Execute
<1>3. ASSUME NEW r \in Requests, NEW c, call' = [call EXCEPT ![r] = c], UNCHANGED executed,
             \/ call[r].pc \in {"none", "open"} /\ c.pc \in {"refused", "open", "send"}
             \/ call[r].pc = "send" /\ c.pc = "wait"
             \/ call[r].pc = "wait" /\ c.pc = "timeout"
             \/ call[r].pc = "wait" /\ c.pc = "ok" /\ executed[r] = 1
      PROVE  [Remote!Next]_(Remote!vars)
    <2>1. \A x \in Requests : x # r => Result(x)' = Result(x)
        BY <1>3, <1>t DEF Result
    <2>2. Result(r) = "none"
        BY <1>3 DEF Result
    <2>3. call'[r] = c
        BY <1>3, <1>t
    <2>4. CASE c.pc \in {"open", "send", "wait"}
        <3>1. Result(r)' = "none"
            BY <2>3, <2>4 DEF Result
        <3>2. result' = result
            BY <3>1, <2>1, <2>2
        <3> QED BY <3>2, <1>3 DEF Remote!vars
    <2>5. CASE c.pc \in {"refused", "timeout", "ok"}
        <3>1. Result(r)' = IF c.pc = "timeout" THEN "unknown" ELSE c.pc
            BY <2>3, <2>5 DEF Result
        <3>2. result' = [result EXCEPT ![r] = Result(r)']
            BY <2>1
        <3>3. c.pc = "refused" => executed[r] = 0
            BY <1>3, <1>o DEF Told, Sent
        <3>4. c.pc = "ok" => executed[r] = 1
            BY <1>3
        <3>5. Remote!Return(r, Result(r)')
            BY <1>3, <2>2, <3>1, <3>2, <3>3, <3>4, <2>5 DEF Remote!Return
        <3>6. Result(r)' \in {"ok", "refused", "unknown"}
            BY <3>1, <2>5
        <3> QED BY <3>5, <3>6 DEF Remote!Next
    <2> QED BY <2>4, <2>5, <1>3
<1>4. ASSUME NEW s \in Sessions, HandleResponse(s) PROVE [Remote!Next]_(Remote!vars)
    BY <1>4, <1>1, <1>3, ResponseMoves
<1>5. ASSUME NEW r \in Requests, Caller(r) PROVE [Remote!Next]_(Remote!vars)
    BY <1>5, <1>3, CallMoves
<1>6. CASE UNCHANGED <<call, pending>>
    BY <1>6, <1>1, <1>2, ExecutedSteps
<1> QED BY <1>4, <1>5, <1>6, CallSteps

\* The channel implements RemoteCall: a command is executed at most once, an
\* answer means that it was, a refusal that it never is, and a timeout nothing.
THEOREM ChannelRemote == Spec => RemoteSpec
BY RemoteInit, RemoteNext, ChannelTypes, ChannelOnce, ChannelPending, PTL
   DEF Spec, RemoteSpec, Remote!Spec
=============================================================================
