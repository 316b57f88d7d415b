-------------------------- MODULE ForwardLifecycle --------------------------
(***************************************************************************)
(* How a forward comes into being, changes and goes: createForward,        *)
(* updateForward, deleteForward and forceDeleteForward of the panel, each  *)
(* a request whose steps are statements on the table or single commands    *)
(* to a node, and the clean-up of what a node reports (cleanNodeConfigs).  *)
(*                                                                         *)
(* The forwards belong to one user with a grant on every tunnel; tunnels,  *)
(* grants and nodes are not edited meanwhile; a tunnel's protocol is one   *)
(* over TCP.  The entry of a forward is a pair of services, one for TCP    *)
(* and one for UDP, its exit one service; a command names the pair or the  *)
(* exit, and the node works through the pair in that order.  A node        *)
(* executes commands one after the other, in the order they were sent;     *)
(* crashes of nodes are NodeAgent's.                                       *)
(***************************************************************************)
EXTENDS Naturals, FiniteSets, FiniteSetsExt

CONSTANTS
    Tunnels,
    InNode,       \* the tunnel's entry
    OutNode,      \* its exit; the entry itself for a plain port forward (type 1)
    Ports,        \* port_sta..port_end of every node
    Taken,        \* sockets in that range that other programs of the nodes hold
    NoPort,       \* null
    UserNum,      \* how many forwards the user may have ...
    GrantNum,     \* ... and how many on one tunnel
    Requests,     \* bound: requests at a time
    MaxRequests,  \* bound: requests in all
    MaxId,        \* bound: forwards ever created
    MaxFaults     \* bound: commands lost or not answered

Type2(t) == InNode[t] # OutNode[t]
Nodes == {InNode[t] : t \in Tunnels} \cup {OutNode[t] : t \in Tunnels}
Sockets == Nodes \X {"tcp", "udp"} \X Ports

ASSUME ForwardAssumption ==
    /\ DOMAIN InNode = Tunnels /\ DOMAIN OutNode = Tunnels
    /\ Ports \subseteq Nat /\ IsFiniteSet(Ports) /\ NoPort \notin Ports
    /\ Taken \subseteq Sockets
    /\ IsFiniteSet(Requests) /\ Requests # {}
    /\ UserNum \in Nat /\ GrantNum \in Nat /\ MaxRequests \in Nat /\ MaxId \in Nat /\ MaxFaults \in Nat

VARIABLES
    forward,    \* the table: id -> tunnel, ports, status
    lastId,     \* its AUTO_INCREMENT
    services,   \* what the nodes serve: kind, node, id, tunnel (name), port
    held,       \* sockets that belong to no service
    chains,     \* the chains they know: node, id, tunnel (name)
    request,    \* the request each thread of the panel works on
    begun,      \* how many there were
    cleaning,   \* the clean-up of each node: what was reported and is still to be compared
    deleting,   \* ... and what it is about to delete
    faults,     \* commands that were lost or not answered
    mixed,      \* history: threads whose request met another one on the same forward
    acked       \* history: forwards whose creation or update succeeded, untouched since

serving == <<services, held>>
node == <<serving, chains>>
cleaner == <<cleaning, deleting>>
history == <<mixed, acked>>
vars == <<forward, lastId, node, request, begun, cleaner, faults, history>>

Idle == [pc |-> "idle"]
Null == {}    \* nothing to delete

Init ==
    /\ forward = [f \in {} |-> 0] /\ lastId = 0
    /\ services = {} /\ held = Taken /\ chains = {}
    /\ request = [r \in Requests |-> Idle] /\ begun = 0
    /\ cleaning = [n \in Nodes |-> {}] /\ deleting = [n \in Nodes |-> Null]
    /\ faults = 0 /\ mixed = {} /\ acked = {}

Rows == DOMAIN forward
With(f, entity) == forward' = [g \in Rows \cup {f} |-> IF g = f THEN entity ELSE forward[g]]
\* updateById: a row that is gone stays gone, a null leaves the column as it is.
UpdateById(f, entity) ==
    forward' = [g \in Rows |->
        IF g = f THEN [entity EXCEPT !.out = IF @ = NoPort THEN forward[f].out ELSE @] ELSE forward[g]]
RemoveById(f) == forward' = [g \in Rows \ {f} |-> forward[g]]

-----------------------------------------------------------------------------
\* Commands.  What becomes of one: executed, lost, executed but not answered.
Outcomes == IF faults < MaxFaults THEN {"ok", "lost", "unanswered"} ELSE {"ok"}
Count(o) == faults' = IF o = "ok" THEN faults ELSE faults + 1

\* The services a command names: the pair at the entry, or the one at the exit.
Main == {"tcp", "udp"}
Remote == {"tls"}

Entry(kind, n, f, t, p) == [kind |-> kind, node |-> n, id |-> f, tunnel |-> t, port |-> p]
Entries(K, n, f, t, p) == {Entry(k, n, f, t, p) : k \in K}
Named(K, n, f, t) ==
    {s \in services : s.kind \in K /\ s.node = n /\ s.id = f /\ s.tunnel = t}
Known(K, n, f, t) == \A k \in K : Named({k}, n, f, t) # {}

\* The socket of a service, and whether it can be opened beside those of S.
Socket(s) == <<s.node, IF s.kind = "udp" THEN "udp" ELSE "tcp", s.port>>
Free(e, S) == Socket(e) \notin held /\ \A s \in S : Socket(s) # Socket(e)

\* Mutant: only the names are looked at.
AddableTaken(K, n, f, t, p) == Named(K, n, f, t) = {}

\* createServices fails if a name exists or a port is taken ...
Addable(K, n, f, t, p) ==
    Named(K, n, f, t) = {} /\ \A e \in Entries(K, n, f, t, p) : Free(e, services)

\* ... and then registers none; but if it is the pair's second that fails, the
\* first one's listener has been opened and stays open.
LeftOpen(K, n, f, t, p) ==
    IF K = Main /\ Named({"tcp"}, n, f, t) = {} /\ Free(Entry("tcp", n, f, t, p), services)
    THEN {Socket(Entry("tcp", n, f, t, p))} ELSE {}

\* upsertServices goes from one to the next and ends at the first failure.
\* What it arrives at is closed before the new port is opened; if that is
\* taken, the old service is gone.
Reopens(k, n, f, t, p) == Free(Entry(k, n, f, t, p), services \ Named({k}, n, f, t))
Reached(K, n, f, t, p) == {k \in K : k = "udp" => Reopens("tcp", n, f, t, p)}
Opened(K, n, f, t, p) == {k \in Reached(K, n, f, t, p) : Reopens(k, n, f, t, p)}
Upsertable(K, n, f, t, p) == Opened(K, n, f, t, p) = K

\* A thread's command that yields the services S if it is executed at all.
Command(S, o) == services' = IF o = "lost" THEN services ELSE S
AddCommand(K, n, f, t, p, o) ==
    IF Addable(K, n, f, t, p)
    THEN Command(services \cup Entries(K, n, f, t, p), o) /\ held' = held
    ELSE /\ services' = services
         /\ held' = IF o = "lost" THEN held ELSE held \cup LeftOpen(K, n, f, t, p)
UpsertCommand(K, n, f, t, p, o) ==
    /\ Command((services \ Named(Reached(K, n, f, t, p), n, f, t))
                   \cup Entries(Opened(K, n, f, t, p), n, f, t, p), o)
    /\ held' = held

\* deleteServices refuses the list if one of its names is missing.
DeleteCommand(K, n, f, t, o) ==
    /\ Command(IF Known(K, n, f, t) THEN services \ Named(K, n, f, t) ELSE services, o)
    /\ held' = held

\* AddChains and UpsertChains of one chain, DeleteChains.
Chain(n, f, t) == [node |-> n, id |-> f, tunnel |-> t]
ChainCommand(C, o) == chains' = IF o = "lost" THEN chains ELSE C

-----------------------------------------------------------------------------
\* Quotas, ports.
OnTunnel(t, f) == {g \in Rows \ {f} : forward[g].tunnel = t}

\* Mutant: the last one too many is let through.
WithinQuotaOffByOne(t, f) ==
    /\ Cardinality(Rows) <= UserNum
    /\ Cardinality(OnTunnel(t, f)) <= GrantNum

\* checkForwardQuota: the user's total counts the forward itself, too.
WithinQuota(t, f) ==
    /\ Cardinality(Rows) < UserNum
    /\ Cardinality(OnTunnel(t, f)) < GrantNum

\* getAllUsedPortsOnNode, without the forward f.
UsedPorts(n, f) ==
    {forward[g].in : g \in {h \in Rows \ {f} : InNode[forward[h].tunnel] = n}}
        \cup ({forward[g].out : g \in {h \in Rows \ {f} : OutNode[forward[h].tunnel] = n}} \ {NoPort})

\* allocatePorts: the entry's port is the requested one or the first that is
\* free, the exit's always the first that is free.
FreePorts(n, f) == Ports \ UsedPorts(n, f)
OutPorts(t, f) ==
    IF ~Type2(t) THEN {NoPort}
    ELSE IF FreePorts(OutNode[t], f) = {} THEN {} ELSE {Min(FreePorts(OutNode[t], f))}
AllocatePorts(t, asked, f) ==
    LET free == FreePorts(InNode[t], f)
        in == IF asked # NoPort THEN free \cap {asked} ELSE IF free = {} THEN {} ELSE {Min(free)}
    IN  in \X OutPorts(t, f)

-----------------------------------------------------------------------------
\* Requests.
Busy(f) == {r \in Requests : request[r] # Idle /\ request[r].id = f}
Begin(r, rec) ==
    /\ request[r] = Idle /\ begun < MaxRequests
    /\ request' = [request EXCEPT ![r] = rec]
    /\ begun' = begun + 1
    /\ mixed' = IF rec.op = "create" \/ Busy(rec.id) = {} THEN mixed \ {r}
                ELSE mixed \cup Busy(rec.id) \cup {r}
    /\ acked' = acked \ {rec.id}
Goto(r, label) == request' = [request EXCEPT ![r].pc = label]
Finish(r) == request' = [request EXCEPT ![r] = Idle]
Acknowledge(r, f) ==
    /\ Finish(r)
    /\ acked' = IF r \in mixed THEN acked ELSE acked \cup {f}
    /\ UNCHANGED mixed
FirstCommand(t) == IF Type2(t) THEN "chain" ELSE "main"

\* createForward: the checks, ...
CreateForward(r, t, asked) ==
    /\ WithinQuota(t, 0)
    /\ lastId + Cardinality({q \in Requests : request[q] # Idle /\ request[q].id = 0}) < MaxId
    /\ Begin(r, [op |-> "create", pc |-> "ports", id |-> 0, asked |-> asked,
                 entity |-> [tunnel |-> t, in |-> NoPort, out |-> NoPort, status |-> "active"]])
    /\ UNCHANGED <<forward, lastId, node, cleaner, faults>>

\* ... and of an update, to another tunnel or to another port.
UpdateForward(r, f, t, asked) ==
    /\ t # forward[f].tunnel => WithinQuota(t, f)
    /\ Begin(r, [op |-> "update", pc |-> "ports", id |-> f, asked |-> asked,
                 entity |-> [tunnel |-> t, in |-> NoPort, out |-> NoPort, status |-> "active"],
                 old |-> forward[f]])
    /\ UNCHANGED <<forward, lastId, node, cleaner, faults>>

Assigned(q, p) == [q EXCEPT !.entity = [@ EXCEPT !.in = p[1], !.out = p[2]]]

\* allocatePorts of a creation; without a free port the request ends.
PortsOfNew(r) ==
    LET q == request[r]
        found == AllocatePorts(q.entity.tunnel, q.asked, 0)
    IN  /\ q.pc = "ports" /\ q.op = "create"
        /\ IF found = {} THEN Finish(r)
           ELSE \E p \in found : request' = [request EXCEPT ![r] = [Assigned(q, p) EXCEPT !.pc = "save"]]
        /\ UNCHANGED <<forward, lastId, node, begun, cleaner, faults, history>>

\* updateForwardEntity: new ports only if the tunnel or the entry's port changes.
PortsOfUpdate(r) ==
    LET q == request[r]
        moved == q.entity.tunnel # q.old.tunnel
        found == IF moved \/ q.asked \notin {NoPort, q.old.in}
                 THEN AllocatePorts(q.entity.tunnel, q.asked, q.id)
                 ELSE {<<q.old.in, q.old.out>>}
    IN  /\ q.pc = "ports" /\ q.op = "update"
        /\ IF found = {} THEN Finish(r)
           ELSE \E p \in found :
                  request' = [request EXCEPT ![r] =
                      [Assigned(q, p) EXCEPT
                          !.op = IF moved THEN "move" ELSE "update",
                          !.pc = IF moved THEN "oldMain" ELSE FirstCommand(q.entity.tunnel)]]
        /\ UNCHANGED <<forward, lastId, node, begun, cleaner, faults, history>>

\* Mutant: the row is saved when the services have been created.
SaveLate(r) ==
    LET q == request[r] IN
    /\ q.pc = "save"
    /\ lastId' = lastId + 1
    /\ request' = [request EXCEPT ![r] =
           [q EXCEPT !.pc = FirstCommand(q.entity.tunnel), !.id = lastId + 1]]
    /\ UNCHANGED <<forward, node, begun, cleaner, faults, history>>

\* this.save(forward): only now do other requests see it.
Save(r) ==
    LET q == request[r] IN
    /\ q.pc = "save"
    /\ lastId' = lastId + 1
    /\ With(lastId + 1, q.entity)
    /\ request' = [request EXCEPT ![r] =
           [q EXCEPT !.pc = FirstCommand(q.entity.tunnel), !.id = lastId + 1]]
    /\ UNCHANGED <<node, begun, cleaner, faults, history>>

\* createGostServices undoes what it can when a command fails: the chain, and
\* the exit's service unless it was not asked yet.  updateGostServices does not.
Undo(op, label) == IF op = "update" THEN "error" ELSE label

\* createChainService, updateChainService (an existing chain is replaced).
CreateChain(r) ==
    LET q == request[r]
        chain == Chain(InNode[q.entity.tunnel], q.id, q.entity.tunnel)
    IN  /\ q.pc = "chain"
        /\ \E o \in Outcomes :
               /\ ChainCommand(chains \cup {chain}, o) /\ Count(o)
               /\ Goto(r, IF o = "ok" /\ (q.op = "update" \/ chain \notin chains)
                          THEN "remote" ELSE Undo(q.op, "undoChainOnly"))
        /\ UNCHANGED <<forward, lastId, serving, begun, cleaner, history>>

\* A service of the new configuration: Add after a creation or a move, Upsert
\* for an update on the same tunnel.
Configure(r, K, n, p, next, undo) ==
    LET q == request[r]
        t == q.entity.tunnel
        good == IF q.op = "update" THEN Upsertable(K, n, q.id, t, p) ELSE Addable(K, n, q.id, t, p)
    IN  \E o \in Outcomes :
            /\ IF q.op = "update" THEN UpsertCommand(K, n, q.id, t, p, o)
                                  ELSE AddCommand(K, n, q.id, t, p, o)
            /\ Count(o)
            /\ Goto(r, IF good /\ o = "ok" THEN next ELSE Undo(q.op, undo))

\* createRemoteService, updateRemoteService.
CreateRemoteService(r) ==
    LET q == request[r] IN
    /\ q.pc = "remote"
    /\ Configure(r, Remote, OutNode[q.entity.tunnel], q.entity.out, "main", "undoChain")
    /\ UNCHANGED <<forward, lastId, chains, begun, cleaner, history>>

\* createMainService, updateMainService.
CreateMainService(r) ==
    LET q == request[r] IN
    /\ q.pc = "main"
    /\ Configure(r, Main, InNode[q.entity.tunnel], q.entity.in, "done", "undoChain")
    /\ UNCHANGED <<forward, lastId, chains, begun, cleaner, history>>

Failed(q) == IF q.op = "create" THEN "remove" ELSE "error"

\* The results of the undoing commands are not looked at.
UndoChain(r) ==
    LET q == request[r] IN
    /\ q.pc \in {"undoChain", "undoChainOnly"}
    /\ \E o \in Outcomes :
           /\ ChainCommand(chains \ {Chain(InNode[q.entity.tunnel], q.id, q.entity.tunnel)}, o)
           /\ Count(o)
    /\ Goto(r, IF q.pc = "undoChain" /\ Type2(q.entity.tunnel) THEN "undoRemote" ELSE Failed(q))
    /\ UNCHANGED <<forward, lastId, serving, begun, cleaner, history>>

UndoRemoteService(r) ==
    LET q == request[r] IN
    /\ q.pc = "undoRemote"
    /\ \E o \in Outcomes :
           DeleteCommand(Remote, OutNode[q.entity.tunnel], q.id, q.entity.tunnel, o) /\ Count(o)
    /\ Goto(r, Failed(q))
    /\ UNCHANGED <<forward, lastId, chains, begun, cleaner, history>>

\* createForward takes its row back; deleteForward ends the same way.
Remove(r) ==
    /\ request[r].pc = "remove"
    /\ RemoveById(request[r].id)
    /\ Finish(r)
    /\ UNCHANGED <<lastId, node, begun, cleaner, faults, history>>

CreateSucceeds(r) ==
    /\ request[r].pc = "done" /\ request[r].op = "create"
    /\ Acknowledge(r, request[r].id)
    /\ UNCHANGED <<forward, lastId, node, begun, cleaner, faults>>

\* updateForward saves the new row only now; updateForwardStatusToError saves
\* it too, with status -1 ("error"), after a failure.
UpdateSucceeds(r) ==
    /\ request[r].pc = "done" /\ request[r].op \in {"update", "move"}
    /\ UpdateById(request[r].id, request[r].entity)
    /\ Acknowledge(r, request[r].id)
    /\ UNCHANGED <<lastId, node, begun, cleaner, faults>>

UpdateFails(r) ==
    /\ request[r].pc = "error"
    /\ UpdateById(request[r].id, [request[r].entity EXCEPT !.status = "error"])
    /\ Finish(r)
    /\ UNCHANGED <<lastId, node, begun, cleaner, faults, history>>

-----------------------------------------------------------------------------
\* deleteOldGostServices, before a move: whatever the results.
DeleteOldService(r) ==
    LET q == request[r] IN
    /\ q.pc = "oldMain"
    /\ \E o \in Outcomes : DeleteCommand(Main, InNode[q.old.tunnel], q.id, q.old.tunnel, o) /\ Count(o)
    /\ Goto(r, IF Type2(q.old.tunnel) THEN "oldChain" ELSE FirstCommand(q.entity.tunnel))
    /\ UNCHANGED <<forward, lastId, chains, begun, cleaner, history>>

DeleteOldChain(r) ==
    LET q == request[r] IN
    /\ q.pc = "oldChain"
    /\ \E o \in Outcomes :
           ChainCommand(chains \ {Chain(InNode[q.old.tunnel], q.id, q.old.tunnel)}, o) /\ Count(o)
    /\ Goto(r, "oldRemote")
    /\ UNCHANGED <<forward, lastId, serving, begun, cleaner, history>>

DeleteOldRemoteService(r) ==
    LET q == request[r] IN
    /\ q.pc = "oldRemote"
    /\ \E o \in Outcomes : DeleteCommand(Remote, OutNode[q.old.tunnel], q.id, q.old.tunnel, o) /\ Count(o)
    /\ Goto(r, FirstCommand(q.entity.tunnel))
    /\ UNCHANGED <<forward, lastId, chains, begun, cleaner, history>>

-----------------------------------------------------------------------------
\* deleteForward: each command must succeed, or the request ends there.
DeleteForward(r, f) ==
    /\ Begin(r, [op |-> "delete", pc |-> "delMain", id |-> f, entity |-> forward[f]])
    /\ UNCHANGED <<forward, lastId, node, cleaner, faults>>

\* What a node does not know, it cannot delete.
DeleteAnd(r, K, n, next) ==
    LET q == request[r]
        known == Known(K, n, q.id, q.entity.tunnel)
    IN  \E o \in Outcomes :
            /\ DeleteCommand(K, n, q.id, q.entity.tunnel, o) /\ Count(o)
            /\ IF known /\ o = "ok" THEN Goto(r, next) ELSE Finish(r)

DeleteMain(r) ==
    LET t == request[r].entity.tunnel IN
    /\ request[r].pc = "delMain"
    /\ DeleteAnd(r, Main, InNode[t], IF Type2(t) THEN "delChain" ELSE "remove")
    /\ UNCHANGED <<forward, lastId, chains, begun, cleaner, history>>

DeleteChain(r) ==
    LET q == request[r]
        chain == Chain(InNode[q.entity.tunnel], q.id, q.entity.tunnel)
    IN  /\ q.pc = "delChain"
        /\ \E o \in Outcomes :
               /\ ChainCommand(chains \ {chain}, o) /\ Count(o)
               /\ IF chain \in chains /\ o = "ok" THEN Goto(r, "delRemote") ELSE Finish(r)
        /\ UNCHANGED <<forward, lastId, serving, begun, cleaner, history>>

DeleteRemote(r) ==
    LET t == request[r].entity.tunnel IN
    /\ request[r].pc = "delRemote"
    /\ DeleteAnd(r, Remote, OutNode[t], "remove")
    /\ UNCHANGED <<forward, lastId, chains, begun, cleaner, history>>

\* forceDeleteForward: the row only, nothing is said to the nodes.
ForceDeleteForward(f) ==
    /\ begun < MaxRequests /\ begun' = begun + 1
    /\ RemoveById(f)
    /\ mixed' = mixed \cup Busy(f)
    /\ acked' = acked \ {f}
    /\ UNCHANGED <<lastId, node, request, cleaner, faults>>

-----------------------------------------------------------------------------
\* A node posts its configuration; it is compared, item by item, with the table
\* as it is by then.  Of a pair the entry for TCP is looked at, which is there
\* as long as one of the two serves.  (An entry of which neither serves any
\* more is posted too: deleting it is refused and changes nothing.)
Listed(s) == IF s.kind = "udp" THEN [s EXCEPT !.kind = "tcp"] ELSE s

Report(n) ==
    /\ cleaning[n] = {} /\ deleting[n] = Null
    /\ cleaning' = [cleaning EXCEPT ![n] =
           {Listed(s) : s \in {u \in services : u.node = n}} \cup {c \in chains : c.node = n}]
    /\ cleaning'[n] # {}
    /\ UNCHANGED <<forward, lastId, node, request, begun, deleting, faults, history>>

\* Mutant: what is marked as failed counts as gone.
IsOrphanIfFailed(x) == x.id \notin Rows \/ forward[x.id].status = "error"

\* forwardService.getById(forwardId) == null
IsOrphan(x) == x.id \notin Rows

\* Mutant: only services are compared.
CompareServices(n) ==
    /\ deleting[n] = Null
    /\ \E x \in cleaning[n] :
           /\ cleaning' = [cleaning EXCEPT ![n] = @ \ {x}]
           /\ deleting' = [deleting EXCEPT ![n] = IF IsOrphan(x) /\ "kind" \in DOMAIN x THEN {x} ELSE Null]
    /\ UNCHANGED <<forward, lastId, node, request, begun, faults, history>>

\* cleanOrphanedServices, cleanOrphanedChains: the look-up ...
Compare(n) ==
    /\ deleting[n] = Null
    /\ \E x \in cleaning[n] :
           /\ cleaning' = [cleaning EXCEPT ![n] = @ \ {x}]
           /\ deleting' = [deleting EXCEPT ![n] = IF IsOrphan(x) THEN {x} ELSE Null]
    /\ UNCHANGED <<forward, lastId, node, request, begun, faults, history>>

\* ... and the command, by name.
DeleteOrphan(n) ==
    /\ \E x \in deleting[n], o \in Outcomes :
           /\ IF "kind" \in DOMAIN x
              THEN /\ DeleteCommand(IF x.kind = "tls" THEN Remote ELSE Main, n, x.id, x.tunnel, o)
                   /\ UNCHANGED chains
              ELSE ChainCommand(chains \ {x}, o) /\ UNCHANGED serving
           /\ Count(o)
    /\ deleting' = [deleting EXCEPT ![n] = Null]
    /\ UNCHANGED <<forward, lastId, request, begun, cleaning, history>>

-----------------------------------------------------------------------------
Start(r) ==
    \/ \E t \in Tunnels, asked \in Ports \cup {NoPort} :
           \/ CreateForward(r, t, asked)
           \/ \E f \in Rows : UpdateForward(r, f, t, asked)
    \/ \E f \in Rows : DeleteForward(r, f)

Continue(r) ==
    /\ request[r] # Idle
    /\ \/ PortsOfNew(r) \/ PortsOfUpdate(r) \/ Save(r)
       \/ CreateChain(r) \/ CreateRemoteService(r) \/ CreateMainService(r)
       \/ UndoChain(r) \/ UndoRemoteService(r) \/ Remove(r)
       \/ CreateSucceeds(r) \/ UpdateSucceeds(r) \/ UpdateFails(r)
       \/ DeleteOldService(r) \/ DeleteOldChain(r) \/ DeleteOldRemoteService(r)
       \/ DeleteMain(r) \/ DeleteChain(r) \/ DeleteRemote(r)

Clean(n) == Report(n) \/ Compare(n) \/ DeleteOrphan(n)

Next ==
    \/ \E r \in Requests : Start(r) \/ Continue(r)
    \/ \E f \in Rows : ForceDeleteForward(f)
    \/ \E n \in Nodes : Clean(n)

Spec == Init /\ [][Next]_vars

\* A request that was begun is handled to its end, and nodes report their
\* configuration again and again (every ten minutes).
FairSpec ==
    /\ Spec
    /\ \A r \in Requests : WF_vars(Continue(r))
    /\ \A n \in Nodes : WF_vars(Clean(n))

-----------------------------------------------------------------------------
(***************************************************************************)
(* Properties.                                                             *)
(***************************************************************************)

\* A service or chain of forward f's name is on its node and, a service, at its port.
Served(f) ==
    LET t == forward[f].tunnel IN
    /\ Entries(Main, InNode[t], f, t, forward[f].in) \subseteq services
    /\ Type2(t) => /\ Entry("tls", OutNode[t], f, t, forward[f].out) \in services
                   /\ Chain(InNode[t], f, t) \in chains

Port == Ports \cup {NoPort}
Row == [tunnel : Tunnels, in : Ports, out : Port, status : {"active", "error"}]
Entity == [tunnel : Tunnels, in : Port, out : Port, status : {"active"}]
Service == [kind : Main \cup Remote, node : Nodes, id : 1..MaxId, tunnel : Tunnels, port : Ports]
ChainType == [node : Nodes, id : 1..MaxId, tunnel : Tunnels]

\* What a request does with the services of the new configuration.
Configuring == {"chain", "remote", "main", "undoChainOnly", "undoChain", "undoRemote", "done"}
Creation == [op : {"create"}, pc : {"ports", "save", "remove"} \cup Configuring,
             id : 0..MaxId, asked : Port, entity : Entity]
Change == [op : {"update", "move"},
           pc : {"ports", "oldMain", "oldChain", "oldRemote", "error"} \cup Configuring,
           id : 1..MaxId, asked : Port, entity : Entity, old : Row]
Deletion == [op : {"delete"}, pc : {"delMain", "delChain", "delRemote", "remove"},
             id : 1..MaxId, entity : Row]

TablesOK ==
    /\ forward \in [Rows -> Row] /\ Rows \subseteq 1..lastId
    /\ lastId \in 0..MaxId /\ begun \in 0..MaxRequests /\ faults \in 0..MaxFaults
NodesOK ==
    /\ services \subseteq Service /\ chains \subseteq ChainType
    /\ held \subseteq Sockets
    /\ \A s \in services : Socket(s) \notin held
    /\ \A s, u \in services : Socket(s) = Socket(u) => s = u
RequestsOK ==
    /\ request \in [Requests -> {Idle} \cup Creation \cup Change \cup Deletion]
    /\ mixed \subseteq Requests /\ acked \subseteq 1..MaxId
CleanersOK ==
    /\ cleaning \in [Nodes -> SUBSET (Service \cup ChainType)]
    /\ deleting \in [Nodes -> {Null} \cup {{x} : x \in Service \cup ChainType}]

\* Every variable keeps its type; no two services listen on one socket of a
\* node, and none on a socket that belongs to no service.
TypeOK == TablesOK /\ NodesOK /\ RequestsOK /\ CleanersOK

\* A forward whose creation or last update was answered with success is in the
\* table and served as the table says, entry, exit and chain, whatever requests
\* fail beside it, are undone or lost, whoever raced it for its ports, and
\* whatever old report of its node is being compared.
AckServed == \A f \in acked : f \in Rows /\ Served(f)

\* Quotas are checked before the row is saved: as many forwards too many may
\* come of it as there are other requests at the same time, and no more.
QuotaBounded ==
    \A t \in Tunnels :
        /\ Cardinality(OnTunnel(t, 0)) <= GrantNum + Cardinality(Requests) - 1
        /\ Cardinality(Rows) <= UserNum + Cardinality(Requests) - 1

\* Half of a pair.
Half(x) == "kind" \in DOMAIN x /\ x.kind \in Main /\ ~Known(Main, x.node, x.id, x.tunnel)

\* What a removed forward left on the nodes, because a command failed or none
\* was sent, is gone in the end, but for the half of a pair of which an update
\* could reopen one service and not the other: a node refuses to delete it.
OrphansCleaned ==
    \A f \in 1..MaxId :
        (f \in 1..lastId /\ f \notin Rows)
            ~> ~ \E x \in services \cup chains : x.id = f /\ ~Half(x)
=============================================================================
