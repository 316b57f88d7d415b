---------------------- MODULE ForwardLifecycleProofs ----------------------
(***************************************************************************)
(* Theorems about ForwardLifecycle, for any number of tunnels, ports and   *)
(* requests at a time: types and ports, that quotas are missed by no more  *)
(* than the requests that race, and that a forward whose creation or       *)
(* update was answered with success is served as its row says.             *)
(***************************************************************************)
EXTENDS ForwardLifecycle, FiniteSetTheorems, WellFoundedInduction, TLAPS

-----------------------------------------------------------------------------
(***************************************************************************)
(* Where a request can be, and what it knows there.                        *)
(***************************************************************************)
Request == Creation \cup Change \cup Deletion
Live(r) == request[r] # Idle

\* An entity with every port its tunnel needs.
Equipped(e) == e.in \in Ports /\ (Type2(e.tunnel) => e.out \in Ports)

\* A creation has its identity from the moment its row is saved; ports are
\* assigned before anything is sent; only a move deletes at the old tunnel;
\* only a tunnel has a chain and an exit.
Sound(q) ==
    /\ q.op = "create" => (q.id = 0 <=> q.pc \in {"ports", "save"})
    /\ q.pc # "ports" => Equipped(q.entity)
    /\ q.op \in {"update", "move"} => Equipped(q.old)
    /\ q.pc \in {"oldMain", "oldChain", "oldRemote"} => q.op = "move"
    /\ q.pc = "ports" => q.op # "move"
    /\ q.pc \in {"chain", "remote", "undoRemote"} => Type2(q.entity.tunnel)

\* No identity is ahead of AUTO_INCREMENT, and what a clean-up is about to
\* delete is named after a forward that is gone for good.
Where ==
    /\ \A f \in Rows : Equipped(forward[f])
    /\ \A r \in Requests : Live(r) => Sound(request[r]) /\ request[r].id <= lastId
    /\ \A x \in services \cup chains : x.id <= lastId
    /\ \A n \in Nodes : \A x \in cleaning[n] \cup deleting[n] : x.id <= lastId /\ x.node = n
    /\ \A n \in Nodes : \A x \in deleting[n] : x.id \notin Rows

\* The creations that passed their checks and are not saved yet.
Creating == {r \in Requests : Live(r) /\ request[r].id = 0}
IdsLeft == lastId + Cardinality(Creating) <= MaxId

Typed == TypeOK /\ Where /\ IdsLeft

-----------------------------------------------------------------------------
\* A set of ports that is not empty has a first one.
LEMMA FirstPort ==
    ASSUME NEW T \in SUBSET Ports, T # {}
    PROVE  Min(T) \in T
  <1>1. T \in SUBSET Nat
    BY ForwardAssumption
  <1>2. IsWellFoundedOn({ss \in Nat \X Nat : ss[1] < ss[2]}, Nat)
    BY NatLessThanWellFounded DEF OpToRel
  <1>3. PICK n \in T : \A m \in T : ~ (<<m, n>> \in {ss \in Nat \X Nat : ss[1] < ss[2]})
    BY <1>1, <1>2, WFMin
  <1>4. \A m \in T : ~(m < n)
    BY <1>1, <1>3
  <1>5. \A m \in T : n <= m
    <2>1. ASSUME NEW m \in T PROVE n <= m
      <3>1. m \in Nat /\ n \in Nat /\ ~(m < n)
        BY <1>1, <1>4
      <3> QED BY <3>1
    <2> QED BY <2>1
  <1> QED BY <1>5 DEF Min

\* allocatePorts finds an entry's port and, for a tunnel, an exit's port.
LEMMA Allocated ==
    ASSUME NEW t \in Tunnels, NEW asked \in Port, NEW f, NEW p \in AllocatePorts(t, asked, f)
    PROVE  p[1] \in Ports /\ p[2] \in Port /\ (Type2(t) => p[2] \in Ports)
  <1>1. ASSUME NEW n, FreePorts(n, f) # {} PROVE Min(FreePorts(n, f)) \in Ports
    <2>1. FreePorts(n, f) \in SUBSET Ports
      BY DEF FreePorts
    <2> QED BY <1>1, <2>1, FirstPort
  <1>2. p[2] \in OutPorts(t, f) /\ p[1] \in Ports
    BY <1>1 DEF AllocatePorts, FreePorts
  <1>3. OutPorts(t, f) \subseteq IF Type2(t) THEN Ports ELSE {NoPort}
    BY <1>1 DEF OutPorts
  <1> QED BY <1>2, <1>3 DEF Port

\* What a label tells of the request that is there.
LEMMA AtLabel ==
    ASSUME Typed, NEW r \in Requests, NEW q, q = request[r], q # Idle
    PROVE  /\ q \in Request /\ Sound(q) /\ q.id \in 0..lastId
           /\ q.entity.tunnel \in Tunnels
           /\ q.pc \in {"ports", "save"} \cup Configuring => q \in Creation \cup Change
           /\ q.pc = "save" => q \in Creation
           /\ q.pc \in {"oldMain", "oldChain", "oldRemote", "error"} => q \in Change
           /\ q.pc \in {"delMain", "delChain", "delRemote"} => q \in Deletion
           /\ q.pc = "remove" => q \in Creation \cup Deletion
           /\ q.op = "create" <=> q \in Creation
           /\ q.op \in {"update", "move"} <=> q \in Change
           /\ q.op = "delete" <=> q \in Deletion
           /\ q \in Change \cup Deletion => q.id # 0
  <1>1. q \in Request /\ Sound(q) /\ q.id <= lastId
    BY DEF Typed, TypeOK, RequestsOK, Where, Live, Request
  <1>2. q.id \in 0..MaxId /\ lastId \in Nat
    BY <1>1, ForwardAssumption DEF Typed, TypeOK, TablesOK, Request, Creation, Change, Deletion
  <1>3. q.entity.tunnel \in Tunnels
    BY <1>1 DEF Request, Creation, Change, Deletion, Entity, Row
  <1>4. CASE q \in Creation
    BY <1>1, <1>2, <1>3, <1>4 DEF Creation, Change, Deletion, Configuring
  <1>5. CASE q \in Change
    BY <1>1, <1>2, <1>3, <1>5 DEF Creation, Change, Deletion, Configuring
  <1>6. CASE q \in Deletion
    BY <1>1, <1>2, <1>3, <1>6 DEF Creation, Change, Deletion, Configuring
  <1> QED BY <1>1, <1>4, <1>5, <1>6 DEF Request

-----------------------------------------------------------------------------
\* The steps of a request change its own record only.
Becomes(r, v) == request' = [request EXCEPT ![r] = v]

\* From label to label, with the ports assigned.
Relabels(q, l) ==
    /\ q.pc # "ports" /\ q.id # 0
    /\ \/ q \in Creation /\ l \in Configuring \cup {"remove"}
       \/ q \in Change /\ l \in Configuring \cup {"error"}
       \/ q \in Change /\ q.op = "move" /\ l \in {"oldChain", "oldRemote"}
       \/ q \in Deletion /\ l \in {"delChain", "delRemote", "remove"}
    /\ l \in {"chain", "remote", "undoRemote"} => Type2(q.entity.tunnel)

At(q, l) == [q EXCEPT !.pc = l]
Same(v, q) == v.id = q.id /\ v.op = q.op /\ v.entity = q.entity

LEMMA Relabelled ==
    ASSUME NEW q, Sound(q), NEW l, Relabels(q, l)
    PROVE  At(q, l) \in Request /\ Sound(At(q, l)) /\ Same(At(q, l), q) /\ At(q, l).pc = l
  <1>1. CASE q \in Creation /\ l \in Configuring \cup {"remove"}
    <2>1. At(q, l) \in Creation /\ Same(At(q, l), q) /\ At(q, l).pc = l
      BY <1>1 DEF Creation, At, Same
    <2> QED BY <1>1, <2>1 DEF Creation, Request, Sound, Relabels, Configuring, Same
  <1>2. CASE q \in Change /\ l \in Configuring \cup {"error", "oldChain", "oldRemote"}
    <2>1. /\ At(q, l) \in Change /\ Same(At(q, l), q) /\ At(q, l).pc = l
          /\ At(q, l).old = q.old
      BY <1>2 DEF Change, At, Same
    <2>2. l \in {"oldChain", "oldRemote"} => q.op = "move"
      BY <1>2 DEF Relabels, Change, Creation, Deletion, Configuring
    <2> QED BY <1>2, <2>1, <2>2 DEF Change, Request, Sound, Relabels, Configuring, Same
  <1>3. CASE q \in Deletion /\ l \in {"delChain", "delRemote", "remove"}
    <2>1. At(q, l) \in Deletion /\ Same(At(q, l), q) /\ At(q, l).pc = l
      BY <1>3 DEF Deletion, At, Same
    <2> QED BY <1>3, <2>1 DEF Deletion, Request, Sound, Relabels, Configuring, Same
  <1> QED BY <1>1, <1>2, <1>3 DEF Relabels

\* createForward and updateForwardEntity assign what allocatePorts found.
Fit(q, p) == p[1] \in Ports /\ p[2] \in Port /\ (Type2(q.entity.tunnel) => p[2] \in Ports)
Gets(q, p, e) ==
    /\ Assigned(q, p) = [q EXCEPT !.entity = e]
    /\ Equipped(e) /\ e.tunnel = q.entity.tunnel

LEMMA AssignedType ==
    ASSUME NEW q \in Creation \cup Change, NEW p, Fit(q, p)
    PROVE  \E e \in Entity : Gets(q, p, e)
  <1> DEFINE e == [q.entity EXCEPT !.in = p[1], !.out = p[2]]
  <1>1. q.entity \in Entity
    BY DEF Creation, Change
  <1>2. e \in Entity /\ e.in = p[1] /\ e.out = p[2] /\ e.tunnel = q.entity.tunnel
    BY <1>1 DEF Entity, Port, Fit
  <1>3. Assigned(q, p) = [q EXCEPT !.entity = e]
    BY DEF Assigned, Creation, Change
  <1> HIDE DEF e
  <1> QED BY <1>2, <1>3 DEF Equipped, Gets, Fit

LEMMA PortsOfNewAssigned ==
    ASSUME Typed, NEW r \in Requests, PortsOfNew(r), NEW q, q = request[r]
    PROVE  \/ Finish(r)
           \/ \E v \in Creation :
                 Becomes(r, v) /\ Sound(v) /\ v.id = q.id /\ v.entity.tunnel = q.entity.tunnel /\ v.pc = "save"
  <1>1. q # Idle /\ q.pc = "ports" /\ q.op = "create"
    BY DEF PortsOfNew, Idle
  <1>2. q \in Creation /\ Sound(q) /\ q.id = 0 /\ q.entity.tunnel \in Tunnels /\ q.asked \in Port
    BY <1>1, AtLabel DEF Sound, Creation
  <1>3. SUFFICES ASSUME ~Finish(r)
        PROVE  \E v \in Creation :
                 Becomes(r, v) /\ Sound(v) /\ v.id = q.id /\ v.entity.tunnel = q.entity.tunnel /\ v.pc = "save"
    OBVIOUS
  <1>4. PICK p \in AllocatePorts(q.entity.tunnel, q.asked, 0) :
            Becomes(r, [Assigned(q, p) EXCEPT !.pc = "save"])
    BY <1>3 DEF PortsOfNew, Becomes
  <1>5. PICK e \in Entity : Gets(q, p, e)
    <2>1. Fit(q, p)
      BY <1>2, Allocated DEF Fit
    <2> QED BY <1>2, <2>1, AssignedType
  <1>6. PICK v : v = [q EXCEPT !.entity = e, !.pc = "save"]
    OBVIOUS
  <1>7. v \in Creation /\ v.id = q.id /\ v.entity = e /\ v.pc = "save" /\ v.op = "create"
    BY <1>1, <1>2, <1>6 DEF Creation
  <1>8. Becomes(r, v)
    BY <1>2, <1>4, <1>5, <1>6 DEF Becomes, Creation, Gets
  <1> QED BY <1>2, <1>5, <1>7, <1>8 DEF Sound, Gets

LEMMA PortsOfUpdateAssigned ==
    ASSUME Typed, NEW r \in Requests, PortsOfUpdate(r), NEW q, q = request[r]
    PROVE  \/ Finish(r)
           \/ \E v \in Change :
                 /\ Becomes(r, v) /\ Sound(v) /\ v.id = q.id /\ v.entity.tunnel = q.entity.tunnel
                 /\ v.pc \in {"oldMain", FirstCommand(q.entity.tunnel)}
  <1>1. q # Idle /\ q.pc = "ports" /\ q.op = "update"
    <2>1. q.pc = "ports" /\ q.op = "update"
      BY DEF PortsOfUpdate
    <2>2. Idle.pc = "idle"
      BY DEF Idle
    <2> QED BY <2>1, <2>2
  <1>2. /\ q \in Change /\ Sound(q) /\ q.entity.tunnel \in Tunnels /\ q.asked \in Port
        /\ Equipped(q.old) /\ q.old \in Row
    BY <1>1, AtLabel DEF Sound, Change
  <1>3. SUFFICES ASSUME ~Finish(r)
        PROVE  \E v \in Change :
                 /\ Becomes(r, v) /\ Sound(v) /\ v.id = q.id /\ v.entity.tunnel = q.entity.tunnel
                 /\ v.pc \in {"oldMain", FirstCommand(q.entity.tunnel)}
    OBVIOUS
  <1> DEFINE moved == q.entity.tunnel # q.old.tunnel
             l == IF moved THEN "oldMain" ELSE FirstCommand(q.entity.tunnel)
             o == IF moved THEN "move" ELSE "update"
  <1>4. PICK p : /\ Becomes(r, [Assigned(q, p) EXCEPT !.op = o, !.pc = l])
                 /\ \/ p \in AllocatePorts(q.entity.tunnel, q.asked, q.id)
                    \/ ~moved /\ p = <<q.old.in, q.old.out>>
    BY <1>3 DEF PortsOfUpdate, Becomes
  <1>5. Fit(q, p)
    BY <1>2, <1>4, Allocated DEF Row, Equipped, Fit
  <1>6. PICK e \in Entity : Gets(q, p, e)
    BY <1>2, <1>5, AssignedType
  <1>7. PICK v : v = [q EXCEPT !.entity = e, !.op = o, !.pc = l]
    OBVIOUS
  <1>8. /\ l \in {"oldMain", "chain", "main"} /\ o \in {"move", "update"}
        /\ l = "oldMain" => o = "move"
        /\ l = "chain" => Type2(q.entity.tunnel)
        /\ l \in {"oldMain", FirstCommand(q.entity.tunnel)}
    BY DEF FirstCommand
  <1> HIDE DEF l, o
  <1>9. /\ v \in Change /\ v.id = q.id /\ v.entity = e /\ v.pc = l /\ v.op = o /\ v.old = q.old
    BY <1>1, <1>2, <1>7, <1>8 DEF Change, Configuring
  <1>10. Becomes(r, v)
    BY <1>2, <1>4, <1>6, <1>7 DEF Becomes, Change, Gets
  <1> QED BY <1>2, <1>6, <1>8, <1>9, <1>10 DEF Sound, Gets

\* Save gives a creation the next identity.
LEMMA Saved ==
    ASSUME Typed, NEW r \in Requests, Save(r), NEW q, q = request[r]
    PROVE  /\ q \in Creation /\ q.id = 0 /\ Equipped(q.entity) /\ q.entity \in Row
           /\ \E v \in Creation :
                 /\ Becomes(r, v) /\ Sound(v) /\ v.id = lastId + 1
                 /\ v.entity = q.entity /\ v.pc = FirstCommand(q.entity.tunnel)
  <1>1. q # Idle /\ q.pc = "save"
    BY DEF Save, Idle
  <1>2. q \in Creation /\ Sound(q) /\ q.id = 0 /\ lastId + 1 \in 1..MaxId
    <2>1. q \in Creation /\ Sound(q) /\ q.id = 0
      BY <1>1, AtLabel DEF Sound, Creation
    <2>2. IsFiniteSet(Creating) /\ Cardinality(Creating) \in Nat /\ Cardinality(Creating) # 0
      <3>1. r \in Creating /\ Creating \subseteq Requests
        BY <1>1, <2>1 DEF Creating, Live
      <3>2. IsFiniteSet(Creating)
        BY <3>1, FS_Subset, ForwardAssumption
      <3> QED BY <3>1, <3>2, FS_CardinalityType, FS_EmptySet
    <2> QED BY <2>1, <2>2, ForwardAssumption DEF Typed, IdsLeft, TypeOK, TablesOK
  <1>3. Equipped(q.entity) /\ q.entity \in Row
    <2>1. Equipped(q.entity) /\ q.entity \in Entity
      BY <1>1, <1>2 DEF Sound, Creation
    <2> QED BY <2>1 DEF Equipped, Entity, Row
  <1> DEFINE l == FirstCommand(q.entity.tunnel)
  <1>4. l \in {"main", "chain"} /\ (l = "chain" => Type2(q.entity.tunnel))
    BY DEF FirstCommand
  <1>5. PICK v : v = [q EXCEPT !.pc = l, !.id = lastId + 1]
    OBVIOUS
  <1>6. Becomes(r, v)
    BY <1>5 DEF Save, Becomes
  <1> HIDE DEF l
  <1>7. v \in Creation /\ v.id = lastId + 1 /\ v.entity = q.entity /\ v.pc = l
    <2>1. PICK i : i = lastId + 1 /\ i \in 0..MaxId
      BY <1>2, ForwardAssumption DEF Typed, TypeOK, TablesOK
    <2>2. l \in Configuring
      BY <1>4 DEF Configuring
    <2> QED BY <1>2, <1>5, <2>1, <2>2 DEF Creation
  <1>8. v.id # 0 /\ v.op = "create"
    BY <1>2, <1>7, ForwardAssumption DEF Typed, TypeOK, TablesOK, Creation
  <1>9. Sound(v)
    BY <1>3, <1>4, <1>7, <1>8 DEF Sound
  <1> QED BY <1>2, <1>3, <1>6, <1>7, <1>9 DEF l

\* Where a step of a request leads otherwise.
LEMMA Continued ==
    ASSUME Typed, NEW r \in Requests, Live(r), Continue(r), ~Save(r), ~PortsOfNew(r), ~PortsOfUpdate(r),
           NEW q, q = request[r]
    PROVE  \/ Finish(r)
           \/ \E l : Goto(r, l) /\ Relabels(q, l)
  <1>1. /\ q \in Request /\ Sound(q) /\ q.entity.tunnel \in Tunnels
        /\ q.pc \in {"ports", "save"} \cup Configuring => q \in Creation \cup Change
        /\ q.pc \in {"oldMain", "oldChain", "oldRemote", "error"} => q \in Change
        /\ q.pc \in {"delMain", "delChain", "delRemote"} => q \in Deletion
        /\ q.op = "create" <=> q \in Creation
        /\ q.op \in {"update", "move"} <=> q \in Change
        /\ q \in Change \cup Deletion => q.id # 0
    BY AtLabel DEF Live
  <1>2. q \in Creation /\ q.pc \notin {"ports", "save"} => q.id # 0
    BY <1>1 DEF Sound
  <1>3. FirstCommand(q.entity.tunnel) \in Configuring
           /\ (FirstCommand(q.entity.tunnel) = "chain" => Type2(q.entity.tunnel))
    BY DEF FirstCommand, Configuring
  <1> DEFINE Goal == Finish(r) \/ \E l : Goto(r, l) /\ Relabels(q, l)
  <1> SUFFICES Goal
    OBVIOUS
  <1>4. ASSUME CreateChain(r) PROVE Goal
    <2>1. q.pc = "chain" /\ Type2(q.entity.tunnel) /\ q.id # 0 /\ q \in Creation \cup Change
      BY <1>1, <1>2, <1>4 DEF CreateChain, Sound, Configuring
    <2>2. PICK l : Goto(r, l) /\ l \in {"remote", Undo(q.op, "undoChainOnly")}
      BY <1>4 DEF CreateChain
    <2>3. Relabels(q, l)
      BY <1>1, <2>1, <2>2 DEF Relabels, Configuring, Undo
    <2> QED BY <2>2, <2>3
  <1>5. ASSUME CreateRemoteService(r) \/ CreateMainService(r) PROVE Goal
    <2>1. q.pc \in {"remote", "main"} /\ q.id # 0 /\ q \in Creation \cup Change
      BY <1>1, <1>2, <1>5 DEF CreateRemoteService, CreateMainService, Configuring
    <2>2. PICK l : Goto(r, l) /\ l \in {"main", "done", Undo(q.op, "undoChain")}
      BY <1>5 DEF CreateRemoteService, CreateMainService, Configure
    <2>3. Relabels(q, l)
      BY <1>1, <2>1, <2>2 DEF Relabels, Configuring, Undo
    <2> QED BY <2>2, <2>3
  <1>6. ASSUME UndoChain(r) \/ UndoRemoteService(r) PROVE Goal
    <2>1. q.pc \in {"undoChain", "undoChainOnly", "undoRemote"} /\ q.id # 0 /\ q \in Creation \cup Change
      BY <1>1, <1>2, <1>6 DEF UndoChain, UndoRemoteService, Configuring
    <2>2. PICK l : /\ Goto(r, l)
                   /\ l = Failed(q) \/ (l = "undoRemote" /\ Type2(q.entity.tunnel))
      BY <1>6 DEF UndoChain, UndoRemoteService
    <2>3. Relabels(q, l)
      BY <1>1, <2>1, <2>2 DEF Relabels, Configuring, Failed
    <2> QED BY <2>2, <2>3
  <1>7. ASSUME DeleteOldService(r) \/ DeleteOldChain(r) \/ DeleteOldRemoteService(r) PROVE Goal
    <2>1. q.pc \in {"oldMain", "oldChain", "oldRemote"} /\ q.id # 0 /\ q \in Change /\ q.op = "move"
      BY <1>1, <1>7 DEF DeleteOldService, DeleteOldChain, DeleteOldRemoteService, Sound
    <2>2. PICK l : Goto(r, l) /\ l \in {"oldChain", "oldRemote", FirstCommand(q.entity.tunnel)}
      BY <1>7 DEF DeleteOldService, DeleteOldChain, DeleteOldRemoteService
    <2>3. Relabels(q, l)
      BY <1>1, <1>3, <2>1, <2>2 DEF Relabels, FirstCommand, Configuring
    <2> QED BY <2>2, <2>3
  <1>8. ASSUME DeleteMain(r) \/ DeleteChain(r) \/ DeleteRemote(r) PROVE Goal
    <2>1. q.pc \in {"delMain", "delChain", "delRemote"} /\ q.id # 0 /\ q \in Deletion
      BY <1>1, <1>8 DEF DeleteMain, DeleteChain, DeleteRemote
    <2>2. Finish(r) \/ \E l \in {"delChain", "delRemote", "remove"} : Goto(r, l)
      BY <1>8 DEF DeleteMain, DeleteChain, DeleteRemote, DeleteAnd
    <2>3. ASSUME NEW l \in {"delChain", "delRemote", "remove"} PROVE Relabels(q, l)
      BY <2>1, <2>3 DEF Relabels
    <2> QED BY <2>2, <2>3
  <1>9. ASSUME Remove(r) \/ CreateSucceeds(r) \/ UpdateSucceeds(r) \/ UpdateFails(r) PROVE Goal
    BY <1>9 DEF Remove, CreateSucceeds, UpdateSucceeds, UpdateFails, Acknowledge
  <1> QED BY <1>4, <1>5, <1>6, <1>7, <1>8, <1>9 DEF Continue

\* A row of the table.
LEMMA RowFacts ==
    ASSUME Typed, NEW f \in Rows
    PROVE  f \in 1..lastId /\ f \in 1..MaxId /\ forward[f] \in Row /\ Equipped(forward[f])
  <1>1. MaxId \in Nat
    BY ForwardAssumption
  <1>2. f \in 1..lastId /\ lastId \in 0..MaxId /\ forward[f] \in Row /\ Equipped(forward[f])
    BY DEF Typed, TypeOK, TablesOK, Where
  <1> QED BY <1>1, <1>2

\* What a request starts as, and the checks it passed.
Started(r, v) ==
    /\ Begin(r, v) /\ Becomes(r, v) /\ Sound(v) /\ v.id <= lastId
    /\ \/ /\ v \in Creation /\ v.id = 0 /\ v.pc = "ports"
          /\ WithinQuota(v.entity.tunnel, 0)
          /\ lastId + Cardinality(Creating) < MaxId
       \/ /\ v \in Change /\ v.id \in Rows /\ v.pc = "ports" /\ v.old = forward[v.id]
          /\ v.entity.tunnel # forward[v.id].tunnel => WithinQuota(v.entity.tunnel, v.id)
       \/ v \in Deletion /\ v.id \in Rows /\ v.pc = "delMain"

LEMMA Starts ==
    ASSUME Typed, NEW r \in Requests, Start(r)
    PROVE  /\ UNCHANGED <<forward, lastId, node, cleaner, faults>>
           /\ \E v \in Request : Started(r, v)
  <1>1. ASSUME NEW t \in Tunnels, NEW asked \in Port, CreateForward(r, t, asked)
        PROVE  \E v \in Request : Started(r, v)
    <2>1. PICK v : v = [op |-> "create", pc |-> "ports", id |-> 0, asked |-> asked,
                 entity |-> [tunnel |-> t, in |-> NoPort, out |-> NoPort, status |-> "active"]]
      OBVIOUS
    <2>2. v \in Creation /\ v.id = 0 /\ v.pc = "ports" /\ v.entity.tunnel = t /\ v.op = "create"
      BY <2>1, ForwardAssumption DEF Creation, Entity, Port
    <2>3. Begin(r, v) /\ WithinQuota(t, 0)
      BY <1>1, <2>1 DEF CreateForward
    <2>4. {q \in Requests : request[q] # Idle /\ request[q].id = 0} = Creating
      BY DEF Creating, Live
    <2>5. lastId + Cardinality(Creating) < MaxId
      BY <1>1, <2>4 DEF CreateForward
    <2>6. Sound(v) /\ v.id <= lastId
      BY <2>2, ForwardAssumption DEF Sound, Typed, TypeOK, TablesOK
    <2> QED BY <2>2, <2>3, <2>5, <2>6 DEF Started, Request, Begin, Becomes
  <1>2. ASSUME NEW f \in Rows, NEW t \in Tunnels, NEW asked \in Port, UpdateForward(r, f, t, asked)
        PROVE  \E v \in Request : Started(r, v)
    <2>1. PICK v : v = [op |-> "update", pc |-> "ports", id |-> f, asked |-> asked,
                 entity |-> [tunnel |-> t, in |-> NoPort, out |-> NoPort, status |-> "active"],
                 old |-> forward[f]]
      OBVIOUS
    <2>2. /\ v \in Change /\ v.id = f /\ v.pc = "ports" /\ v.entity.tunnel = t /\ v.op = "update"
          /\ v.old = forward[f]
      BY <2>1, RowFacts DEF Change, Entity, Port
    <2>3. Begin(r, v) /\ (t # forward[f].tunnel => WithinQuota(t, f))
      BY <1>2, <2>1 DEF UpdateForward
    <2>4. Sound(v) /\ v.id <= lastId
      BY <2>2, RowFacts DEF Sound, Typed, TypeOK, TablesOK
    <2> QED BY <2>2, <2>3, <2>4 DEF Started, Request, Begin, Becomes
  <1>3. ASSUME NEW f \in Rows, DeleteForward(r, f)
        PROVE  \E v \in Request : Started(r, v)
    <2>1. PICK v : v = [op |-> "delete", pc |-> "delMain", id |-> f, entity |-> forward[f]]
      OBVIOUS
    <2>2. v \in Deletion /\ v.id = f /\ v.pc = "delMain" /\ v.entity = forward[f] /\ v.op = "delete"
      BY <2>1, RowFacts DEF Deletion
    <2>3. Begin(r, v)
      BY <1>3, <2>1 DEF DeleteForward
    <2>4. Sound(v) /\ v.id <= lastId
      BY <2>2, RowFacts DEF Sound, Typed, TypeOK, TablesOK
    <2> QED BY <2>2, <2>3, <2>4 DEF Started, Request, Begin, Becomes
  <1>4. UNCHANGED <<forward, lastId, node, cleaner, faults>>
    BY DEF Start, CreateForward, UpdateForward, DeleteForward
  <1> QED BY <1>1, <1>2, <1>3, <1>4 DEF Start, Port

\* Only Save counts identities on.
LEMMA SaveOnly ==
    ASSUME NEW r \in Requests, Continue(r), ~Save(r)
    PROVE  lastId' = lastId
  BY DEF Continue, PortsOfNew, PortsOfUpdate, CreateChain, CreateRemoteService, CreateMainService,
     UndoChain, UndoRemoteService, Remove, CreateSucceeds, UpdateSucceeds, UpdateFails, DeleteOldService,
     DeleteOldChain, DeleteOldRemoteService, DeleteMain, DeleteChain, DeleteRemote

\* What any step of a request makes of its record.
LEMMA RequestStep ==
    ASSUME Typed, NEW r \in Requests, Start(r) \/ Continue(r)
    PROVE  /\ lastId' \in {lastId, lastId + 1}
           /\ \E v \in {Idle} \cup Request :
                 Becomes(r, v) /\ (v # Idle => Sound(v) /\ v.id <= lastId')
  <1>1. lastId \in Nat
    BY ForwardAssumption DEF Typed, TypeOK, TablesOK
  <1>2. CASE Start(r)
    BY <1>2, Starts DEF Started
  <1>3. ASSUME Continue(r), Finish(r) PROVE \E v \in {Idle} : Becomes(r, v)
    BY <1>3 DEF Finish, Becomes
  <1>4. CASE Continue(r)
    <2>1. PICK q : q = request[r]
      OBVIOUS
    <2>2. Live(r) /\ q.id <= lastId
      BY <1>4, <2>1, AtLabel, <1>1 DEF Continue, Live
    <2>3. CASE PortsOfNew(r) \/ PortsOfUpdate(r)
      <3>1. lastId' = lastId
        BY <2>3 DEF PortsOfNew, PortsOfUpdate
      <3>2. Finish(r) \/ \E v \in Request : Becomes(r, v) /\ Sound(v) /\ v.id = q.id
        BY <2>1, <2>3, PortsOfNewAssigned, PortsOfUpdateAssigned DEF Request
      <3> QED BY <1>3, <1>4, <2>2, <3>1, <3>2
    <2>4. CASE Save(r)
      <3>1. lastId' = lastId + 1
        BY <2>4 DEF Save
      <3>2. PICK v \in Creation : Becomes(r, v) /\ Sound(v) /\ v.id = lastId + 1
        BY <2>1, <2>4, Saved
      <3> QED BY <1>1, <3>1, <3>2 DEF Request
    <2>5. CASE ~(PortsOfNew(r) \/ PortsOfUpdate(r) \/ Save(r))
      <3>1. Finish(r) \/ \E l : Goto(r, l) /\ Relabels(q, l)
        BY <1>4, <2>1, <2>2, <2>5, Continued
      <3>2. lastId' = lastId
        BY <1>4, <2>5, SaveOnly
      <3>3. ASSUME NEW l, Goto(r, l), Relabels(q, l)
            PROVE  Becomes(r, At(q, l)) /\ At(q, l) \in Request /\ Sound(At(q, l)) /\ At(q, l).id <= lastId
        <4>1. Becomes(r, At(q, l))
          BY <2>1, <3>3 DEF Goto, Becomes, At
        <4>2. Sound(q)
          BY <2>1, <2>2, AtLabel DEF Live
        <4> QED BY <2>2, <3>3, <4>1, <4>2, Relabelled DEF Same
      <3> QED BY <1>3, <1>4, <3>1, <3>2, <3>3
    <2> QED BY <2>3, <2>4, <2>5
  <1> QED BY <1>2, <1>4

-----------------------------------------------------------------------------
\* A step touches, on the nodes, only what is named after one forward, and
\* no socket is ever that of two services or that of one and of somebody else.
Apart(S, H) ==
    /\ H \subseteq Sockets
    /\ \A s \in S : Socket(s) \notin H
    /\ \A s, u \in S : Socket(s) = Socket(u) => s = u
ServiceTouch(i) ==
    /\ \A s \in services : s.id # i => s \in services'
    /\ \A s \in services' : s \in services \/ (s \in Service /\ s.id = i)
    /\ Apart(services', held')
ChainTouch(i) ==
    /\ \A c \in chains : c.id # i => c \in chains'
    /\ \A c \in chains' : c \in chains \/ (c \in ChainType /\ c.id = i)
Touches(i) == ServiceTouch(i) /\ ChainTouch(i)

LEMMA ApartNow == ASSUME Typed PROVE Apart(services, held)
  BY DEF Apart, Typed, TypeOK, NodesOK

LEMMA DeleteTouches ==
    ASSUME Typed, NEW K, NEW n, NEW f, NEW t, NEW o, DeleteCommand(K, n, f, t, o)
    PROVE  ServiceTouch(f) /\ services' \subseteq services
  <1>1. services' \in {services, services \ Named(K, n, f, t)} /\ held' = held
    BY DEF DeleteCommand, Command
  <1>2. services' \subseteq services /\ \A s \in services : s.id # f => s \in services'
    BY <1>1 DEF Named
  <1>3. Apart(services', held')
    BY <1>1, <1>2, ApartNow DEF Apart
  <1> QED BY <1>2, <1>3 DEF ServiceTouch

LEMMA EntryType ==
    ASSUME NEW k \in Main \cup Remote, NEW n \in Nodes, NEW f \in 1..MaxId,
           NEW t \in Tunnels, NEW p \in Ports, NEW e, e = Entry(k, n, f, t, p)
    PROVE  /\ e \in Service /\ e.kind = k /\ e.node = n /\ e.id = f /\ e.port = p
           /\ Socket(e) = <<n, IF k = "udp" THEN "udp" ELSE "tcp", p>> /\ Socket(e) \in Sockets
  <1>1. e \in Service /\ e.kind = k /\ e.node = n /\ e.id = f /\ e.port = p
    BY DEF Entry, Service
  <1>2. Socket(e) = <<n, IF k = "udp" THEN "udp" ELSE "tcp", p>>
    BY <1>1 DEF Socket
  <1> QED BY <1>1, <1>2 DEF Sockets

\* The services one command names listen on different sockets.
LEMMA PairApart ==
    ASSUME NEW K, K \in {Main, Remote}, NEW n \in Nodes, NEW f \in 1..MaxId, NEW t \in Tunnels, NEW p \in Ports,
           NEW d \in Entries(K, n, f, t, p), NEW e \in Entries(K, n, f, t, p)
    PROVE  /\ d \in Service /\ d.id = f /\ d.kind \in K /\ Socket(d) \in Sockets
           /\ Socket(d) = Socket(e) => d = e
  <1>1. K \subseteq Main \cup Remote
    OBVIOUS
  <1>2. PICK i \in K : d = Entry(i, n, f, t, p)
    BY DEF Entries
  <1>3. PICK j \in K : e = Entry(j, n, f, t, p)
    BY DEF Entries
  <1>4. /\ d \in Service /\ d.id = f /\ d.kind = i /\ Socket(d) \in Sockets
        /\ Socket(d) = <<n, IF i = "udp" THEN "udp" ELSE "tcp", p>>
    BY <1>1, <1>2, EntryType
  <1>5. Socket(e) = <<n, IF j = "udp" THEN "udp" ELSE "tcp", p>>
    BY <1>1, <1>3, EntryType
  <1>6. Socket(d) = Socket(e) => i = j
    BY <1>4, <1>5 DEF Main, Remote
  <1> QED BY <1>2, <1>3, <1>4, <1>6

\* Entries that find their sockets free join the services beside which they do.
LEMMA Joined ==
    ASSUME Typed, NEW K, K \in {Main, Remote}, NEW n \in Nodes, NEW f \in 1..MaxId, NEW t \in Tunnels, NEW p \in Ports,
           NEW S \in SUBSET services, NEW E \in SUBSET Entries(K, n, f, t, p),
           \A e \in E : Free(e, S)
    PROVE  Apart(S \cup E, held)
  <1>1. Apart(services, held)
    BY ApartNow
  <1>2. \A d, e \in E : Socket(d) = Socket(e) => d = e
    BY PairApart
  <1>3. \A e \in E : Socket(e) \notin held /\ \A s \in S : Socket(s) # Socket(e)
    BY DEF Free
  <1> QED BY <1>1, <1>2, <1>3 DEF Apart

\* The services that a command for the services K of forward f does not name,
\* and those of another kind.
Spared(K, f) == {s \in services : s.id # f \/ s.kind \notin K}
Others(K) == {s \in services : s.kind \notin K}

LEMMA AddTouches ==
    ASSUME Typed, NEW K, K \in {Main, Remote}, NEW n \in Nodes, NEW f \in 1..MaxId,
           NEW t \in Tunnels, NEW p \in Ports, NEW o, AddCommand(K, n, f, t, p, o)
    PROVE  /\ Apart(services', held')
           /\ services \subseteq services' /\ services' \subseteq services \cup Entries(K, n, f, t, p)
           /\ o = "ok" /\ Addable(K, n, f, t, p) => Entries(K, n, f, t, p) \subseteq services'
  <1>1. PICK E : E = Entries(K, n, f, t, p)
    OBVIOUS
  <1>2. CASE Addable(K, n, f, t, p)
    <2>1. services' \in {services, services \cup E} /\ held' = held /\ (o = "ok" => services' = services \cup E)
      BY <1>1, <1>2 DEF AddCommand, Command
    <2>2. \A e \in E : Free(e, services)
      BY <1>1, <1>2 DEF Addable
    <2>3. Apart(services \cup E, held)
      BY <1>1, <2>2, Joined
    <2>4. Apart(services', held')
      BY <2>1, <2>3, ApartNow
    <2> QED BY <1>1, <2>1, <2>4
  <1>3. CASE ~Addable(K, n, f, t, p)
    <2>1. services' = services /\ held' \in {held, held \cup LeftOpen(K, n, f, t, p)}
      BY <1>3 DEF AddCommand
    <2>2. ASSUME NEW e, e = Entry("tcp", n, f, t, p), Free(e, services)
          PROVE  Apart(services, held \cup {Socket(e)})
      <3>1. Socket(e) \in Sockets
        BY <2>2, EntryType DEF Main
      <3>2. \A s \in services : Socket(s) # Socket(e)
        BY <2>2 DEF Free
      <3> QED BY <3>1, <3>2, ApartNow DEF Apart
    <2>3. Apart(services', held')
      <3>1. CASE LeftOpen(K, n, f, t, p) = {}
        BY <2>1, <3>1, ApartNow
      <3>2. CASE LeftOpen(K, n, f, t, p) # {}
        <4>1. PICK e : e = Entry("tcp", n, f, t, p)
          OBVIOUS
        <4>2. Free(e, services) /\ LeftOpen(K, n, f, t, p) = {Socket(e)}
          BY <3>2, <4>1 DEF LeftOpen
        <4>3. Apart(services, held \cup {Socket(e)})
          BY <2>2, <4>1, <4>2
        <4> QED BY <2>1, <4>2, <4>3, ApartNow
      <3> QED BY <3>1, <3>2
    <2> QED BY <1>3, <2>1, <2>3
  <1> QED BY <1>2, <1>3

LEMMA UpsertTouches ==
    ASSUME Typed, NEW K, K \in {Main, Remote}, NEW n \in Nodes, NEW f \in 1..MaxId,
           NEW t \in Tunnels, NEW p \in Ports, NEW o, UpsertCommand(K, n, f, t, p, o)
    PROVE  /\ Apart(services', held')
           /\ services' \subseteq services \cup Entries(K, n, f, t, p)
           /\ o = "ok" /\ Upsertable(K, n, f, t, p) => Entries(K, n, f, t, p) \subseteq services'
  <1>1. PICK R : R = Reached(K, n, f, t, p)
    OBVIOUS
  <1>2. PICK P : P = Opened(K, n, f, t, p)
    OBVIOUS
  <1>3. PICK S : S = services \ Named(R, n, f, t)
    OBVIOUS
  <1>4. PICK E : E = Entries(P, n, f, t, p)
    OBVIOUS
  <1>5. R \subseteq K /\ P \subseteq R /\ \A k \in P : Reopens(k, n, f, t, p)
    BY <1>1, <1>2 DEF Reached, Opened
  <1>6. services' \in {services, S \cup E} /\ held' = held /\ (o = "ok" => services' = S \cup E)
    BY <1>1, <1>2, <1>3, <1>4 DEF UpsertCommand, Command
  <1>7. S \subseteq services /\ \A s \in services \ S : s.id = f /\ s.kind \in K
    BY <1>3, <1>5 DEF Named
  <1>8. E \subseteq Entries(K, n, f, t, p)
    BY <1>4, <1>5 DEF Entries
  <1>9. \A e \in E : Free(e, S)
    <2>1. SUFFICES ASSUME NEW k \in P PROVE Free(Entry(k, n, f, t, p), S)
      BY <1>4 DEF Entries
    <2>2. S \subseteq services \ Named({k}, n, f, t)
      BY <1>3, <1>5, <2>1 DEF Named
    <2>3. Free(Entry(k, n, f, t, p), services \ Named({k}, n, f, t))
      BY <1>5, <2>1 DEF Reopens
    <2> QED BY <2>2, <2>3 DEF Free
  <1>10. Apart(S \cup E, held)
    BY <1>7, <1>8, <1>9, Joined
  <1>11. Apart(services', held')
    BY <1>6, <1>10, ApartNow
  <1>12. Upsertable(K, n, f, t, p) => E = Entries(K, n, f, t, p)
    BY <1>2, <1>4 DEF Upsertable
  <1>13. services' \subseteq services \cup Entries(K, n, f, t, p)
    BY <1>6, <1>7, <1>8
  <1> QED BY <1>6, <1>11, <1>12, <1>13

LEMMA UpsertSpares ==
    ASSUME NEW K, NEW n, NEW f, NEW t, NEW p, NEW o, UpsertCommand(K, n, f, t, p, o)
    PROVE  Spared(K, f) \subseteq services'
  <1>1. PICK R, E : /\ R = Reached(K, n, f, t, p) /\ E = Entries(Opened(K, n, f, t, p), n, f, t, p)
    OBVIOUS
  <1>2. services' \in {services, (services \ Named(R, n, f, t)) \cup E}
    BY <1>1 DEF UpsertCommand, Command
  <1>3. \A s \in Named(R, n, f, t) : s.id = f /\ s.kind \in K
    BY <1>1 DEF Named, Reached
  <1> QED BY <1>2, <1>3 DEF Spared

LEMMA ConfigureTouches ==
    ASSUME Typed, NEW K, K \in {Main, Remote}, NEW n \in Nodes, NEW f \in 1..MaxId,
           NEW t \in Tunnels, NEW p \in Ports, NEW o,
           \/ AddCommand(K, n, f, t, p, o)
           \/ UpsertCommand(K, n, f, t, p, o)
    PROVE  /\ ServiceTouch(f)
           /\ Others(K) \subseteq services'
           /\ o = "ok" /\ AddCommand(K, n, f, t, p, o) /\ Addable(K, n, f, t, p)
                  => Entries(K, n, f, t, p) \subseteq services'
           /\ o = "ok" /\ UpsertCommand(K, n, f, t, p, o) /\ Upsertable(K, n, f, t, p)
                  => Entries(K, n, f, t, p) \subseteq services'
  <1> DEFINE Goal == /\ Apart(services', held')
                     /\ Spared(K, f) \subseteq services'
                     /\ services' \subseteq services \cup Entries(K, n, f, t, p)
  <1>1. Goal
    <2>1. CASE AddCommand(K, n, f, t, p, o)
      <3>1. /\ Apart(services', held')
            /\ services \subseteq services' /\ services' \subseteq services \cup Entries(K, n, f, t, p)
        BY <2>1, AddTouches
      <3> QED BY <3>1 DEF Spared
    <2>2. CASE UpsertCommand(K, n, f, t, p, o)
      <3>1. Apart(services', held')
        BY <2>2, UpsertTouches
      <3>2. Spared(K, f) \subseteq services'
        BY <2>2, UpsertSpares
      <3>3. services' \subseteq services \cup Entries(K, n, f, t, p)
        BY <2>2, UpsertTouches
      <3> QED BY <3>1, <3>2, <3>3
    <2> QED BY <2>1, <2>2
  <1>2. \A e \in Entries(K, n, f, t, p) : e \in Service /\ e.id = f
    BY PairApart
  <1>3. ServiceTouch(f)
    BY <1>1, <1>2 DEF ServiceTouch, Spared
  <1>6. Others(K) \subseteq services'
    BY <1>1 DEF Spared, Others
  <1>4. o = "ok" /\ AddCommand(K, n, f, t, p, o) /\ Addable(K, n, f, t, p)
            => Entries(K, n, f, t, p) \subseteq services'
    BY AddTouches
  <1>5. o = "ok" /\ UpsertCommand(K, n, f, t, p, o) /\ Upsertable(K, n, f, t, p)
            => Entries(K, n, f, t, p) \subseteq services'
    BY UpsertTouches
  <1> QED BY <1>3, <1>4, <1>5, <1>6

LEMMA ChainTouches ==
    ASSUME Typed, NEW n \in Nodes, NEW f \in 1..MaxId, NEW t \in Tunnels, NEW o,
           \/ ChainCommand(chains \cup {Chain(n, f, t)}, o)
           \/ ChainCommand(chains \ {Chain(n, f, t)}, o)
    PROVE  ChainTouch(f)
  <1>1. Chain(n, f, t) \in ChainType /\ Chain(n, f, t).id = f
    BY DEF Chain, ChainType
  <1> QED BY <1>1 DEF ChainCommand, ChainTouch

\* Tunnels begin and end at nodes.
LEMMA Ends == ASSUME NEW t \in Tunnels PROVE InNode[t] \in Nodes /\ OutNode[t] \in Nodes
  BY DEF Nodes

LEMMA NodesStay ==
    ASSUME Typed, UNCHANGED serving, NEW i
    PROVE  ServiceTouch(i)
  <1>1. services' = services /\ held' = held
    BY DEF serving
  <1> QED BY <1>1, ApartNow DEF ServiceTouch

LEMMA ChainsStay ==
    ASSUME UNCHANGED chains, NEW i
    PROVE  ChainTouch(i)
  BY DEF ChainTouch

\* A step of a request touches what is named after its forward.
LEMMA RequestTouches ==
    ASSUME Typed, NEW r \in Requests, Live(r), Continue(r), NEW q, q = request[r]
    PROVE  UNCHANGED node \/ (q.id \in 1..lastId /\ Touches(q.id))
  <1> DEFINE Goal == UNCHANGED node \/ (q.id \in 1..lastId /\ Touches(q.id))
  <1> SUFFICES Goal
    OBVIOUS
  <1>1. /\ q \in Request /\ Sound(q) /\ q.id \in 0..lastId /\ q.entity.tunnel \in Tunnels
        /\ q.pc \in {"ports", "save"} \cup Configuring => q \in Creation \cup Change
        /\ q.pc \in {"oldMain", "oldChain", "oldRemote", "error"} => q \in Change
        /\ q.pc \in {"delMain", "delChain", "delRemote"} => q \in Deletion
        /\ q.op = "create" <=> q \in Creation
        /\ q.op \in {"update", "move"} <=> q \in Change
        /\ q \in Change \cup Deletion => q.id # 0
    BY AtLabel DEF Live
  <1>2. q.pc \notin {"ports", "save"} => q.id \in 1..lastId /\ q.id \in 1..MaxId /\ Equipped(q.entity)
    <2>1. q.pc \notin {"ports", "save"} => q.id # 0 /\ Equipped(q.entity)
      BY <1>1 DEF Sound, Request
    <2> QED BY <1>1, <2>1, ForwardAssumption DEF Typed, TypeOK, TablesOK
  <1>3. InNode[q.entity.tunnel] \in Nodes /\ OutNode[q.entity.tunnel] \in Nodes
    BY <1>1, Ends
  <1>4. ASSUME CreateChain(r) \/ UndoChain(r) \/ DeleteChain(r) PROVE Goal
    <2>1. q.id \in 1..MaxId /\ q.id \in 1..lastId
      BY <1>2, <1>4 DEF CreateChain, UndoChain, DeleteChain
    <2>2. UNCHANGED serving
      BY <1>4 DEF CreateChain, UndoChain, DeleteChain
    <2>3. \E o : \/ ChainCommand(chains \cup {Chain(InNode[q.entity.tunnel], q.id, q.entity.tunnel)}, o)
                 \/ ChainCommand(chains \ {Chain(InNode[q.entity.tunnel], q.id, q.entity.tunnel)}, o)
      BY <1>4 DEF CreateChain, UndoChain, DeleteChain
    <2>4. ChainTouch(q.id)
      BY <1>1, <1>3, <2>1, <2>3, ChainTouches
    <2> QED BY <2>1, <2>2, <2>4, NodesStay DEF Touches
  <1>5. ASSUME DeleteOldChain(r) PROVE Goal
    <2>1. q.id \in 1..MaxId /\ q.id \in 1..lastId
      BY <1>2, <1>5 DEF DeleteOldChain
    <2>2. UNCHANGED serving
      BY <1>5 DEF DeleteOldChain
    <2>3. q.old.tunnel \in Tunnels
      BY <1>1, <1>5 DEF DeleteOldChain, Change, Row
    <2>4. \E o : ChainCommand(chains \ {Chain(InNode[q.old.tunnel], q.id, q.old.tunnel)}, o)
      BY <1>5 DEF DeleteOldChain
    <2>5. ChainTouch(q.id)
      BY <2>1, <2>3, <2>4, Ends, ChainTouches
    <2> QED BY <2>1, <2>2, <2>5, NodesStay DEF Touches
  <1>6. ASSUME \/ UndoRemoteService(r) \/ DeleteOldService(r) \/ DeleteOldRemoteService(r)
               \/ DeleteMain(r) \/ DeleteRemote(r)
        PROVE  Goal
    <2>1. q.id \in 1..lastId
      BY <1>2, <1>6 DEF UndoRemoteService, DeleteOldService, DeleteOldRemoteService, DeleteMain, DeleteRemote
    <2>2. UNCHANGED chains
      BY <1>6 DEF UndoRemoteService, DeleteOldService, DeleteOldRemoteService, DeleteMain, DeleteRemote
    <2>3. \E K, n, t, o : DeleteCommand(K, n, q.id, t, o)
      BY <1>6 DEF UndoRemoteService, DeleteOldService, DeleteOldRemoteService, DeleteMain, DeleteRemote, DeleteAnd
    <2>4. ServiceTouch(q.id)
      BY <2>3, DeleteTouches
    <2> QED BY <2>1, <2>2, <2>4, ChainsStay DEF Touches
  <1>7. ASSUME CreateRemoteService(r) PROVE Goal
    <2>1. /\ q.id \in 1..lastId /\ q.id \in 1..MaxId /\ q.entity.out \in Ports
      BY <1>1, <1>2, <1>7 DEF CreateRemoteService, Sound, Equipped
    <2>2. UNCHANGED chains
      BY <1>7 DEF CreateRemoteService
    <2>3. \E o : \/ AddCommand(Remote, OutNode[q.entity.tunnel], q.id, q.entity.tunnel, q.entity.out, o)
                 \/ UpsertCommand(Remote, OutNode[q.entity.tunnel], q.id, q.entity.tunnel, q.entity.out, o)
      BY <1>7 DEF CreateRemoteService, Configure
    <2>4. ServiceTouch(q.id)
      BY <1>1, <1>3, <2>1, <2>3, ConfigureTouches
    <2> QED BY <2>1, <2>2, <2>4, ChainsStay DEF Touches
  <1>8. ASSUME CreateMainService(r) PROVE Goal
    <2>1. /\ q.id \in 1..lastId /\ q.id \in 1..MaxId /\ q.entity.in \in Ports
      BY <1>1, <1>2, <1>8 DEF CreateMainService, Equipped
    <2>2. UNCHANGED chains
      BY <1>8 DEF CreateMainService
    <2>3. \E o : \/ AddCommand(Main, InNode[q.entity.tunnel], q.id, q.entity.tunnel, q.entity.in, o)
                 \/ UpsertCommand(Main, InNode[q.entity.tunnel], q.id, q.entity.tunnel, q.entity.in, o)
      BY <1>8 DEF CreateMainService, Configure
    <2>4. ServiceTouch(q.id)
      BY <1>1, <1>3, <2>1, <2>3, ConfigureTouches
    <2> QED BY <2>1, <2>2, <2>4, ChainsStay DEF Touches
  <1>9. ASSUME \/ PortsOfNew(r) \/ PortsOfUpdate(r) \/ Save(r) \/ Remove(r)
               \/ CreateSucceeds(r) \/ UpdateSucceeds(r) \/ UpdateFails(r)
        PROVE  Goal
    BY <1>9 DEF PortsOfNew, PortsOfUpdate, Save, Remove, CreateSucceeds, UpdateSucceeds, UpdateFails
  <1> QED BY <1>4, <1>5, <1>6, <1>7, <1>8, <1>9 DEF Continue

\* A clean-up touches what is named after a forward that is gone.
LEMMA CleanTouches ==
    ASSUME Typed, NEW n \in Nodes, Clean(n)
    PROVE  UNCHANGED node \/ \E i \in 1..lastId : i \notin Rows /\ Touches(i)
  <1>1. CASE DeleteOrphan(n)
    <2>1. PICK x \in deleting[n], o \in Outcomes :
              IF "kind" \in DOMAIN x
              THEN /\ DeleteCommand(IF x.kind = "tls" THEN Remote ELSE Main, n, x.id, x.tunnel, o)
                   /\ UNCHANGED chains
              ELSE ChainCommand(chains \ {x}, o) /\ UNCHANGED serving
      BY <1>1 DEF DeleteOrphan
    <2>2. x.id \in 1..MaxId /\ x.id <= lastId /\ x.id \notin Rows
      BY DEF Typed, TypeOK, CleanersOK, Where, Service, ChainType, Null
    <2>3. x.id \in 1..lastId
      BY <2>2, ForwardAssumption DEF Typed, TypeOK, TablesOK
    <2>4. CASE "kind" \in DOMAIN x
      <3>1. ServiceTouch(x.id)
        BY <2>1, <2>4, DeleteTouches
      <3> QED BY <2>1, <2>2, <2>3, <2>4, <3>1, ChainsStay DEF Touches
    <2>5. CASE "kind" \notin DOMAIN x
      <3>1. ChainTouch(x.id)
        BY <2>1, <2>5 DEF ChainCommand, ChainTouch
      <3> QED BY <2>1, <2>2, <2>3, <2>5, <3>1, NodesStay DEF Touches
    <2> QED BY <2>4, <2>5
  <1>2. CASE Report(n) \/ Compare(n)
    BY <1>2 DEF Report, Compare
  <1> QED BY <1>1, <1>2 DEF Clean

\* Who touches what, in any step.
LEMMA NodeStep ==
    ASSUME Typed, [Next]_vars
    PROVE  \/ UNCHANGED node
           \/ \E i \in 1..lastId : Touches(i) /\ i \notin Rows
           \/ \E r \in Requests :
                 /\ Live(r) /\ Continue(r)
                 /\ request[r].id \in 1..lastId /\ Touches(request[r].id)
  <1>1. ASSUME NEW r \in Requests, Continue(r), ~UNCHANGED node
        PROVE  Live(r) /\ request[r].id \in 1..lastId /\ Touches(request[r].id)
    BY <1>1, RequestTouches DEF Continue, Live
  <1>2. ASSUME NEW r \in Requests, Start(r) PROVE UNCHANGED node
    BY <1>2, Starts
  <1>3. ASSUME NEW f, ForceDeleteForward(f) PROVE UNCHANGED node
    BY <1>3 DEF ForceDeleteForward
  <1>4. UNCHANGED vars => UNCHANGED node
    BY DEF vars
  <1> QED BY <1>1, <1>2, <1>3, <1>4, CleanTouches DEF Next

-----------------------------------------------------------------------------
\* The statements on the table.
LEMMA SaveTable ==
    ASSUME Typed, NEW r \in Requests, Save(r), NEW q, q = request[r]
    PROVE  /\ lastId' = lastId + 1 /\ lastId + 1 \notin Rows
           /\ Rows' = Rows \cup {lastId + 1}
           /\ forward' \in [Rows' -> Row]
           /\ forward'[lastId + 1] = q.entity /\ Equipped(q.entity)
           /\ \A g \in Rows : forward'[g] = forward[g]
  <1>1. lastId' = lastId + 1 /\ lastId \in Nat
    BY ForwardAssumption DEF Save, Typed, TypeOK, TablesOK
  <1>2. Rows \subseteq 1..lastId /\ forward \in [Rows -> Row]
    BY DEF Typed, TypeOK, TablesOK
  <1>3. lastId + 1 \notin Rows
    BY <1>1, <1>2
  <1>4. PICK i : i = lastId + 1
    OBVIOUS
  <1>5. forward' = [g \in Rows \cup {i} |-> IF g = i THEN q.entity ELSE forward[g]]
    BY <1>4 DEF Save, With
  <1>6. q.entity \in Row /\ Equipped(q.entity)
    BY Saved
  <1>7. DOMAIN forward' = Rows \cup {i} /\ Rows' = DOMAIN forward'
    BY <1>5 DEF Rows
  <1> QED BY <1>1, <1>2, <1>3, <1>4, <1>5, <1>6, <1>7

LEMMA RemoveTable ==
    ASSUME Typed, NEW f, RemoveById(f)
    PROVE  /\ Rows' = Rows \ {f} /\ forward' \in [Rows' -> Row]
           /\ \A g \in Rows \ {f} : forward'[g] = forward[g]
  <1>1. forward \in [Rows -> Row]
    BY DEF Typed, TypeOK, TablesOK
  <1>2. forward' = [g \in Rows \ {f} |-> forward[g]]
    BY DEF RemoveById
  <1>3. DOMAIN forward' = Rows \ {f} /\ Rows' = DOMAIN forward'
    BY <1>2 DEF Rows
  <1> QED BY <1>1, <1>2, <1>3

LEMMA UpdateTable ==
    ASSUME Typed, NEW f, NEW e \in Row, Equipped(e), UpdateById(f, e)
    PROVE  /\ Rows' = Rows /\ forward' \in [Rows -> Row]
           /\ \A g \in Rows \ {f} : forward'[g] = forward[g]
           /\ f \in Rows => /\ Equipped(forward'[f])
                            /\ forward'[f].tunnel = e.tunnel /\ forward'[f].in = e.in
                            /\ Type2(e.tunnel) => forward'[f].out = e.out
  <1>1. forward \in [Rows -> Row] /\ NoPort \notin Ports
    BY ForwardAssumption DEF Typed, TypeOK, TablesOK
  <1> DEFINE w == [e EXCEPT !.out = IF @ = NoPort THEN forward[f].out ELSE @]
  <1>2. f \in Rows => /\ w \in Row /\ w.tunnel = e.tunnel /\ w.in = e.in
                      /\ e.out # NoPort => w.out = e.out
    BY <1>1 DEF Row, Port
  <1>3. forward' = [g \in Rows |-> IF g = f THEN w ELSE forward[g]]
    BY DEF UpdateById
  <1> HIDE DEF w
  <1>4. DOMAIN forward' = Rows /\ Rows' = DOMAIN forward'
    BY <1>3 DEF Rows
  <1>5. f \in Rows => forward'[f] = w /\ Equipped(w) /\ (Type2(e.tunnel) => w.out = e.out)
    BY <1>1, <1>2, <1>3 DEF Equipped
  <1>6. forward' \in [Rows -> Row] /\ \A g \in Rows \ {f} : forward'[g] = forward[g]
    BY <1>1, <1>2, <1>3
  <1> QED BY <1>2, <1>4, <1>5, <1>6

\* What an update or a move writes in the end.
LEMMA UpdateWrites ==
    ASSUME Typed, NEW r \in Requests, UpdateSucceeds(r) \/ UpdateFails(r), NEW q, q = request[r]
    PROVE  /\ q \in Change /\ Live(r)
           /\ \E e \in Row : /\ UpdateById(q.id, e) /\ Equipped(e)
                             /\ e.tunnel = q.entity.tunnel /\ e.in = q.entity.in /\ e.out = q.entity.out
  <1>1. q.pc \in {"done", "error"} /\ (q.pc = "done" => q.op \in {"update", "move"}) /\ q # Idle
    BY DEF UpdateSucceeds, UpdateFails, Idle
  <1>2. q \in Change /\ Sound(q)
    BY <1>1, AtLabel
  <1>3. Equipped(q.entity) /\ q.entity \in Entity
    BY <1>1, <1>2 DEF Sound, Change
  <1>4. q.entity \in Row
    BY <1>3 DEF Row, Entity, Equipped
  <1>5. PICK w : w = [q.entity EXCEPT !.status = "error"]
    OBVIOUS
  <1>6. /\ w \in Row /\ w.tunnel = q.entity.tunnel /\ w.in = q.entity.in /\ w.out = q.entity.out
    BY <1>4, <1>5 DEF Row
  <1>7. UpdateById(q.id, q.entity) \/ UpdateById(q.id, w)
    BY <1>5 DEF UpdateSucceeds, UpdateFails
  <1> QED BY <1>1, <1>2, <1>3, <1>4, <1>6, <1>7 DEF Live, Equipped

\* Who writes the table.
LEMMA TableStep ==
    ASSUME Typed, [Next]_vars
    PROVE  \/ UNCHANGED <<forward, lastId>>
           \/ \E r \in Requests : Live(r) /\ Save(r)
           \/ lastId' = lastId /\ \E r \in Requests : Live(r) /\ (UpdateSucceeds(r) \/ UpdateFails(r))
           \/ lastId' = lastId /\ \E r \in Requests : Live(r) /\ Remove(r) /\ RemoveById(request[r].id)
           \/ lastId' = lastId /\ \E f \in Rows : ForceDeleteForward(f) /\ RemoveById(f)
  <1>1. ASSUME NEW r \in Requests, Start(r) PROVE UNCHANGED <<forward, lastId>>
    BY <1>1, Starts
  <1>2. ASSUME NEW r \in Requests, Continue(r)
        PROVE  \/ UNCHANGED <<forward, lastId>>
               \/ Live(r) /\ Save(r)
               \/ lastId' = lastId /\ Live(r) /\ (UpdateSucceeds(r) \/ UpdateFails(r))
               \/ lastId' = lastId /\ Live(r) /\ Remove(r) /\ RemoveById(request[r].id)
    <2>1. Live(r)
      BY <1>2 DEF Continue, Live
    <2>2. CASE Save(r) \/ UpdateSucceeds(r) \/ UpdateFails(r) \/ Remove(r)
      BY <2>1, <2>2 DEF UpdateSucceeds, UpdateFails, Remove
    <2>3. CASE ~(Save(r) \/ UpdateSucceeds(r) \/ UpdateFails(r) \/ Remove(r))
      BY <1>2, <2>3 DEF Continue, PortsOfNew, PortsOfUpdate, CreateChain, CreateRemoteService,
         CreateMainService, UndoChain, UndoRemoteService, CreateSucceeds, DeleteOldService,
         DeleteOldChain, DeleteOldRemoteService, DeleteMain, DeleteChain, DeleteRemote
    <2> QED BY <2>2, <2>3
  <1>3. ASSUME NEW n \in Nodes, Clean(n) PROVE UNCHANGED <<forward, lastId>>
    BY <1>3 DEF Clean, Report, Compare, DeleteOrphan
  <1>4. ASSUME NEW f \in Rows, ForceDeleteForward(f) PROVE lastId' = lastId /\ RemoveById(f)
    BY <1>4 DEF ForceDeleteForward
  <1>5. UNCHANGED vars => UNCHANGED <<forward, lastId>>
    BY DEF vars
  <1>6. CASE \E f \in Rows : ForceDeleteForward(f)
    BY <1>4, <1>6
  <1>7. CASE \E r \in Requests : Start(r) \/ Continue(r)
    BY <1>1, <1>2, <1>7
  <1> QED BY <1>3, <1>5, <1>6, <1>7 DEF Next

\* Only the next identity ever enters the table, and every row in it is equipped.
LEMMA RowsStep ==
    ASSUME Typed, [Next]_vars
    PROVE  /\ lastId' \in {lastId, lastId + 1} /\ lastId' \in 0..MaxId
           /\ Rows' \subseteq Rows \cup {lastId + 1} /\ Rows' \subseteq 1..lastId'
           /\ forward' \in [Rows' -> Row]
           /\ \A f \in Rows' : Equipped(forward'[f])
  <1> DEFINE Goal == /\ lastId' \in {lastId, lastId + 1} /\ lastId' \in 0..MaxId
                     /\ Rows' \subseteq Rows \cup {lastId + 1} /\ Rows' \subseteq 1..lastId'
                     /\ forward' \in [Rows' -> Row]
                     /\ \A f \in Rows' : Equipped(forward'[f])
  <1> SUFFICES Goal
    OBVIOUS
  <1>1. /\ lastId \in 0..MaxId /\ lastId \in Nat /\ Rows \subseteq 1..lastId /\ forward \in [Rows -> Row]
        /\ \A f \in Rows : Equipped(forward[f])
    BY ForwardAssumption DEF Typed, TypeOK, TablesOK, Where
  <1>2. CASE UNCHANGED <<forward, lastId>>
    BY <1>1, <1>2 DEF Rows
  <1>3. ASSUME NEW r \in Requests, Save(r) PROVE Goal
    <2>1. lastId' \in 0..MaxId
      <3>1. PICK v \in Creation : v.id = lastId + 1
        BY <1>3, Saved
      <3> QED BY <1>1, <1>3, <3>1 DEF Save, Creation
    <2>2. /\ lastId' = lastId + 1 /\ Rows' = Rows \cup {lastId + 1} /\ forward' \in [Rows' -> Row]
          /\ Equipped(forward'[lastId + 1]) /\ \A g \in Rows : forward'[g] = forward[g]
      BY <1>3, SaveTable
    <2> QED BY <1>1, <2>1, <2>2
  <1>4. ASSUME lastId' = lastId, NEW r \in Requests, UpdateSucceeds(r) \/ UpdateFails(r) PROVE Goal
    <2>1. PICK f : f = request[r].id
      OBVIOUS
    <2>2. PICK e \in Row : UpdateById(f, e) /\ Equipped(e)
      BY <1>4, <2>1, UpdateWrites
    <2> QED BY <1>1, <1>4, <2>2, UpdateTable
  <1>5. ASSUME lastId' = lastId, NEW f, RemoveById(f) PROVE Goal
    BY <1>1, <1>5, RemoveTable
  <1> QED BY <1>2, <1>3, <1>4, <1>5, TableStep

\* The records of the requests.
LEMMA RecordsStep ==
    ASSUME Typed, [Next]_vars
    PROVE  \/ request' = request
           \/ \E r \in Requests, v \in {Idle} \cup Request :
                 /\ Start(r) \/ Continue(r)
                 /\ Becomes(r, v) /\ (v # Idle => Sound(v) /\ v.id <= lastId')
  <1>1. ASSUME NEW n \in Nodes, Clean(n) PROVE request' = request
    BY <1>1 DEF Clean, Report, Compare, DeleteOrphan
  <1>2. ASSUME NEW f, ForceDeleteForward(f) PROVE request' = request
    BY <1>2 DEF ForceDeleteForward
  <1>3. UNCHANGED vars => request' = request
    BY DEF vars
  <1> QED BY <1>1, <1>2, <1>3, RequestStep DEF Next

LEMMA FaultsType == ASSUME Typed, NEW o \in Outcomes, Count(o) PROVE faults' \in 0..MaxFaults
  BY ForwardAssumption DEF Outcomes, Count, Typed, TypeOK, TablesOK

LEMMA TablesStep == ASSUME Typed, [Next]_vars PROVE TablesOK'
  <1>1. begun' \in 0..MaxRequests /\ faults' \in 0..MaxFaults
    <2>1. begun \in 0..MaxRequests /\ faults \in 0..MaxFaults
      BY DEF Typed, TypeOK, TablesOK
    <2>2. begun < MaxRequests => begun + 1 \in 0..MaxRequests
      BY <2>1, ForwardAssumption
    <2>3. ASSUME NEW r \in Requests, Start(r) PROVE begun' = begun + 1 /\ begun < MaxRequests /\ faults' = faults
      BY <2>3, Starts DEF Started, Begin
    <2>4. ASSUME NEW f, ForceDeleteForward(f) PROVE begun' = begun + 1 /\ begun < MaxRequests /\ faults' = faults
      BY <2>4 DEF ForceDeleteForward
    <2>5. ASSUME NEW r \in Requests, Continue(r)
          PROVE  begun' = begun /\ (faults' = faults \/ \E o \in Outcomes : Count(o))
      <3>1. CASE \/ PortsOfNew(r) \/ PortsOfUpdate(r) \/ Save(r) \/ Remove(r)
                 \/ CreateSucceeds(r) \/ UpdateSucceeds(r) \/ UpdateFails(r)
        BY <3>1 DEF PortsOfNew, PortsOfUpdate, Save, Remove, CreateSucceeds, UpdateSucceeds, UpdateFails
      <3>2. CASE \/ CreateChain(r) \/ CreateRemoteService(r) \/ CreateMainService(r)
                 \/ UndoChain(r) \/ UndoRemoteService(r)
        BY <3>2 DEF CreateChain, CreateRemoteService, CreateMainService, UndoChain, UndoRemoteService, Configure
      <3>3. CASE \/ DeleteOldService(r) \/ DeleteOldChain(r) \/ DeleteOldRemoteService(r)
                 \/ DeleteMain(r) \/ DeleteChain(r) \/ DeleteRemote(r)
        BY <3>3 DEF DeleteOldService, DeleteOldChain, DeleteOldRemoteService, DeleteMain, DeleteChain,
           DeleteRemote, DeleteAnd
      <3> QED BY <2>5, <3>1, <3>2, <3>3 DEF Continue
    <2>6. ASSUME NEW n \in Nodes, Clean(n)
          PROVE  begun' = begun /\ (faults' = faults \/ \E o \in Outcomes : Count(o))
      BY <2>6 DEF Clean, Report, Compare, DeleteOrphan
    <2>7. UNCHANGED vars => begun' = begun /\ faults' = faults
      BY DEF vars
    <2>8. (\E o \in Outcomes : Count(o)) => faults' \in 0..MaxFaults
      BY FaultsType
    <2> QED BY <2>1, <2>2, <2>3, <2>4, <2>5, <2>6, <2>7, <2>8 DEF Next
  <1> QED BY <1>1, RowsStep DEF TablesOK

LEMMA NodesStep == ASSUME Typed, [Next]_vars PROVE NodesOK'
  <1>1. NodesOK
    BY DEF Typed, TypeOK
  <1>2. ASSUME NEW i, Touches(i) PROVE NodesOK'
    <2>1. Apart(services', held')
      BY <1>2 DEF Touches, ServiceTouch
    <2>2. services' \subseteq Service /\ chains' \subseteq ChainType
      BY <1>1, <1>2 DEF NodesOK, Touches, ServiceTouch, ChainTouch
    <2>3. Apart(services', held') <=> Apart(services, held)'
      BY DEF Apart, Socket
    <2> QED BY <2>1, <2>2 DEF NodesOK, Apart
  <1>3. CASE UNCHANGED node
    BY <1>1, <1>3 DEF NodesOK, node, serving
  <1> QED BY <1>2, <1>3, NodeStep

LEMMA RequestsStep == ASSUME Typed, [Next]_vars PROVE RequestsOK'
  <1>1. RequestsOK
    BY DEF Typed, TypeOK
  <1>2. request' \in [Requests -> {Idle} \cup Creation \cup Change \cup Deletion]
    BY <1>1, RecordsStep DEF RequestsOK, Becomes, Request
  <1>3. mixed' \subseteq Requests /\ acked' \subseteq 1..MaxId
    <2>1. ASSUME NEW r \in Requests, Start(r) PROVE mixed' \subseteq Requests /\ acked' \subseteq 1..MaxId
      <3>1. PICK v \in Request : Begin(r, v)
        BY <2>1, Starts DEF Started
      <3>2. mixed' \subseteq mixed \cup Busy(v.id) \cup {r} /\ acked' \subseteq acked
        BY <3>1 DEF Begin
      <3>3. Busy(v.id) \subseteq Requests
        BY DEF Busy
      <3> QED BY <1>1, <3>2, <3>3 DEF RequestsOK
    <2>2. ASSUME NEW r \in Requests, CreateSucceeds(r) \/ UpdateSucceeds(r)
          PROVE  mixed' \subseteq Requests /\ acked' \subseteq 1..MaxId
      <3>1. PICK q : q = request[r]
        OBVIOUS
      <3>2. q # Idle /\ q.pc = "done"
        BY <2>2, <3>1 DEF CreateSucceeds, UpdateSucceeds, Idle
      <3>3. q \in Creation \cup Change /\ q.id # 0
        BY <3>1, <3>2, AtLabel DEF Sound, Configuring
      <3>4. q.id \in 1..MaxId
        BY <3>3, ForwardAssumption DEF Creation, Change
      <3> QED BY <1>1, <2>2, <3>1, <3>4 DEF CreateSucceeds, UpdateSucceeds, Acknowledge, RequestsOK
    <2>3. ASSUME NEW r \in Requests, Continue(r), ~CreateSucceeds(r), ~UpdateSucceeds(r)
          PROVE  mixed' = mixed /\ acked' = acked
      BY <2>3 DEF Continue, PortsOfNew, PortsOfUpdate, Save, CreateChain, CreateRemoteService,
         CreateMainService, UndoChain, UndoRemoteService, Remove, UpdateFails, DeleteOldService,
         DeleteOldChain, DeleteOldRemoteService, DeleteMain, DeleteChain, DeleteRemote, history
    <2>4. ASSUME NEW f, ForceDeleteForward(f) PROVE mixed' \subseteq Requests /\ acked' \subseteq 1..MaxId
      BY <1>1, <2>4 DEF ForceDeleteForward, RequestsOK, Busy
    <2>5. ASSUME NEW n \in Nodes, Clean(n) PROVE mixed' = mixed /\ acked' = acked
      BY <2>5 DEF Clean, Report, Compare, DeleteOrphan, history
    <2>6. UNCHANGED vars => mixed' = mixed /\ acked' = acked
      BY DEF vars, history
    <2> QED BY <1>1, <2>1, <2>2, <2>3, <2>4, <2>5, <2>6 DEF Next, RequestsOK
  <1> QED BY <1>2, <1>3 DEF RequestsOK

LEMMA OthersLeaveCleaners ==
    ASSUME Typed, [Next]_vars, ~ \E n \in Nodes : Clean(n)
    PROVE  UNCHANGED cleaner
  <1>1. ASSUME NEW r \in Requests, Continue(r) PROVE UNCHANGED cleaner
    BY <1>1 DEF Continue, PortsOfNew, PortsOfUpdate, Save, CreateChain, CreateRemoteService,
       CreateMainService, UndoChain, UndoRemoteService, Remove, CreateSucceeds, UpdateSucceeds,
       UpdateFails, DeleteOldService, DeleteOldChain, DeleteOldRemoteService, DeleteMain,
       DeleteChain, DeleteRemote
  <1>2. ASSUME NEW r \in Requests, Start(r) PROVE UNCHANGED cleaner
    BY <1>2, Starts
  <1>3. ASSUME NEW f, ForceDeleteForward(f) PROVE UNCHANGED cleaner
    BY <1>3 DEF ForceDeleteForward
  <1>4. UNCHANGED vars => UNCHANGED cleaner
    BY DEF vars
  <1> QED BY <1>1, <1>2, <1>3, <1>4 DEF Next

LEMMA ListedType ==
    ASSUME NEW s \in Service
    PROVE  Listed(s) \in Service /\ Listed(s).id = s.id /\ Listed(s).node = s.node
  BY DEF Listed, Service, Main

LEMMA CleanersStep == ASSUME Typed, [Next]_vars PROVE CleanersOK'
  <1>1. CleanersOK /\ NodesOK
    BY DEF Typed, TypeOK
  <1>2. ASSUME NEW n \in Nodes, Clean(n) PROVE CleanersOK'
    <2>1. CASE Report(n)
      <3>1. {Listed(s) : s \in {u \in services : u.node = n}} \cup {c \in chains : c.node = n}
                \in SUBSET (Service \cup ChainType)
        BY <1>1, ListedType DEF NodesOK
      <3> QED BY <1>1, <2>1, <3>1 DEF Report, CleanersOK
    <2>2. CASE Compare(n)
      BY <1>1, <2>2 DEF Compare, CleanersOK
    <2>3. CASE DeleteOrphan(n)
      BY <1>1, <2>3 DEF DeleteOrphan, CleanersOK
    <2> QED BY <1>2, <2>1, <2>2, <2>3 DEF Clean
  <1>3. ASSUME UNCHANGED cleaner PROVE CleanersOK'
    BY <1>1, <1>3 DEF cleaner, CleanersOK
  <1> QED BY <1>1, <1>2, <1>3, OthersLeaveCleaners

LEMMA WhereStep == ASSUME Typed, [Next]_vars PROVE Where'
  <1>1. /\ lastId \in Nat /\ lastId' \in {lastId, lastId + 1} /\ lastId <= lastId'
        /\ Rows' \subseteq Rows \cup {lastId + 1} /\ \A f \in Rows' : Equipped(forward'[f])
    BY RowsStep, ForwardAssumption DEF Typed, TypeOK, TablesOK
  <1>2. \A r \in Requests : request'[r] # Idle => Sound(request'[r]) /\ request'[r].id <= lastId'
    <2>1. ASSUME NEW r \in Requests, request[r] # Idle
          PROVE  Sound(request[r]) /\ request[r].id <= lastId'
      <3>1. PICK q : q = request[r]
        OBVIOUS
      <3>2. Sound(q) /\ q.id \in 0..lastId
        BY <2>1, <3>1, AtLabel
      <3>3. q.id <= lastId'
        BY <1>1, <3>2
      <3> QED BY <3>1, <3>2, <3>3
    <2>2. CASE request' = request
      BY <2>1, <2>2
    <2>3. ASSUME NEW r \in Requests, NEW v, Becomes(r, v), v # Idle => Sound(v) /\ v.id <= lastId'
          PROVE  \A g \in Requests : request'[g] # Idle => Sound(request'[g]) /\ request'[g].id <= lastId'
      <3>1. \A g \in Requests : request'[g] = IF g = r THEN v ELSE request[g]
        BY <2>3 DEF Becomes, Typed, TypeOK, RequestsOK
      <3> QED BY <2>1, <2>3, <3>1
    <2> QED BY <2>2, <2>3, RecordsStep
  <1>3. \A x \in services' \cup chains' : x.id <= lastId'
    <2>1. \A x \in services \cup chains : x.id \in Nat /\ x.id <= lastId
      BY ForwardAssumption DEF Typed, TypeOK, NodesOK, Service, ChainType, Where
    <2>2. ASSUME NEW i \in 1..lastId, Touches(i)
          PROVE  \A x \in services' \cup chains' : x.id <= lastId'
      <3>1. \A x \in services' \cup chains' : x \in services \cup chains \/ x.id = i
        BY <2>2 DEF Touches, ServiceTouch, ChainTouch
      <3>2. i <= lastId' /\ i \in Nat
        BY <1>1
      <3> QED BY <1>1, <2>1, <3>1, <3>2
    <2>3. CASE UNCHANGED node
      BY <1>1, <2>1, <2>3 DEF node, serving
    <2> QED BY <2>2, <2>3, NodeStep
  <1> DEFINE Named1(C, D) == /\ \A n \in Nodes : \A x \in C[n] \cup D[n] : x.id <= lastId /\ x.node = n
                             /\ \A n \in Nodes : \A x \in D[n] : x.id \notin Rows
  <1>4. Named1(cleaning', deleting')
    <2>1. /\ Named1(cleaning, deleting)
          /\ \A x \in services \cup chains : x.id <= lastId
          /\ DOMAIN cleaning = Nodes /\ DOMAIN deleting = Nodes
      BY DEF Where, Typed, TypeOK, CleanersOK
    <2>2. ASSUME NEW n \in Nodes, Report(n) PROVE Named1(cleaning', deleting')
      <3>1. PICK S : /\ S = {Listed(s) : s \in {u \in services : u.node = n}} \cup {c \in chains : c.node = n}
                     /\ cleaning' = [cleaning EXCEPT ![n] = S]
        BY <2>2 DEF Report
      <3>2. \A s \in services : Listed(s).id = s.id /\ Listed(s).node = s.node
        BY ListedType DEF Typed, TypeOK, NodesOK
      <3>3. \A x \in S : x.id <= lastId /\ x.node = n
        BY <2>1, <3>1, <3>2
      <3> QED BY <2>1, <2>2, <3>1, <3>3 DEF Report
    <2>3. ASSUME NEW n \in Nodes, Compare(n) PROVE Named1(cleaning', deleting')
      <3>1. PICK x \in cleaning[n] : /\ cleaning' = [cleaning EXCEPT ![n] = @ \ {x}]
                                     /\ deleting' = [deleting EXCEPT ![n] = IF IsOrphan(x) THEN {x} ELSE Null]
        BY <2>3 DEF Compare
      <3>2. \A m \in Nodes : cleaning'[m] \subseteq cleaning[m]
        BY <2>1, <3>1
      <3>3. \A m \in Nodes : \A y \in deleting'[m] : y \in deleting[m] \/ (m = n /\ y = x /\ x.id \notin Rows)
        BY <2>1, <3>1 DEF IsOrphan, Null
      <3> QED BY <2>1, <3>2, <3>3
    <2>4. ASSUME NEW n \in Nodes, DeleteOrphan(n) PROVE Named1(cleaning', deleting')
      <3>1. cleaning' = cleaning /\ \A m \in Nodes : deleting'[m] \subseteq deleting[m]
        BY <2>1, <2>4 DEF DeleteOrphan, Null
      <3> QED BY <2>1, <3>1
    <2>5. ASSUME ~ \E n \in Nodes : Clean(n) PROVE UNCHANGED cleaner
      BY <2>5, OthersLeaveCleaners
    <2>6. UNCHANGED cleaner => Named1(cleaning', deleting')
      BY <2>1 DEF cleaner
    <2> HIDE DEF Named1
    <2> QED BY <2>2, <2>3, <2>4, <2>5, <2>6 DEF Clean
  <1>5. ASSUME NEW i, i <= lastId, i \in Nat, i \notin Rows PROVE i <= lastId' /\ i \notin Rows'
    BY <1>1, <1>5
  <1>6. \A n \in Nodes : \A x \in cleaning'[n] \cup deleting'[n] : x.id \in Nat
    BY CleanersStep, ForwardAssumption DEF CleanersOK, Service, ChainType, Null
  <1>7. /\ \A n \in Nodes : \A x \in cleaning'[n] \cup deleting'[n] : x.id <= lastId' /\ x.node = n
        /\ \A n \in Nodes : \A x \in deleting'[n] : x.id \notin Rows'
    BY <1>1, <1>4, <1>5, <1>6
  <1> HIDE DEF Named1
  <1>8. Nodes' = Nodes
    BY DEF Nodes
  <1> QED BY <1>1, <1>2, <1>3, <1>7 DEF Where, Live, Sound, Equipped

-----------------------------------------------------------------------------
(***************************************************************************)
(* Quotas.  A creation that is not saved yet claims a place on its tunnel; *)
(* an update or a move claims one for its forward on the tunnel it goes    *)
(* to.  A check counts rows only, so at most the claims of the other       *)
(* requests come on top.                                                   *)
(***************************************************************************)
CreatingOn(t) == {r \in Creating : request[r].entity.tunnel = t}
Coming(t) == {r \in Requests : Live(r) /\ request[r] \in Change /\ request[r].entity.tunnel = t}
Claimed(t) == OnTunnel(t, 0) \cup {request[r].id : r \in Coming(t)}

Claims ==
    /\ \A t \in Tunnels :
           Cardinality(Claimed(t)) + Cardinality(CreatingOn(t)) <= GrantNum + Cardinality(Requests) - 1
    /\ Cardinality(Rows) + Cardinality(Creating) <= UserNum + Cardinality(Requests) - 1

\* A request is in at most one of two sets.
LEMMA Disjoint ==
    ASSUME NEW S \in SUBSET Requests, NEW C \in SUBSET Requests, S \cap C = {}
    PROVE  /\ IsFiniteSet(S) /\ IsFiniteSet(C)
           /\ Cardinality(S) \in Nat /\ Cardinality(C) \in Nat /\ Cardinality(Requests) \in Nat
           /\ Cardinality(S) + Cardinality(C) <= Cardinality(Requests)
  <1>1. IsFiniteSet(Requests) /\ IsFiniteSet(S) /\ IsFiniteSet(C) /\ IsFiniteSet(S \cup C)
    BY FS_Subset, ForwardAssumption, S \cup C \subseteq Requests
  <1>2. Cardinality(S) \in Nat /\ Cardinality(C) \in Nat /\ Cardinality(Requests) \in Nat
    BY <1>1, FS_CardinalityType
  <1>3. Cardinality(S \cup C) = Cardinality(S) + Cardinality(C) - Cardinality(S \cap C)
    BY <1>1, FS_Union
  <1>4. Cardinality(S \cap C) = 0
    BY FS_EmptySet
  <1>5. Cardinality(S \cup C) <= Cardinality(Requests)
    BY <1>1, FS_Subset, S \cup C \subseteq Requests
  <1> QED BY <1>1, <1>2, <1>3, <1>4, <1>5

\* As many identities as requests, at most.
LEMMA Identities ==
    ASSUME NEW S, IsFiniteSet(S), NEW h
    PROVE  /\ IsFiniteSet({h[r] : r \in S}) /\ Cardinality({h[r] : r \in S}) <= Cardinality(S)
  <1> DEFINE g == [r \in S |-> h[r]]
             T == {h[r] : r \in S}
  <1>1. g \in Surjection(S, T)
    BY DEF Surjection
  <1> HIDE DEF g, T
  <1>2. IsFiniteSet(T) /\ Cardinality(T) <= Cardinality(S)
    BY <1>1, FS_Surjection
  <1> QED BY <1>2 DEF T

IsImage(T, h, S) == T = {h[r] : r \in S}

\* A check that passed leaves room for the claims of all requests but one.
LEMMA RoomLeft ==
    ASSUME NEW X, IsFiniteSet(X), NEW G \in Nat, Cardinality(X) < G,
           NEW S \in SUBSET Requests, NEW C \in SUBSET Requests, S \cap C = {},
           NEW h, NEW T, IsImage(T, h, S)
    PROVE  Cardinality(X \cup T) + Cardinality(C) <= G + Cardinality(Requests) - 1
  <1>1. /\ IsFiniteSet(S) /\ Cardinality(S) \in Nat /\ Cardinality(C) \in Nat
        /\ Cardinality(Requests) \in Nat
        /\ Cardinality(S) + Cardinality(C) <= Cardinality(Requests)
    BY Disjoint
  <1>2. IsFiniteSet(T) /\ Cardinality(T) <= Cardinality(S)
    BY <1>1, Identities DEF IsImage
  <1>3. Cardinality(X \cup T) = Cardinality(X) + Cardinality(T) - Cardinality(X \cap T)
    BY <1>2, FS_Union
  <1>4. IsFiniteSet(X \cap T) /\ Cardinality(X \cap T) \in Nat /\ Cardinality(X) \in Nat
           /\ Cardinality(T) \in Nat
    BY <1>2, FS_Subset, FS_CardinalityType, X \cap T \subseteq X
  <1> QED BY <1>1, <1>2, <1>3, <1>4

\* Rows and claims are finite.
LEMMA FiniteClaims ==
    ASSUME Typed
    PROVE  /\ IsFiniteSet(Rows) /\ Cardinality(Rows) \in Nat
           /\ IsFiniteSet(Creating) /\ Cardinality(Creating) \in Nat
           /\ \A t : /\ IsFiniteSet(OnTunnel(t, 0)) /\ OnTunnel(t, 0) = {g \in Rows : forward[g].tunnel = t}
                     /\ IsFiniteSet(Claimed(t)) /\ Cardinality(Claimed(t)) \in Nat
                     /\ IsFiniteSet(CreatingOn(t)) /\ Cardinality(CreatingOn(t)) \in Nat
  <1>1. Rows \subseteq 1..lastId /\ lastId \in Nat
    BY ForwardAssumption DEF Typed, TypeOK, TablesOK
  <1>2. IsFiniteSet(Rows)
    <2>1. IsFiniteSet(1..lastId)
      BY <1>1, FS_Interval
    <2> QED BY <1>1, <2>1, FS_Subset
  <1>3. IsFiniteSet(Creating)
    BY FS_Subset, ForwardAssumption, Creating \subseteq Requests DEF Creating
  <1>4. ASSUME NEW t
        PROVE  /\ IsFiniteSet(OnTunnel(t, 0)) /\ OnTunnel(t, 0) = {g \in Rows : forward[g].tunnel = t}
               /\ IsFiniteSet(Claimed(t)) /\ IsFiniteSet(CreatingOn(t))
    <2>1. OnTunnel(t, 0) = {g \in Rows : forward[g].tunnel = t}
      BY <1>1 DEF OnTunnel
    <2>2. IsFiniteSet(OnTunnel(t, 0))
      BY <1>2, <2>1, FS_Subset, OnTunnel(t, 0) \subseteq Rows
    <2>3. IsFiniteSet(CreatingOn(t))
      BY <1>3, FS_Subset, CreatingOn(t) \subseteq Creating DEF CreatingOn
    <2>4. IsFiniteSet(Coming(t))
      BY FS_Subset, ForwardAssumption, Coming(t) \subseteq Requests DEF Coming
    <2>5. IsFiniteSet({request[r].id : r \in Coming(t)})
      <3>1. PICK h : h = [r \in Coming(t) |-> request[r].id]
        OBVIOUS
      <3>2. {request[r].id : r \in Coming(t)} = {h[r] : r \in Coming(t)}
        BY <3>1
      <3> QED BY <2>4, <3>2, Identities
    <2>6. IsFiniteSet(Claimed(t))
      BY <2>2, <2>5, FS_Union DEF Claimed
    <2> QED BY <2>1, <2>2, <2>3, <2>6
  <1> QED BY <1>2, <1>3, <1>4, FS_CardinalityType

\* What a request claims, it claims to its end.
Keeps(v, q) == v.id = q.id /\ v.entity.tunnel = q.entity.tunnel /\ (v \in Change <=> q \in Change)

LEMMA RequestKeeps ==
    ASSUME Typed, NEW r \in Requests, Continue(r), ~Save(r), NEW q, q = request[r]
    PROVE  \E v \in {Idle} \cup Request : Becomes(r, v) /\ (v # Idle => Keeps(v, q))
  <1>1. Live(r) /\ q # Idle /\ q \in Request
    BY AtLabel DEF Continue, Live
  <1>2. Finish(r) => Becomes(r, Idle)
    BY DEF Finish, Becomes
  <1>3. CASE PortsOfNew(r)
    <2>1. q \in Creation
      BY <1>1, <1>3, AtLabel DEF PortsOfNew
    <2>2. \A v \in Creation : v \notin Change /\ v \in Request
      BY DEF Creation, Change, Request
    <2> QED BY <1>2, <1>3, <2>1, <2>2, PortsOfNewAssigned DEF Keeps
  <1>4. CASE PortsOfUpdate(r)
    <2>1. q \in Change
      BY <1>1, <1>4, AtLabel DEF PortsOfUpdate
    <2> QED BY <1>2, <1>4, <2>1, PortsOfUpdateAssigned DEF Keeps, Request
  <1>5. CASE ~PortsOfNew(r) /\ ~PortsOfUpdate(r)
    <2>1. Finish(r) \/ \E l : Goto(r, l) /\ Relabels(q, l)
      BY <1>1, <1>5, Continued
    <2>2. ASSUME NEW l, Goto(r, l), Relabels(q, l)
          PROVE  Becomes(r, At(q, l)) /\ At(q, l) \in Request /\ Keeps(At(q, l), q)
      <3>1. Becomes(r, At(q, l))
        BY <2>2 DEF Goto, Becomes, At
      <3>2. Sound(q)
        BY <1>1, AtLabel
      <3>3. At(q, l) \in Request /\ Same(At(q, l), q)
        BY <2>2, <3>2, Relabelled
      <3>4. \A v \in Request : v \in Change <=> v.op \in {"update", "move"}
        BY DEF Request, Creation, Change, Deletion
      <3> QED BY <1>1, <3>1, <3>3, <3>4 DEF Same, Keeps
    <2> QED BY <1>2, <2>1, <2>2
  <1> QED BY <1>3, <1>4, <1>5

\* Who is still to be saved, after a step.
Kept == Creating' \subseteq Creating /\ \A t \in Tunnels : /\ CreatingOn(t)' \subseteq CreatingOn(t)
                                                           /\ Coming(t)' \subseteq Coming(t)
                                                           /\ \A g \in Coming(t)' : request'[g].id = request[g].id

LEMMA KeepsClaims ==
    ASSUME Typed, NEW r \in Requests, Live(r), NEW v \in {Idle} \cup Request, Becomes(r, v),
           v # Idle => Keeps(v, request[r])
    PROVE  Kept
  <1>1. \A g \in Requests : request'[g] = IF g = r THEN v ELSE request[g]
    BY DEF Becomes, Typed, TypeOK, RequestsOK
  <1>2. \A g \in Requests : request'[g] # Idle => Live(g) /\ Keeps(request'[g], request[g])
    BY <1>1 DEF Live, Keeps
  <1> QED BY <1>2 DEF Kept, Creating, CreatingOn, Coming, Live, Keeps

LEMMA SameClaims == ASSUME request' = request PROVE Kept
  BY DEF Kept, Creating, CreatingOn, Coming, Live

\* A creation that is saved claims nothing any more.
LEMMA SavedClaims ==
    ASSUME Typed, NEW r \in Requests, Live(r), Save(r)
    PROVE  /\ r \in Creating /\ Creating' = Creating \ {r}
           /\ \A t \in Tunnels : /\ r \in CreatingOn(t) <=> request[r].entity.tunnel = t
                                 /\ CreatingOn(t)' = CreatingOn(t) \ {r}
                                 /\ Coming(t)' \subseteq Coming(t)
                                 /\ \A g \in Coming(t)' : request'[g].id = request[g].id
  <1>1. PICK q : q = request[r]
    OBVIOUS
  <1>2. q \in Creation /\ q.id = 0
    BY <1>1, Saved
  <1>3. PICK v \in Creation : Becomes(r, v) /\ v.id = lastId + 1
    BY <1>1, Saved
  <1>4. v.id # 0
    BY <1>3, ForwardAssumption DEF Typed, TypeOK, TablesOK
  <1>5. \A g \in Requests : request'[g] = IF g = r THEN v ELSE request[g]
    BY <1>3 DEF Becomes, Typed, TypeOK, RequestsOK
  <1>6. v \notin Change
    BY DEF Creation, Change
  <1> QED BY <1>1, <1>2, <1>4, <1>5, <1>6 DEF Creating, CreatingOn, Coming, Live

LEMMA StartedClaims ==
    ASSUME Typed, NEW r \in Requests, NEW v \in Request, Started(r, v)
    PROVE  /\ r \notin Creating
           /\ v \in Creation => Creating' = Creating \cup {r}
           /\ v \notin Creation => Creating' = Creating
           /\ \A t \in Tunnels :
                 /\ v.entity.tunnel # t \/ v \notin Creation => CreatingOn(t)' = CreatingOn(t)
                 /\ v.entity.tunnel # t \/ v \notin Change => Coming(t)' = Coming(t)
                 /\ Coming(t)' \subseteq Coming(t) \cup {r}
                 /\ \A g \in Coming(t) : request'[g].id = request[g].id
  <1>1. request[r] = Idle /\ \A g \in Requests : request'[g] = IF g = r THEN v ELSE request[g]
    BY DEF Started, Begin, Becomes, Typed, TypeOK, RequestsOK
  <1>2. v # Idle
    BY DEF Request, Creation, Change, Deletion, Idle
  <1>3. v \in Creation => v.id = 0 /\ v \notin Change
    BY DEF Started, Creation, Change, Deletion
  <1>4. v \notin Creation => v.id # 0
    BY DEF Request, Change, Deletion
  <1> QED BY <1>1, <1>2, <1>3, <1>4 DEF Creating, CreatingOn, Coming, Live

\* Identities suffice for the creations that are under way.
LEMMA IdsStep == ASSUME Typed, [Next]_vars PROVE IdsLeft'
  <1>1. /\ lastId \in Nat /\ IsFiniteSet(Creating) /\ Cardinality(Creating) \in Nat
        /\ lastId + Cardinality(Creating) <= MaxId /\ MaxId \in Nat
    BY FiniteClaims, ForwardAssumption DEF Typed, TypeOK, TablesOK, IdsLeft
  <1>2. ASSUME lastId' = lastId, Creating' \subseteq Creating PROVE IdsLeft'
    <2>1. PICK S : S = Creating'
      OBVIOUS
    <2>2. Cardinality(S) <= Cardinality(Creating) /\ Cardinality(S) \in Nat
      BY <1>1, <1>2, <2>1, FS_Subset, FS_CardinalityType
    <2> QED BY <1>1, <1>2, <2>1, <2>2 DEF IdsLeft
  <1>3. ASSUME NEW r \in Requests, Live(r), Save(r) PROVE IdsLeft'
    <2>1. lastId' = lastId + 1
      BY <1>3 DEF Save
    <2>2. r \in Creating /\ Creating' = Creating \ {r}
      BY <1>3, SavedClaims
    <2>3. Cardinality(Creating)' = Cardinality(Creating) - 1
      BY <1>1, <2>2, FS_RemoveElement
    <2> QED BY <1>1, <2>1, <2>3 DEF IdsLeft
  <1>4. ASSUME NEW r \in Requests, Start(r) PROVE IdsLeft'
    <2>1. PICK v \in Request : Started(r, v)
      BY <1>4, Starts
    <2>2. lastId' = lastId
      BY <1>4, Starts
    <2>3. CASE v \in Creation
      <3>1. lastId + Cardinality(Creating) < MaxId
        BY <2>1, <2>3 DEF Started, Creation, Change, Deletion
      <3>2. r \notin Creating /\ Creating' = Creating \cup {r}
        BY <2>1, <2>3, StartedClaims
      <3>3. Cardinality(Creating)' = Cardinality(Creating) + 1
        BY <1>1, <3>2, FS_AddElement
      <3> QED BY <1>1, <2>2, <3>1, <3>3 DEF IdsLeft
    <2>4. CASE v \notin Creation
      BY <1>2, <2>1, <2>2, <2>4, StartedClaims
    <2> QED BY <2>3, <2>4
  <1>5. ASSUME NEW r \in Requests, Continue(r), ~Save(r) PROVE IdsLeft'
    <2>1. lastId' = lastId
      BY <1>5, SaveOnly
    <2>2. Creating' \subseteq Creating
      BY <1>5, RequestKeeps, KeepsClaims DEF Kept, Continue, Live
    <2> QED BY <1>2, <2>1, <2>2
  <1>6. ASSUME NEW n \in Nodes, Clean(n) PROVE lastId' = lastId /\ request' = request
    BY <1>6 DEF Clean, Report, Compare, DeleteOrphan
  <1>7. ASSUME NEW f, ForceDeleteForward(f) PROVE lastId' = lastId /\ request' = request
    BY <1>7 DEF ForceDeleteForward
  <1>8. UNCHANGED vars => lastId' = lastId /\ request' = request
    BY DEF vars
  <1>9. ASSUME request' = request, lastId' = lastId PROVE IdsLeft'
    BY <1>2, <1>9, SameClaims DEF Kept
  <1> QED BY <1>3, <1>4, <1>5, <1>6, <1>7, <1>8, <1>9 DEF Next, Continue, Live

-----------------------------------------------------------------------------
THEOREM TypedInvariant == Spec => []Typed
  <1>1. Init => Typed
    <2> SUFFICES ASSUME Init PROVE Typed
      OBVIOUS
    <2>1. Rows = {} /\ lastId = 0 /\ services = {} /\ held = Taken /\ chains = {} /\ Creating = {}
      BY DEF Init, Rows, Creating, Live
    <2>2. Cardinality(Creating) = 0
      BY <2>1, FS_EmptySet
    <2>3. TablesOK /\ NodesOK
      BY <2>1, ForwardAssumption DEF Init, TablesOK, NodesOK, Rows
    <2>4. RequestsOK /\ CleanersOK
      BY DEF Init, RequestsOK, CleanersOK, Null
    <2>5. Where
      BY <2>1 DEF Init, Where, Live, Null
    <2> QED BY <2>1, <2>2, <2>3, <2>4, <2>5, ForwardAssumption DEF Typed, TypeOK, IdsLeft
  <1>2. Typed /\ [Next]_vars => Typed'
    BY TablesStep, NodesStep, RequestsStep, CleanersStep, WhereStep, IdsStep DEF Typed, TypeOK
  <1> QED BY <1>1, <1>2, PTL DEF Spec

\* Every variable keeps its type, and no two services ever listen on one socket of
\* a node, nor one on a socket that is held otherwise, whichever forwards are created, moved and cleaned up at the same time.
THEOREM TypeCorrect == Spec => []TypeOK
  BY TypedInvariant, PTL DEF Typed

-----------------------------------------------------------------------------
\* What a step does to the rows on a tunnel.
LEMMA TunnelStep ==
    ASSUME Typed, [Next]_vars, ~ \E r \in Requests : Live(r) /\ Save(r), NEW t \in Tunnels
    PROVE  Rows' \subseteq Rows /\ OnTunnel(t, 0)' \subseteq Claimed(t)
  <1>1. 0 \notin Rows /\ OnTunnel(t, 0) \subseteq Claimed(t) /\ OnTunnel(t, 0) = {g \in Rows : forward[g].tunnel = t}
    <2>1. 0 \notin Rows
      BY RowFacts, ForwardAssumption DEF Typed, TypeOK, TablesOK
    <2> QED BY <2>1, FiniteClaims DEF Claimed
  <1>2. OnTunnel(t, 0)' = {g \in Rows' \ {0} : forward'[g].tunnel = t}
    BY DEF OnTunnel
  <1>3. CASE UNCHANGED <<forward, lastId>>
    BY <1>1, <1>2, <1>3 DEF Rows
  <1>4. ASSUME NEW r \in Requests, Live(r), UpdateSucceeds(r) \/ UpdateFails(r)
        PROVE  Rows' \subseteq Rows /\ OnTunnel(t, 0)' \subseteq Claimed(t)
    <2>1. PICK q : q = request[r]
      OBVIOUS
    <2>2. PICK e \in Row : UpdateById(q.id, e) /\ Equipped(e) /\ e.tunnel = q.entity.tunnel
      BY <1>4, <2>1, UpdateWrites
    <2>3. /\ Rows' = Rows /\ \A g \in Rows \ {q.id} : forward'[g] = forward[g]
          /\ q.id \in Rows => forward'[q.id].tunnel = e.tunnel
      BY <2>2, UpdateTable
    <2>4. q \in Change
      BY <1>4, <2>1, UpdateWrites
    <2>5. q.entity.tunnel = t => q.id \in Claimed(t)
      BY <1>4, <2>1, <2>4 DEF Claimed, Coming
    <2> QED BY <1>1, <1>2, <2>2, <2>3, <2>5
  <1>5. ASSUME NEW f, RemoveById(f) PROVE Rows' \subseteq Rows /\ OnTunnel(t, 0)' \subseteq Claimed(t)
    BY <1>1, <1>2, <1>5, RemoveTable
  <1> QED BY <1>3, <1>4, <1>5, TableStep

\* Claims only shrink, but for a creation that turns its claim into a row, or
\* for a request that passed its checks.
LEMMA ClaimStep ==
    ASSUME Typed, [Next]_vars, NEW t \in Tunnels
    PROVE  \/ Claimed(t)' \subseteq Claimed(t) /\ CreatingOn(t)' \subseteq CreatingOn(t)
           \/ \E r \in CreatingOn(t) : /\ Claimed(t)' \subseteq Claimed(t) \cup {lastId + 1}
                                       /\ CreatingOn(t)' \subseteq CreatingOn(t) \ {r}
           \/ Cardinality(OnTunnel(t, 0)) < GrantNum /\ OnTunnel(t, 0)' = OnTunnel(t, 0)
  <1> DEFINE Shrink == Claimed(t)' \subseteq Claimed(t) /\ CreatingOn(t)' \subseteq CreatingOn(t)
             Turn == \E r \in CreatingOn(t) : /\ Claimed(t)' \subseteq Claimed(t) \cup {lastId + 1}
                                              /\ CreatingOn(t)' \subseteq CreatingOn(t) \ {r}
             Room == Cardinality(OnTunnel(t, 0)) < GrantNum /\ OnTunnel(t, 0)' = OnTunnel(t, 0)
  <1> SUFFICES Shrink \/ Turn \/ Room
    OBVIOUS
  <1>1. Claimed(t)' = OnTunnel(t, 0)' \cup {request'[r].id : r \in Coming(t)'}
    BY DEF Claimed
  <1>2. ASSUME Kept, ~ \E r \in Requests : Live(r) /\ Save(r) PROVE Shrink
    <2>1. OnTunnel(t, 0)' \subseteq Claimed(t)
      BY <1>2, TunnelStep
    <2>2. {request'[r].id : r \in Coming(t)'} \subseteq {request[r].id : r \in Coming(t)}
      BY <1>2 DEF Kept
    <2> QED BY <1>1, <1>2, <2>1, <2>2 DEF Kept, Claimed
  <1>3. ASSUME NEW r \in Requests, Live(r), Save(r) PROVE Shrink \/ Turn
    <2>1. /\ r \in CreatingOn(t) <=> request[r].entity.tunnel = t
          /\ CreatingOn(t)' = CreatingOn(t) \ {r}
          /\ Coming(t)' \subseteq Coming(t) /\ \A g \in Coming(t)' : request'[g].id = request[g].id
      BY <1>3, SavedClaims
    <2>2. {request'[g].id : g \in Coming(t)'} \subseteq {request[g].id : g \in Coming(t)}
      BY <2>1
    <2>3. /\ Rows' = Rows \cup {lastId + 1} /\ forward'[lastId + 1] = request[r].entity
          /\ \A g \in Rows : forward'[g] = forward[g]
      BY <1>3, SaveTable
    <2>4. OnTunnel(t, 0)' \subseteq OnTunnel(t, 0) \cup (IF request[r].entity.tunnel = t THEN {lastId + 1} ELSE {})
      BY <2>3 DEF OnTunnel
    <2> QED BY <1>1, <2>1, <2>2, <2>4 DEF Claimed
  <1>4. ASSUME NEW r \in Requests, Start(r) PROVE Shrink \/ Room
    <2>1. PICK v \in Request : Started(r, v)
      BY <1>4, Starts
    <2>2. forward' = forward
      BY <1>4, Starts
    <2>3. OnTunnel(t, 0)' = OnTunnel(t, 0)
      BY <2>2 DEF OnTunnel, Rows
    <2>4. CASE v \in Creation /\ v.entity.tunnel = t
      <3>1. WithinQuota(t, 0)
        BY <2>1, <2>4 DEF Started, Creation, Change, Deletion
      <3> QED BY <2>3, <3>1 DEF WithinQuota
    <2>5. CASE v \in Change /\ v.entity.tunnel = t /\ forward[v.id].tunnel # t
      <3>1. WithinQuota(t, v.id)
        BY <2>1, <2>5 DEF Started, Creation, Change, Deletion
      <3>2. OnTunnel(t, v.id) = OnTunnel(t, 0)
        BY <2>5, FiniteClaims DEF OnTunnel
      <3> QED BY <2>3, <3>1, <3>2 DEF WithinQuota
    <2>6. CASE v \in Change /\ v.entity.tunnel = t /\ forward[v.id].tunnel = t
      <3>1. v.id \in Rows /\ v \notin Creation
        BY <2>1, <2>6 DEF Started, Creation, Change, Deletion
      <3>2. /\ CreatingOn(t)' = CreatingOn(t) /\ Coming(t)' \subseteq Coming(t) \cup {r}
            /\ \A g \in Coming(t) : request'[g].id = request[g].id
        BY <2>1, <3>1, StartedClaims
      <3>3. request'[r].id = v.id
        BY <2>1 DEF Started, Becomes, Typed, TypeOK, RequestsOK
      <3>4. v.id \in OnTunnel(t, 0)
        BY <2>6, <3>1, FiniteClaims
      <3> QED BY <1>1, <2>3, <3>2, <3>3, <3>4 DEF Claimed
    <2>7. CASE v.entity.tunnel # t \/ v \in Deletion
      <3>1. v \in Deletion => v \notin Creation \cup Change
        BY DEF Deletion, Creation, Change
      <3>2. /\ CreatingOn(t)' = CreatingOn(t) /\ Coming(t)' = Coming(t)
            /\ \A g \in Coming(t) : request'[g].id = request[g].id
        BY <2>1, <2>7, <3>1, StartedClaims
      <3> QED BY <1>1, <2>3, <3>2 DEF Claimed
    <2> QED BY <2>4, <2>5, <2>6, <2>7 DEF Request
  <1>5. ASSUME NEW r \in Requests, Continue(r), ~Save(r) PROVE Kept
    BY <1>5, RequestKeeps, KeepsClaims DEF Continue, Live
  <1>6. request' = request => Kept
    BY SameClaims
  <1> HIDE DEF Shrink, Turn, Room
  <1>7. CASE \E r \in Requests : Start(r) \/ (Live(r) /\ Save(r))
    BY <1>3, <1>4, <1>7
  <1>8. CASE ~ \E r \in Requests : Start(r) \/ (Live(r) /\ Save(r))
    <2>1. Kept
      BY <1>5, <1>6, <1>8, RecordsStep DEF Continue, Live
    <2> QED BY <1>2, <1>8, <2>1
  <1> QED BY <1>7, <1>8

\* The same for all rows.
LEMMA UserStep ==
    ASSUME Typed, [Next]_vars
    PROVE  \/ Rows' \subseteq Rows /\ Creating' \subseteq Creating
           \/ \E r \in Creating : Rows' = Rows \cup {lastId + 1} /\ Creating' = Creating \ {r}
           \/ Cardinality(Rows) < UserNum /\ Rows' = Rows
  <1> DEFINE Shrink == Rows' \subseteq Rows /\ Creating' \subseteq Creating
             Turn == \E r \in Creating : Rows' = Rows \cup {lastId + 1} /\ Creating' = Creating \ {r}
             Room == Cardinality(Rows) < UserNum /\ Rows' = Rows
  <1> SUFFICES Shrink \/ Turn \/ Room
    OBVIOUS
  <1>1. ASSUME NEW r \in Requests, Live(r), Save(r) PROVE Turn
    BY <1>1, SavedClaims, SaveTable
  <1>2. ASSUME NEW r \in Requests, Start(r) PROVE Shrink \/ Room
    <2>1. PICK v \in Request : Started(r, v)
      BY <1>2, Starts
    <2>2. Rows' = Rows
      BY <1>2, Starts DEF Rows
    <2>3. CASE v \in Creation
      <3>1. WithinQuota(v.entity.tunnel, 0)
        BY <2>1, <2>3 DEF Started, Creation, Change, Deletion
      <3> QED BY <2>2, <3>1 DEF WithinQuota
    <2>4. CASE v \notin Creation
      BY <2>1, <2>2, <2>4, StartedClaims
    <2> QED BY <2>3, <2>4
  <1>3. ASSUME NEW r \in Requests, Continue(r), ~Save(r) PROVE Kept
    BY <1>3, RequestKeeps, KeepsClaims DEF Continue, Live
  <1>4. request' = request => Kept
    BY SameClaims
  <1>5. CASE ~ \E r \in Requests : Start(r) \/ (Live(r) /\ Save(r))
    <2>1. Creating' \subseteq Creating
      BY <1>3, <1>4, <1>5, RecordsStep DEF Continue, Live, Kept
    <2>2. Rows' \subseteq Rows
      <3>1. UNCHANGED <<forward, lastId>> => Rows' = Rows
        BY DEF Rows
      <3>2. ASSUME NEW r \in Requests, UpdateSucceeds(r) \/ UpdateFails(r) PROVE Rows' = Rows
        BY <3>2, UpdateWrites, UpdateTable
      <3>3. ASSUME NEW f, RemoveById(f) PROVE Rows' \subseteq Rows
        BY <3>3, RemoveTable
      <3> QED BY <1>5, <3>1, <3>2, <3>3, TableStep
    <2> QED BY <2>1, <2>2
  <1> HIDE DEF Shrink, Turn, Room
  <1> QED BY <1>1, <1>2, <1>5

\* Claims and rows do not grow together: at most one of the first for one of the
\* second.
Shifts(K2, C2, K, C, x) ==
    \/ K2 \subseteq K /\ C2 \subseteq C
    \/ \E r \in C : K2 \subseteq K \cup {x} /\ C2 \subseteq C \ {r}

LEMMA Balance ==
    ASSUME NEW K, NEW C, IsFiniteSet(K), IsFiniteSet(C), NEW K2, NEW C2, NEW x,
           Shifts(K2, C2, K, C, x)
    PROVE  /\ Cardinality(K) \in Nat /\ Cardinality(C) \in Nat
           /\ Cardinality(K2) \in Nat /\ Cardinality(C2) \in Nat
           /\ Cardinality(K2) + Cardinality(C2) <= Cardinality(K) + Cardinality(C)
  <1>1. Cardinality(K) \in Nat /\ Cardinality(C) \in Nat
    BY FS_CardinalityType
  <1>2. ASSUME NEW S, IsFiniteSet(S), NEW T, T \subseteq S
        PROVE  Cardinality(T) \in Nat /\ Cardinality(S) \in Nat /\ Cardinality(T) <= Cardinality(S)
    BY <1>2, FS_Subset, FS_CardinalityType
  <1>3. CASE K2 \subseteq K /\ C2 \subseteq C
    <2>1. Cardinality(K2) \in Nat /\ Cardinality(K2) <= Cardinality(K)
      BY <1>2, <1>3
    <2>2. Cardinality(C2) \in Nat /\ Cardinality(C2) <= Cardinality(C)
      BY <1>2, <1>3
    <2> QED BY <1>1, <2>1, <2>2
  <1>4. ASSUME NEW r \in C, K2 \subseteq K \cup {x}, C2 \subseteq C \ {r}
        PROVE  /\ Cardinality(K2) \in Nat /\ Cardinality(C2) \in Nat
               /\ Cardinality(K2) + Cardinality(C2) <= Cardinality(K) + Cardinality(C)
    <2>1. /\ IsFiniteSet(K \cup {x})
          /\ Cardinality(K \cup {x}) = IF x \in K THEN Cardinality(K) ELSE Cardinality(K) + 1
      BY FS_AddElement
    <2>2. IsFiniteSet(C \ {r}) /\ Cardinality(C \ {r}) = Cardinality(C) - 1
      BY FS_RemoveElement
    <2>3. Cardinality(K2) \in Nat /\ Cardinality(K2) <= Cardinality(K \cup {x})
      BY <1>2, <1>4, <2>1
    <2>4. Cardinality(C2) \in Nat /\ Cardinality(C2) <= Cardinality(C \ {r})
      BY <1>2, <1>4, <2>2
    <2> QED BY <1>1, <2>1, <2>2, <2>3, <2>4
  <1> QED BY <1>1, <1>3, <1>4 DEF Shifts

LEMMA ClaimsStep == ASSUME Typed, Claims, [Next]_vars, Typed' PROVE Claims'
  <1>1. Cardinality(Requests) \in Nat /\ GrantNum \in Nat /\ UserNum \in Nat
    BY FS_CardinalityType, ForwardAssumption
  <1> DEFINE G == GrantNum + Cardinality(Requests) - 1
             U == UserNum + Cardinality(Requests) - 1
  <1>2. ASSUME NEW t \in Tunnels
        PROVE  Cardinality(Claimed(t)') + Cardinality(CreatingOn(t)') <= G
    <2>1. PICK K2, C2 : K2 = Claimed(t)' /\ C2 = CreatingOn(t)'
      OBVIOUS
    <2>2. Cardinality(Claimed(t)) + Cardinality(CreatingOn(t)) <= G /\ G \in Int
      BY <1>1 DEF Claims
    <2>3. IsFiniteSet(Claimed(t)) /\ IsFiniteSet(CreatingOn(t)) /\ IsFiniteSet(OnTunnel(t, 0))
      BY FiniteClaims
    <2>4. CASE \/ K2 \subseteq Claimed(t) /\ C2 \subseteq CreatingOn(t)
               \/ \E r \in CreatingOn(t) : K2 \subseteq Claimed(t) \cup {lastId + 1}
                                           /\ C2 \subseteq CreatingOn(t) \ {r}
      <3>1. PICK x, K, C : x = lastId + 1 /\ K = Claimed(t) /\ C = CreatingOn(t)
        OBVIOUS
      <3>2. IsFiniteSet(K) /\ IsFiniteSet(C) /\ Shifts(K2, C2, K, C, x)
        BY <2>3, <2>4, <3>1 DEF Shifts
      <3>3. /\ Cardinality(K) \in Nat /\ Cardinality(C) \in Nat
            /\ Cardinality(K2) \in Nat /\ Cardinality(C2) \in Nat
            /\ Cardinality(K2) + Cardinality(C2) <= Cardinality(K) + Cardinality(C)
        BY <3>2, Balance
      <3> QED BY <2>1, <2>2, <3>1, <3>3
    <2>5. CASE Cardinality(OnTunnel(t, 0)) < GrantNum /\ OnTunnel(t, 0)' = OnTunnel(t, 0)
      <3>1. PICK S, h, T : S = Coming(t)' /\ h = [r \in S |-> request'[r].id] /\ IsImage(T, h, S)
        BY DEF IsImage
      <3>2. K2 = OnTunnel(t, 0) \cup T
        BY <2>1, <2>5, <3>1 DEF Claimed, IsImage
      <3>3. S \in SUBSET Requests /\ C2 \in SUBSET Requests
        BY <2>1, <3>1 DEF Coming, CreatingOn, Creating
      <3>4. S \cap C2 = {}
        <4>1. \A r \in S : request'[r] \in Change
          BY <3>1 DEF Coming
        <4>2. \A r \in C2 : request'[r].id = 0
          BY <2>1 DEF CreatingOn, Creating
        <4>3. \A v \in Change : v.id # 0
          BY DEF Change
        <4> QED BY <4>1, <4>2, <4>3
      <3>5. PICK X : X = OnTunnel(t, 0)
        OBVIOUS
      <3>6. Cardinality(X \cup T) + Cardinality(C2) <= GrantNum + Cardinality(Requests) - 1
        <4>1. IsFiniteSet(X) /\ Cardinality(X) < GrantNum
          BY <2>3, <2>5, <3>5
        <4>2. IsImage(T, h, S)
          BY <3>1
        <4> QED BY <1>1, <3>3, <3>4, <4>1, <4>2, RoomLeft
      <3> QED BY <2>1, <3>2, <3>5, <3>6
    <2> QED BY <2>1, <2>4, <2>5, ClaimStep
  <1>3. Cardinality(Rows') + Cardinality(Creating') <= U
    <2>1. PICK K2, C2 : K2 = Rows' /\ C2 = Creating'
      OBVIOUS
    <2>2. Cardinality(Rows) + Cardinality(Creating) <= U /\ U \in Int
      BY <1>1 DEF Claims
    <2>3. IsFiniteSet(Rows) /\ IsFiniteSet(Creating)
      BY FiniteClaims
    <2>4. CASE \/ K2 \subseteq Rows /\ C2 \subseteq Creating
               \/ \E r \in Creating : K2 \subseteq Rows \cup {lastId + 1} /\ C2 \subseteq Creating \ {r}
      <3>1. PICK x, K, C : x = lastId + 1 /\ K = Rows /\ C = Creating
        OBVIOUS
      <3>2. IsFiniteSet(K) /\ IsFiniteSet(C) /\ Shifts(K2, C2, K, C, x)
        BY <2>3, <2>4, <3>1 DEF Shifts
      <3>3. /\ Cardinality(K) \in Nat /\ Cardinality(C) \in Nat
            /\ Cardinality(K2) \in Nat /\ Cardinality(C2) \in Nat
            /\ Cardinality(K2) + Cardinality(C2) <= Cardinality(K) + Cardinality(C)
        BY <3>2, Balance
      <3> QED BY <2>1, <2>2, <3>1, <3>3
    <2>5. CASE Cardinality(Rows) < UserNum /\ K2 = Rows
      <3>1. C2 \in SUBSET Requests /\ {} \in SUBSET Requests /\ {} \cap C2 = {}
        BY <2>1 DEF Creating
      <3>2. PICK S, T : S = {} /\ IsImage(T, C2, S)
        BY DEF IsImage
      <3>3. Cardinality(Rows \cup T) + Cardinality(C2) <= U
        <4>1. PICK X : X = Rows
          OBVIOUS
        <4>2. IsFiniteSet(X) /\ Cardinality(X) < UserNum
          BY <2>3, <2>5, <4>1
        <4>3. Cardinality(X \cup T) + Cardinality(C2) <= UserNum + Cardinality(Requests) - 1
          <5>1. IsImage(T, C2, S) /\ S \in SUBSET Requests /\ S \cap C2 = {}
            BY <3>1, <3>2
          <5> QED BY <1>1, <3>1, <4>2, <5>1, RoomLeft
        <4> QED BY <4>1, <4>3
      <3>4. Rows \cup T = Rows
        BY <3>2 DEF IsImage
      <3> QED BY <2>1, <2>5, <3>3, <3>4
    <2> QED BY <2>1, <2>4, <2>5, UserStep
  <1> QED BY <1>2, <1>3 DEF Claims

\* A user never has more forwards, in all or on one tunnel, than allowed plus one
\* for every other request at the same time: checkForwardQuota counts before the
\* row is saved, and nothing keeps two requests apart.
THEOREM QuotasMissedByFew == Spec => []QuotaBounded
  <1>1. Cardinality(Requests) \in Nat /\ Cardinality(Requests) # 0 /\ GrantNum \in Nat /\ UserNum \in Nat
    BY FS_CardinalityType, FS_EmptySet, ForwardAssumption
  <1>2. Init => Claims
    <2> SUFFICES ASSUME Init PROVE Claims
      OBVIOUS
    <2>1. Rows = {} /\ Creating = {}
      BY DEF Init, Rows, Creating, Live
    <2>2. \A t \in Tunnels : Claimed(t) = {} /\ CreatingOn(t) = {}
      BY <2>1 DEF Init, Claimed, OnTunnel, Coming, CreatingOn, Live
    <2>3. Cardinality({}) = 0
      BY FS_EmptySet
    <2> QED BY <1>1, <2>1, <2>2, <2>3 DEF Claims
  <1>3. Typed /\ Claims => QuotaBounded
    <2> SUFFICES ASSUME Typed, Claims, NEW t \in Tunnels
                 PROVE  /\ Cardinality(OnTunnel(t, 0)) <= GrantNum + Cardinality(Requests) - 1
                        /\ Cardinality(Rows) <= UserNum + Cardinality(Requests) - 1
      BY DEF QuotaBounded
    <2>1. Cardinality(OnTunnel(t, 0)) <= Cardinality(Claimed(t)) /\ Cardinality(OnTunnel(t, 0)) \in Nat
      BY FiniteClaims, FS_Subset, FS_CardinalityType, OnTunnel(t, 0) \subseteq Claimed(t) DEF Claimed
    <2> QED BY <1>1, <2>1, FiniteClaims DEF Claims
  <1>4. Typed /\ Typed' /\ Claims /\ [Next]_vars => Claims'
    BY ClaimsStep
  <1> QED BY <1>2, <1>3, <1>4, TypedInvariant, PTL DEF Spec

-----------------------------------------------------------------------------
(***************************************************************************)
(* What was answered with success is served.  A request that met no other  *)
(* one on its forward finds the table as it left it, and on the nodes what *)
(* it has sent there so far; nobody else touches that.                     *)
(***************************************************************************)
Alone(r) == Live(r) /\ r \notin mixed /\ request[r].id # 0

ChainThere(f, e) == Chain(InNode[e.tunnel], f, e.tunnel) \in chains
ExitThere(f, e) == Entry("tls", OutNode[e.tunnel], f, e.tunnel, e.out) \in services
EntryThere(f, e) == Entries(Main, InNode[e.tunnel], f, e.tunnel, e.in) \subseteq services

Progress(q) ==
    q.op # "delete" =>
        /\ Type2(q.entity.tunnel) =>
               /\ q.pc \in {"remote", "main", "done"} => ChainThere(q.id, q.entity)
               /\ q.pc \in {"main", "done"} => ExitThere(q.id, q.entity)
        /\ q.pc = "done" => EntryThere(q.id, q.entity)

Undisturbed(r) ==
    LET q == request[r] IN
    /\ Busy(q.id) = {r} /\ q.id \in Rows
    /\ q.op = "create" => forward[q.id] = q.entity
    /\ Progress(q)

Settled(f) == Busy(f) = {} /\ f \in Rows /\ Served(f)

Serving == (\A r \in Requests : Alone(r) => Undisturbed(r)) /\ \A f \in acked : Settled(f)

\* What a step leaves alone.
Untouched(i) ==
    /\ i \in Rows' /\ forward'[i] = forward[i]
    /\ \A s \in services : s.id = i => s \in services'
    /\ \A c \in chains : c.id = i => c \in chains'

LEMMA NamedAfter ==
    ASSUME NEW kind, NEW n, NEW f, NEW t, NEW p
    PROVE  Entry(kind, n, f, t, p).id = f /\ Chain(n, f, t).id = f
  BY DEF Entry, Chain

LEMMA UntouchedServed ==
    ASSUME NEW f, Untouched(f), Served(f)
    PROVE  Served(f)'
  BY NamedAfter DEF Untouched, Served, Entries

LEMMA UntouchedProgress ==
    ASSUME NEW q, Untouched(q.id), Progress(q)
    PROVE  Progress(q)'
  BY NamedAfter DEF Untouched, Progress, ChainThere, ExitThere, EntryThere, Entries

\* A forward that is in the table is left alone by all but its own requests.
LEMMA OthersUntouched ==
    ASSUME Typed, NEW f \in Rows
    PROVE  /\ \A r \in Requests : Continue(r) /\ request[r].id # f => Untouched(f)
           /\ \A r \in Requests : Start(r) => Untouched(f)
           /\ \A g : ForceDeleteForward(g) /\ g # f => Untouched(f)
           /\ \A n \in Nodes : Clean(n) => Untouched(f)
           /\ UNCHANGED vars => Untouched(f)
  <1>1. ASSUME UNCHANGED node, f \in Rows', forward'[f] = forward[f] PROVE Untouched(f)
    BY <1>1 DEF node, serving, Untouched
  <1>2. UNCHANGED forward => f \in Rows' /\ forward'[f] = forward[f]
    BY DEF Rows
  <1>3. ASSUME NEW i, i # f, Touches(i), f \in Rows', forward'[f] = forward[f] PROVE Untouched(f)
    BY <1>3 DEF Untouched, Touches, ServiceTouch, ChainTouch
  <1>4. ASSUME NEW r \in Requests, Continue(r), request[r].id # f PROVE Untouched(f)
    <2>1. Live(r)
      BY <1>4 DEF Continue, Live
    <2>2. f \in Rows' /\ forward'[f] = forward[f]
      <3>1. CASE Save(r)
        BY <3>1, SaveTable
      <3>2. CASE UpdateSucceeds(r) \/ UpdateFails(r)
        <4>1. PICK i : i = request[r].id
          OBVIOUS
        <4>2. PICK e \in Row : UpdateById(i, e) /\ Equipped(e)
          BY <3>2, <4>1, UpdateWrites
        <4> QED BY <1>4, <4>1, <4>2, UpdateTable
      <3>3. CASE Remove(r)
        <4>1. PICK i : i = request[r].id
          OBVIOUS
        <4>2. RemoveById(i)
          BY <3>3, <4>1 DEF Remove
        <4> QED BY <1>4, <4>1, <4>2, RemoveTable
      <3>4. CASE ~(Save(r) \/ UpdateSucceeds(r) \/ UpdateFails(r) \/ Remove(r))
        <4>1. UNCHANGED forward
          BY <1>4, <3>4 DEF Continue, PortsOfNew, PortsOfUpdate, CreateChain, CreateRemoteService,
             CreateMainService, UndoChain, UndoRemoteService, CreateSucceeds, DeleteOldService,
             DeleteOldChain, DeleteOldRemoteService, DeleteMain, DeleteChain, DeleteRemote
        <4> QED BY <1>2, <4>1
      <3> QED BY <3>1, <3>2, <3>3, <3>4
    <2>3. UNCHANGED node \/ Touches(request[r].id)
      BY <1>4, <2>1, RequestTouches
    <2> QED BY <1>1, <1>3, <1>4, <2>2, <2>3
  <1>5. ASSUME NEW r \in Requests, Start(r) PROVE Untouched(f)
    BY <1>1, <1>2, <1>5, Starts
  <1>6. ASSUME NEW g, ForceDeleteForward(g), g # f PROVE Untouched(f)
    <2>1. UNCHANGED node /\ RemoveById(g)
      BY <1>6 DEF ForceDeleteForward
    <2> QED BY <1>1, <1>6, <2>1, RemoveTable
  <1>7. ASSUME NEW n \in Nodes, Clean(n) PROVE Untouched(f)
    <2>1. UNCHANGED forward
      BY <1>7 DEF Clean, Report, Compare, DeleteOrphan
    <2> QED BY <1>1, <1>2, <1>3, <1>7, <2>1, CleanTouches
  <1>8. UNCHANGED vars => Untouched(f)
    BY <1>1, <1>2 DEF vars
  <1> QED BY <1>4, <1>5, <1>6, <1>7, <1>8

-----------------------------------------------------------------------------
\* A command that succeeded left on its node what it was sent for; nothing is
\* claimed of a request that undoes or has just begun.
LEMMA Nothing ==
    ASSUME NEW v, v.pc \notin {"remote", "main", "done"} \/ v.op = "delete"
                      \/ (v.pc = "main" /\ ~Type2(v.entity.tunnel))
    PROVE  Progress(v)'
  BY DEF Progress, Type2

LEMMA GotoLabel ==
    ASSUME Typed, NEW r \in Requests, Live(r), NEW l, NEW m, Goto(r, l), Goto(r, m)
    PROVE  l = m
  <1>1. PICK q : q = request[r]
    OBVIOUS
  <1>2. q \in Request
    BY <1>1, AtLabel DEF Live
  <1>3. request'[r] = [q EXCEPT !.pc = l] /\ request'[r] = [q EXCEPT !.pc = m]
    BY <1>1 DEF Goto, Typed, TypeOK, RequestsOK
  <1>4. "pc" \in DOMAIN q
    BY <1>2 DEF Request, Creation, Change, Deletion
  <1> QED BY <1>3, <1>4

LEMMA ChainProgress ==
    ASSUME Typed, NEW r \in Requests, Live(r), CreateChain(r), NEW q, q = request[r],
           NEW l, Goto(r, l), NEW v, v = At(q, l), v.pc = l, Same(v, q)
    PROVE  Progress(v)'
  <1>0. PICK c : c = Chain(InNode[q.entity.tunnel], q.id, q.entity.tunnel)
    OBVIOUS
  <1>1. PICK o \in Outcomes : /\ ChainCommand(chains \cup {c}, o)
                              /\ Goto(r, IF o = "ok" /\ (q.op = "update" \/ c \notin chains)
                                         THEN "remote" ELSE Undo(q.op, "undoChainOnly"))
    BY <1>0 DEF CreateChain
  <1>2. l = IF o = "ok" /\ (q.op = "update" \/ c \notin chains) THEN "remote" ELSE Undo(q.op, "undoChainOnly")
    <2>1. PICK m : m = IF o = "ok" /\ (q.op = "update" \/ c \notin chains)
                       THEN "remote" ELSE Undo(q.op, "undoChainOnly")
      OBVIOUS
    <2>2. Goto(r, l) /\ Goto(r, m)
      BY <1>1, <2>1
    <2>3. l = m
      BY <2>2, GotoLabel
    <2> QED BY <2>1, <2>3
  <1>3. CASE l = "remote"
    <2>1. o = "ok"
      BY <1>2, <1>3 DEF Undo
    <2>2. c \in chains'
      BY <1>1, <2>1 DEF ChainCommand
    <2> QED BY <1>0, <1>3, <2>2 DEF Progress, ChainThere, Same
  <1>4. CASE l # "remote"
    <2>1. l \notin {"remote", "main", "done"}
      BY <1>2, <1>4 DEF Undo
    <2> QED BY <2>1, Nothing
  <1> QED BY <1>3, <1>4

\* What Configure does, on its way to the next label.
LEMMA Configured ==
    ASSUME Typed, NEW r \in Requests, Live(r), NEW q, q = request[r],
           NEW K, K \in {Main, Remote}, NEW n \in Nodes,
           NEW p \in Ports, q.id \in 1..MaxId, q.entity.tunnel \in Tunnels,
           NEW next, NEW undo, Configure(r, K, n, p, next, undo),
           NEW l, Goto(r, l), next \notin {undo, "error"}
    PROVE  /\ l \in {next, undo, "error"}
           /\ Others(K) \subseteq services'
           /\ l = next => Entries(K, n, q.id, q.entity.tunnel, p) \subseteq services'
  <1>1. PICK t, f : t = q.entity.tunnel /\ f = q.id
    OBVIOUS
  <1>0. PICK good : good = IF q.op = "update" THEN Upsertable(K, n, f, t, p) ELSE Addable(K, n, f, t, p)
    OBVIOUS
  <1>2. PICK o \in Outcomes :
            /\ IF q.op = "update" THEN UpsertCommand(K, n, f, t, p, o) ELSE AddCommand(K, n, f, t, p, o)
            /\ Goto(r, IF good /\ o = "ok" THEN next ELSE Undo(q.op, undo))
    BY <1>0, <1>1 DEF Configure
  <1>3. l = IF good /\ o = "ok" THEN next ELSE Undo(q.op, undo)
    <2>1. PICK m : m = IF good /\ o = "ok" THEN next ELSE Undo(q.op, undo)
      OBVIOUS
    <2>2. Goto(r, l) /\ Goto(r, m)
      BY <1>2, <2>1
    <2>3. l = m
      BY <2>2, GotoLabel
    <2> QED BY <2>1, <2>3
  <1>4. UpsertCommand(K, n, f, t, p, o) \/ AddCommand(K, n, f, t, p, o)
    BY <1>2
  <1>5. f \in 1..MaxId /\ t \in Tunnels
    BY <1>1
  <1>6. /\ Others(K) \subseteq services'
        /\ o = "ok" /\ AddCommand(K, n, f, t, p, o) /\ Addable(K, n, f, t, p)
               => Entries(K, n, f, t, p) \subseteq services'
        /\ o = "ok" /\ UpsertCommand(K, n, f, t, p, o) /\ Upsertable(K, n, f, t, p)
               => Entries(K, n, f, t, p) \subseteq services'
    <2>1. Others(K) \subseteq services'
      <3>1. CASE UpsertCommand(K, n, f, t, p, o)
        <4>1. Spared(K, f) \subseteq services'
          BY <1>5, <3>1, UpsertSpares
        <4> QED BY <4>1 DEF Spared, Others
      <3>2. CASE AddCommand(K, n, f, t, p, o)
        <4>1. services \subseteq services'
          BY <1>5, <3>2, AddTouches
        <4> QED BY <4>1 DEF Others
      <3> QED BY <1>4, <3>1, <3>2
    <2>2. CASE UpsertCommand(K, n, f, t, p, o)
      BY <1>5, <2>1, <2>2, AddTouches, UpsertTouches
    <2>3. CASE ~UpsertCommand(K, n, f, t, p, o)
      BY <1>4, <1>5, <2>1, <2>3, AddTouches
    <2> QED BY <2>2, <2>3
  <1>7. l = next => good /\ o = "ok"
    BY <1>3 DEF Undo
  <1>8. l \in {next, undo, "error"}
    BY <1>3 DEF Undo
  <1> QED BY <1>0, <1>1, <1>2, <1>6, <1>7, <1>8

LEMMA ProgressStep ==
    ASSUME Typed, NEW r \in Requests, Continue(r), ~Save(r), NEW q, q = request[r],
           NEW v, Becomes(r, v), v # Idle, v.id # 0, Progress(q)
    PROVE  /\ Progress(v)' /\ v.id = q.id
           /\ v.op = "create" => v.entity = q.entity /\ q.op = "create"
  <1>1. /\ Live(r) /\ q # Idle /\ q \in Request /\ Sound(q) /\ q.entity.tunnel \in Tunnels
        /\ q.pc \in {"ports", "save"} \cup Configuring => q \in Creation \cup Change
        /\ q.pc \in {"oldMain", "oldChain", "oldRemote", "error"} => q \in Change
        /\ q.pc \in {"delMain", "delChain", "delRemote"} => q \in Deletion
    BY AtLabel DEF Continue, Live
  <1>2. ~Finish(r) /\ \A w : Becomes(r, w) => w = v
    BY DEF Finish, Becomes, Typed, TypeOK, RequestsOK
  <1>3. CASE PortsOfNew(r)
    <2>1. v \in Creation /\ v.pc = "save" /\ Sound(v)
      BY <1>2, <1>3, PortsOfNewAssigned
    <2> QED BY <2>1 DEF Sound, Creation
  <1>4. CASE PortsOfUpdate(r)
    <2>1. v \in Change /\ v.id = q.id /\ v.entity.tunnel = q.entity.tunnel
             /\ v.pc \in {"oldMain", FirstCommand(q.entity.tunnel)}
      BY <1>2, <1>4, PortsOfUpdateAssigned
    <2>2. Progress(v)'
      BY <2>1, Nothing DEF FirstCommand
    <2> QED BY <2>1, <2>2 DEF Change
  <1>5. CASE ~PortsOfNew(r) /\ ~PortsOfUpdate(r)
    <2>1. PICK l : Goto(r, l) /\ Relabels(q, l)
      BY <1>1, <1>2, <1>5, Continued
    <2>2. v = At(q, l)
      BY <1>2, <2>1 DEF Goto, Becomes, At
    <2>3. v \in Request /\ Sound(v) /\ Same(v, q) /\ v.pc = l
      BY <1>1, <2>1, <2>2, Relabelled
    <2>4. q.id \in 1..MaxId
      BY <2>1, <1>1, ForwardAssumption DEF Relabels, Request, Creation, Change, Deletion
    <2>5. InNode[q.entity.tunnel] \in Nodes /\ OutNode[q.entity.tunnel] \in Nodes
      BY <1>1, Ends
    <2>6. CASE CreateChain(r)
      <3>1. Progress(v)'
        BY <1>1, <2>1, <2>2, <2>3, <2>6, ChainProgress
      <3> QED BY <2>3, <3>1 DEF Same
    <2>7. CASE CreateRemoteService(r)
      <3>1. q.pc = "remote" /\ q.entity.out \in Ports /\ q.op # "delete"
        BY <1>1, <2>7 DEF CreateRemoteService, Sound, Equipped, Creation, Change, Configuring
      <3>2. /\ Configure(r, Remote, OutNode[q.entity.tunnel], q.entity.out, "main", "undoChain")
            /\ UNCHANGED chains
        BY <2>7 DEF CreateRemoteService
      <3>3. /\ l \in {"main", "undoChain", "error"}
            /\ l = "main" => Entry("tls", OutNode[q.entity.tunnel], q.id, q.entity.tunnel, q.entity.out) \in services'
        <4>0. PICK n, p : n = OutNode[q.entity.tunnel] /\ p = q.entity.out
          OBVIOUS
        <4>1. /\ l \in {"main", "undoChain", "error"}
              /\ l = "main" => Entries(Remote, n, q.id, q.entity.tunnel, p) \subseteq services'
          <5>1. Configure(r, Remote, n, p, "main", "undoChain") /\ n \in Nodes /\ p \in Ports
            BY <2>5, <3>1, <3>2, <4>0
          <5> QED BY <1>1, <2>1, <2>4, <5>1, Configured
        <4> QED BY <4>0, <4>1 DEF Entries, Remote
      <3>4. CASE l = "main"
        <4>1. Type2(q.entity.tunnel) => ChainThere(q.id, q.entity)
          BY <3>1 DEF Progress
        <4> QED BY <2>3, <3>2, <3>3, <3>4, <4>1 DEF Progress, ChainThere, ExitThere, Same
      <3>5. CASE l # "main"
        <4>1. Progress(v)'
          BY <2>3, <3>3, <3>5, Nothing
        <4> QED BY <2>3, <4>1 DEF Same
      <3> QED BY <3>4, <3>5
    <2>8. CASE CreateMainService(r)
      <3>1. q.pc = "main" /\ q.entity.in \in Ports /\ q.op # "delete"
        BY <1>1, <2>8 DEF CreateMainService, Sound, Equipped, Creation, Change, Configuring
      <3>2. /\ Configure(r, Main, InNode[q.entity.tunnel], q.entity.in, "done", "undoChain")
            /\ UNCHANGED chains
        BY <2>8 DEF CreateMainService
      <3>3. /\ l \in {"done", "undoChain", "error"}
            /\ Others(Main) \subseteq services'
            /\ l = "done" => Entries(Main, InNode[q.entity.tunnel], q.id, q.entity.tunnel, q.entity.in)
                                 \subseteq services'
        <4>0. PICK n, p : n = InNode[q.entity.tunnel] /\ p = q.entity.in
          OBVIOUS
        <4>1. Configure(r, Main, n, p, "done", "undoChain") /\ n \in Nodes /\ p \in Ports
          BY <2>5, <3>1, <3>2, <4>0
        <4>2. /\ l \in {"done", "undoChain", "error"}
              /\ Others(Main) \subseteq services'
              /\ l = "done" => Entries(Main, n, q.id, q.entity.tunnel, p) \subseteq services'
          BY <1>1, <2>1, <2>4, <4>1, Configured
        <4> QED BY <4>0, <4>2
      <3>4. CASE l = "done"
        <4>1. Type2(q.entity.tunnel) => ChainThere(q.id, q.entity) /\ ExitThere(q.id, q.entity)
          BY <3>1 DEF Progress
        <4>2. \A n, f, t, p : Entry("tls", n, f, t, p).kind \notin Main
          BY DEF Entry, Main
        <4>3. Type2(q.entity.tunnel) => ChainThere(q.id, q.entity)' /\ ExitThere(q.id, q.entity)'
          BY <3>2, <3>3, <4>1, <4>2 DEF ChainThere, ExitThere, Others
        <4> QED BY <2>3, <3>3, <3>4, <4>3 DEF Progress, ChainThere, ExitThere, EntryThere, Same
      <3>5. CASE l # "done"
        <4>1. Progress(v)'
          BY <2>3, <3>3, <3>5, Nothing
        <4> QED BY <2>3, <4>1 DEF Same
      <3> QED BY <3>4, <3>5
    <2>9. CASE \/ UndoChain(r) \/ UndoRemoteService(r) \/ DeleteOldService(r)
               \/ DeleteOldChain(r) \/ DeleteOldRemoteService(r)
      <3>1. PICK m : Goto(r, m) /\ m \in {"undoRemote", "remove", "error", "oldChain", "oldRemote",
                                          FirstCommand(q.entity.tunnel)}
        BY <2>9 DEF UndoChain, UndoRemoteService, DeleteOldService, DeleteOldChain, DeleteOldRemoteService, Failed
      <3>2. l = m
        BY <1>1, <2>1, <3>1, GotoLabel
      <3>3. Progress(v)'
        BY <2>3, <3>1, <3>2, Nothing DEF FirstCommand, Same
      <3> QED BY <2>3, <3>3 DEF Same
    <2>10. CASE DeleteMain(r) \/ DeleteChain(r) \/ DeleteRemote(r)
      <3>1. q.op = "delete"
        BY <1>1, <2>10 DEF DeleteMain, DeleteChain, DeleteRemote, Deletion
      <3>2. Progress(v)'
        BY <2>3, <3>1, Nothing DEF Same
      <3> QED BY <2>3, <3>2 DEF Same
    <2>11. ~(Remove(r) \/ CreateSucceeds(r) \/ UpdateSucceeds(r) \/ UpdateFails(r))
      BY <1>2 DEF Remove, CreateSucceeds, UpdateSucceeds, UpdateFails, Acknowledge
    <2> QED BY <1>5, <2>6, <2>7, <2>8, <2>9, <2>10, <2>11 DEF Continue
  <1> QED BY <1>3, <1>4, <1>5

\* What was sent is there when the request ends, and the table says so.
LEMMA Acknowledged ==
    ASSUME Typed, NEW r \in Requests, CreateSucceeds(r) \/ UpdateSucceeds(r), Undisturbed(r),
           NEW f, f = request[r].id
    PROVE  Settled(f)'
  <1>1. PICK q : q = request[r]
    OBVIOUS
  <1>2. q.pc = "done" /\ q # Idle /\ Finish(r) /\ UNCHANGED node
    BY <1>1 DEF CreateSucceeds, UpdateSucceeds, Acknowledge, Idle
  <1>3. Busy(f) = {r} /\ f \in Rows /\ f = q.id /\ Progress(q)
    BY <1>1 DEF Undisturbed
  <1>4. Busy(f)' = {}
    <2>1. \A g \in Requests : request'[g] = IF g = r THEN Idle ELSE request[g]
      BY <1>2 DEF Finish, Typed, TypeOK, RequestsOK
    <2> QED BY <1>3, <2>1 DEF Busy
  <1>5. /\ f \in Rows' /\ forward'[f].tunnel = q.entity.tunnel /\ forward'[f].in = q.entity.in
        /\ Type2(q.entity.tunnel) => forward'[f].out = q.entity.out
    <2>1. CASE CreateSucceeds(r)
      BY <1>1, <1>3, <2>1 DEF CreateSucceeds, Undisturbed, Rows
    <2>2. CASE UpdateSucceeds(r)
      <3>1. PICK e \in Row : /\ UpdateById(f, e) /\ Equipped(e)
                             /\ e.tunnel = q.entity.tunnel /\ e.in = q.entity.in /\ e.out = q.entity.out
        BY <1>1, <1>3, <2>2, UpdateWrites
      <3> QED BY <1>3, <3>1, UpdateTable
    <2> QED BY <2>1, <2>2
  <1>6. q.op # "delete"
    BY <1>1 DEF CreateSucceeds, UpdateSucceeds
  <1>7. /\ EntryThere(f, q.entity)
        /\ Type2(q.entity.tunnel) => ChainThere(f, q.entity) /\ ExitThere(f, q.entity)
    BY <1>2, <1>3, <1>6 DEF Progress
  <1>8. Served(f)'
    BY <1>2, <1>5, <1>7 DEF Served, EntryThere, ChainThere, ExitThere, node, serving
  <1> QED BY <1>4, <1>5, <1>8 DEF Settled

-----------------------------------------------------------------------------
\* Whoever is left alone keeps what it has.
LEMMA BusyAfter ==
    ASSUME Typed, NEW a \in Requests, NEW v, Becomes(a, v)
    PROVE  /\ request'[a] = v /\ \A r \in Requests \ {a} : request'[r] = request[r]
           /\ \A f : Busy(f)' = IF v # Idle /\ v.id = f THEN Busy(f) \cup {a} ELSE Busy(f) \ {a}
  <1>1. request'[a] = v /\ \A r \in Requests \ {a} : request'[r] = request[r]
    BY DEF Becomes, Typed, TypeOK, RequestsOK
  <1> QED BY <1>1 DEF Busy

LEMMA UndisturbedStays ==
    ASSUME NEW r, Undisturbed(r), request'[r] = request[r], Untouched(request[r].id),
           Busy(request[r].id)' = Busy(request[r].id)
    PROVE  Undisturbed(r)'
  <1>1. PICK q, f : q = request[r] /\ f = q.id
    OBVIOUS
  <1>2. Busy(f)' = {r} /\ f \in Rows' /\ forward'[f] = forward[f]
    BY <1>1 DEF Undisturbed, Untouched
  <1>3. Progress(q)'
    BY <1>1, UntouchedProgress DEF Undisturbed
  <1> QED BY <1>1, <1>2, <1>3 DEF Undisturbed

LEMMA SettledStays ==
    ASSUME NEW f, Settled(f), Untouched(f), Busy(f)' = {}
    PROVE  Settled(f)'
  BY UntouchedServed DEF Settled, Untouched

\* Who works alone on a forward has a row that nobody else removes.
LEMMA AloneFacts ==
    ASSUME Typed, Serving, NEW r \in Requests, Alone(r), NEW i, i = request[r].id
    PROVE  Undisturbed(r) /\ Busy(i) = {r} /\ i \in Rows /\ i \in 1..lastId
  BY RowFacts DEF Serving, Undisturbed

\* A request begins.
LEMMA StartServing ==
    ASSUME Typed, Serving, NEW a \in Requests, Start(a)
    PROVE  Serving'
  <1>1. PICK v \in Request : Started(a, v)
    BY Starts
  <1>2. /\ Becomes(a, v) /\ request[a] = Idle /\ acked' = acked \ {v.id}
        /\ mixed' = IF v.op = "create" \/ Busy(v.id) = {} THEN mixed \ {a} ELSE mixed \cup Busy(v.id) \cup {a}
        /\ Rows' = Rows
    BY <1>1, Starts DEF Started, Begin, Rows
  <1>3. /\ request'[a] = v /\ \A r \in Requests \ {a} : request'[r] = request[r]
        /\ \A f : Busy(f)' = IF v # Idle /\ v.id = f THEN Busy(f) \cup {a} ELSE Busy(f) \ {a}
    BY <1>2, BusyAfter
  <1>4. v # Idle
    <2>1. Idle.pc = "idle"
      BY DEF Idle
    <2> QED BY <1>1, <2>1 DEF Started
  <1>5. \A f : a \notin Busy(f)
    BY <1>2 DEF Busy
  <1>6. ASSUME NEW r \in Requests \ {a}, Alone(r)' PROVE Undisturbed(r)'
    <2>1. PICK i : i = request[r].id
      OBVIOUS
    <2>2. Alone(r)
      BY <1>2, <1>3, <1>6 DEF Alone, Live
    <2>3. Undisturbed(r) /\ Busy(i) = {r} /\ i \in Rows /\ i # 0
      BY <2>1, <2>2, AloneFacts DEF Alone
    <2>4. v.id # i
      <3>1. v.op = "create" => v.id = 0
        BY <1>1 DEF Started, Creation, Change, Deletion
      <3>2. r \notin mixed'
        BY <1>6 DEF Alone
      <3> QED BY <1>2, <2>3, <3>1, <3>2
    <2>5. Busy(i)' = Busy(i)
      BY <1>3, <1>5, <2>4
    <2>6. Untouched(i)
      BY <2>3, OthersUntouched
    <2> QED BY <1>3, <2>1, <2>3, <2>5, <2>6, UndisturbedStays
  <1>7. ASSUME Alone(a)' PROVE Undisturbed(a)'
    <2>1. a \notin mixed' /\ v.id # 0
      BY <1>3, <1>7 DEF Alone
    <2>2. v.op # "create" /\ v.id \in Rows
      BY <1>1, <2>1 DEF Started, Creation, Change, Deletion
    <2>3. Busy(v.id)' = {a}
      BY <1>2, <1>3, <1>4, <2>1, <2>2
    <2>4. v.pc = "ports" \/ v.op = "delete"
      BY <1>1 DEF Started, Deletion
    <2>5. Progress(v)'
      BY <2>4, Nothing
    <2> QED BY <1>2, <1>3, <2>2, <2>3, <2>5 DEF Undisturbed
  <1>8. ASSUME NEW f \in acked' PROVE Settled(f)'
    <2>1. Settled(f) /\ v.id # f
      BY <1>2, <1>8 DEF Serving
    <2>2. Untouched(f) /\ Busy(f)' = {}
      BY <1>3, <2>1, OthersUntouched DEF Settled
    <2> QED BY <2>1, <2>2, SettledStays
  <1> QED BY <1>6, <1>7, <1>8 DEF Serving

\* What a step of a request makes of its own record, when it goes on.
LEMMA OwnStep ==
    ASSUME Typed, Serving, NEW a \in Requests, Continue(a), NEW v, Becomes(a, v),
           v # Idle, v.id # 0, a \notin mixed
    PROVE  Undisturbed(a)'
  <1>1. PICK q : q = request[a]
    OBVIOUS
  <1>2. Live(a) /\ q # Idle
    BY <1>1 DEF Continue, Live
  <1>3. /\ request'[a] = v
        /\ \A f : Busy(f)' = IF v.id = f THEN Busy(f) \cup {a} ELSE Busy(f) \ {a}
    BY BusyAfter
  <1>4. CASE Save(a)
    <2>1. /\ v.id = lastId + 1 /\ v.entity = q.entity /\ v.pc = FirstCommand(q.entity.tunnel)
      <3>1. PICK w \in Creation : /\ Becomes(a, w) /\ w.id = lastId + 1
                                  /\ w.entity = q.entity /\ w.pc = FirstCommand(q.entity.tunnel)
        BY <1>1, <1>4, Saved
      <3> QED BY <1>3, <3>1, BusyAfter
    <2>2. v.id \in Rows' /\ forward'[v.id] = v.entity
      BY <1>1, <1>4, <2>1, SaveTable
    <2>3. Progress(v)'
      BY <2>1, Nothing DEF FirstCommand
    <2>4. Busy(v.id) = {}
      <3>1. \A r \in Busy(v.id) : request[r].id \in 0..lastId
        BY AtLabel DEF Busy
      <3> QED BY <2>1, <3>1, ForwardAssumption DEF Busy, Typed, TypeOK, TablesOK
    <2>5. Busy(v.id)' = {a}
      BY <1>3, <2>4
    <2> QED BY <1>3, <2>2, <2>3, <2>5 DEF Undisturbed
  <1>5. CASE ~Save(a)
    <2>1. v.id = q.id
      <3>1. PICK w : Becomes(a, w) /\ (w # Idle => Keeps(w, q))
        BY <1>1, <1>5, RequestKeeps
      <3> QED BY <1>3, <3>1, BusyAfter DEF Keeps
    <2>2. Undisturbed(a) /\ Busy(q.id) = {a} /\ q.id \in Rows
      BY <1>1, <1>2, <2>1, AloneFacts DEF Alone
    <2>3. Progress(q) /\ (q.op = "create" => forward[q.id] = q.entity)
      BY <1>1, <2>2 DEF Undisturbed
    <2>4. Progress(v)' /\ (v.op = "create" => v.entity = q.entity /\ q.op = "create")
      BY <1>1, <1>5, <2>3, ProgressStep
    <2>5. ~Finish(a)
      BY <1>3, BusyAfter DEF Finish, Becomes
    <2>6. forward' = forward
      BY <1>5, <2>5 DEF Continue, PortsOfNew, PortsOfUpdate, CreateChain, CreateRemoteService,
         CreateMainService, UndoChain, UndoRemoteService, Remove, CreateSucceeds, UpdateSucceeds,
         UpdateFails, Acknowledge, DeleteOldService, DeleteOldChain, DeleteOldRemoteService,
         DeleteMain, DeleteChain, DeleteRemote
    <2>7. Busy(v.id)' = {a}
      BY <1>3, <2>1, <2>2
    <2> QED BY <1>3, <2>1, <2>2, <2>3, <2>4, <2>6, <2>7 DEF Undisturbed, Rows
  <1> QED BY <1>4, <1>5

\* A request goes on.
LEMMA ContinueServing ==
    ASSUME Typed, Serving, NEW a \in Requests, Continue(a)
    PROVE  Serving'
  <1>1. PICK q : q = request[a]
    OBVIOUS
  <1>2. Live(a) /\ q # Idle /\ a \in Busy(q.id)
    BY <1>1 DEF Continue, Live, Busy
  <1>3. PICK v : Becomes(a, v) /\ (v # Idle => v.id = q.id \/ v.id = lastId + 1)
    <2>1. CASE Save(a)
      BY <1>1, <2>1, Saved
    <2>2. CASE ~Save(a)
      BY <1>1, <2>2, RequestKeeps DEF Keeps
    <2> QED BY <2>1, <2>2
  <1>4. /\ request'[a] = v /\ \A r \in Requests \ {a} : request'[r] = request[r]
        /\ \A f : Busy(f)' = IF v # Idle /\ v.id = f THEN Busy(f) \cup {a} ELSE Busy(f) \ {a}
    BY <1>3, BusyAfter
  <1>5. ASSUME NEW f \in Rows, f # q.id PROVE Untouched(f) /\ Busy(f)' = Busy(f)
    <2>1. Untouched(f)
      BY <1>1, <1>5, OthersUntouched
    <2>2. f # lastId + 1 /\ a \notin Busy(f)
      BY <1>1, <1>5, RowFacts, ForwardAssumption DEF Busy, Typed, TypeOK, TablesOK
    <2> QED BY <1>3, <1>4, <1>5, <2>1, <2>2
  <1>6. /\ mixed' = mixed
        /\ \/ acked' = acked
           \/ (CreateSucceeds(a) \/ UpdateSucceeds(a)) /\ acked' = IF a \in mixed THEN acked ELSE acked \cup {q.id}
    BY <1>1 DEF Continue, PortsOfNew, PortsOfUpdate, Save, CreateChain, CreateRemoteService,
       CreateMainService, UndoChain, UndoRemoteService, Remove, CreateSucceeds, UpdateSucceeds,
       UpdateFails, Acknowledge, DeleteOldService, DeleteOldChain, DeleteOldRemoteService,
       DeleteMain, DeleteChain, DeleteRemote, history
  <1>7. ASSUME NEW r \in Requests \ {a}, Alone(r)' PROVE Undisturbed(r)'
    <2>1. PICK i : i = request[r].id
      OBVIOUS
    <2>2. Alone(r)
      BY <1>4, <1>6, <1>7 DEF Alone, Live
    <2>3. Undisturbed(r) /\ Busy(i) = {r} /\ i \in Rows
      BY <2>1, <2>2, AloneFacts
    <2>4. i # q.id
      BY <1>2, <2>3
    <2>5. Untouched(i) /\ Busy(i)' = Busy(i)
      BY <1>5, <2>3, <2>4
    <2> QED BY <1>4, <2>1, <2>3, <2>5, UndisturbedStays
  <1>8. ASSUME Alone(a)' PROVE Undisturbed(a)'
    <2>1. v # Idle /\ v.id # 0 /\ a \notin mixed
      BY <1>4, <1>6, <1>8 DEF Alone, Live
    <2> QED BY <1>3, <2>1, OwnStep
  <1>9. ASSUME NEW f \in acked' PROVE Settled(f)'
    <2>1. CASE f \in acked
      <3>1. Settled(f) /\ f # q.id
        BY <1>2, <2>1 DEF Serving, Settled
      <3>2. Untouched(f) /\ Busy(f)' = {}
        BY <1>5, <3>1 DEF Settled
      <3> QED BY <3>1, <3>2, SettledStays
    <2>2. CASE f \notin acked
      <3>1. (CreateSucceeds(a) \/ UpdateSucceeds(a)) /\ a \notin mixed /\ f = q.id
        BY <1>6, <1>9, <2>2
      <3>2. q.id # 0
        <4>1. q.pc = "done" /\ q.op \in {"create", "update", "move"}
          BY <1>1, <3>1 DEF CreateSucceeds, UpdateSucceeds
        <4> QED BY <1>1, <1>2, <4>1, AtLabel DEF Sound
      <3>3. Undisturbed(a)
        BY <1>1, <1>2, <3>1, <3>2, AloneFacts DEF Alone
      <3> QED BY <1>1, <3>1, <3>3, Acknowledged
    <2> QED BY <2>1, <2>2
  <1> QED BY <1>7, <1>8, <1>9 DEF Serving

\* The table loses a row without a request.
LEMMA ForceServing ==
    ASSUME Typed, Serving, NEW g, ForceDeleteForward(g)
    PROVE  Serving'
  <1>1. request' = request /\ mixed' = mixed \cup Busy(g) /\ acked' = acked \ {g}
    BY DEF ForceDeleteForward
  <1>2. \A f : Busy(f)' = Busy(f)
    BY <1>1 DEF Busy
  <1>3. ASSUME NEW r \in Requests, Alone(r)' PROVE Undisturbed(r)'
    <2>1. PICK i : i = request[r].id
      OBVIOUS
    <2>2. Alone(r) /\ r \notin Busy(g)
      BY <1>1, <1>3 DEF Alone, Live
    <2>3. Undisturbed(r) /\ Busy(i) = {r} /\ i \in Rows
      BY <2>1, <2>2, AloneFacts
    <2>4. i # g
      BY <2>2, <2>3
    <2>5. Untouched(i)
      BY <2>3, <2>4, OthersUntouched
    <2> QED BY <1>1, <1>2, <2>1, <2>3, <2>5, UndisturbedStays
  <1>4. ASSUME NEW f \in acked' PROVE Settled(f)'
    <2>1. Settled(f) /\ f # g
      BY <1>1, <1>4 DEF Serving
    <2>2. Untouched(f) /\ Busy(f)' = {}
      BY <1>2, <2>1, OthersUntouched DEF Settled
    <2> QED BY <2>1, <2>2, SettledStays
  <1> QED BY <1>3, <1>4 DEF Serving

\* The clean-up, which deletes what belongs to nobody.
LEMMA CleanServing ==
    ASSUME Typed, Serving, (\E n \in Nodes : Clean(n)) \/ UNCHANGED vars
    PROVE  Serving'
  <1>1. request' = request /\ mixed' = mixed /\ acked' = acked
    BY DEF Clean, Report, Compare, DeleteOrphan, vars, history
  <1>2. \A f : Busy(f)' = Busy(f)
    BY <1>1 DEF Busy
  <1>3. \A f \in Rows : Untouched(f)
    BY OthersUntouched
  <1>4. ASSUME NEW r \in Requests, Alone(r)' PROVE Undisturbed(r)'
    <2>1. PICK i : i = request[r].id
      OBVIOUS
    <2>2. Alone(r)
      BY <1>1, <1>4 DEF Alone, Live
    <2>3. Undisturbed(r) /\ i \in Rows
      BY <2>1, <2>2, AloneFacts
    <2> QED BY <1>1, <1>2, <1>3, <2>1, <2>3, UndisturbedStays
  <1>5. ASSUME NEW f \in acked' PROVE Settled(f)'
    <2>1. Settled(f)
      BY <1>1, <1>5 DEF Serving
    <2>2. Untouched(f) /\ Busy(f)' = {}
      BY <1>2, <1>3, <2>1 DEF Settled
    <2> QED BY <2>1, <2>2, SettledStays
  <1> QED BY <1>4, <1>5 DEF Serving

\* A forward whose creation or update the panel answered with success is in the
\* table and served on its nodes as its row says, until somebody asks for
\* something else: undoing, moving, deleting and racing requests, and the
\* clean-up with its old report, only ever touch what is named after their own.
THEOREM AcknowledgedServed == Spec => []AckServed
  <1>1. Init => Serving
    BY DEF Init, Serving, Alone, Live
  <1>2. Typed /\ Serving /\ [Next]_vars => Serving'
    BY StartServing, ContinueServing, ForceServing, CleanServing DEF Next
  <1>3. Serving => AckServed
    BY DEF Serving, Settled, AckServed
  <1> QED BY <1>1, <1>2, <1>3, TypedInvariant, PTL DEF Spec
=============================================================================
