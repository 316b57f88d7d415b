---------------------------- MODULE ObjectConfig ----------------------------
(***************************************************************************)
(* Requests that create, update, delete and reload the named objects of a  *)
(* node: hops, chains, limiters, bypasses and the twelve other kinds of    *)
(* the web API (go-gost/x/api), and the chain and limiter commands of the  *)
(* panel (go-gost/x/socket).  Every request works on the registry of its   *)
(* kind and then on the configuration; no lock is held from one to the     *)
(* other, and gin runs every request in a goroutine of its own.            *)
(*                                                                         *)
(* The kinds do not touch each other's registry, so a behaviour follows    *)
(* one kind.  An object is the number of the request that built it, and a  *)
(* configuration entry is the number of the object that it describes.      *)
(*                                                                         *)
(* Left out: the contents of objects and entries; the order of entries of  *)
(* different names in the configuration; the name checks of the            *)
(* handlers; services, which have a module of their own.                   *)
(***************************************************************************)
EXTENDS Naturals, Sequences, FiniteSets

CONSTANTS
    Threads,    \* goroutines that serve requests
    Names,      \* names of objects
    Nothing,    \* no object
    Files,      \* what a reload may find in the configuration file: Seq(Names)
    MaxObjects  \* bound on the objects built

ObjectAssumption ==
    /\ MaxObjects \in Nat
    /\ Nothing \notin Nat
    /\ Files \subseteq Seq(Names)

ApiKinds == {"admission", "auther", "bypass", "chain", "climiter", "hop",
             "hosts", "ingress", "limiter", "observer", "recorder",
             "resolver", "rlimiter", "router", "sd"}
SocketKinds == {"socket chain", "socket limiter"}
Kinds == ApiKinds \cup SocketKinds

\* Kinds whose parser returns an error, and kinds whose objects have a Close.
Fallible == {"chain", "hop", "resolver", "socket chain"}
Closers == Kinds \ {"chain", "resolver", "socket chain"}

VARIABLES
    kind,    \* the kind of object this behaviour is about
    reg,     \* the registry of that kind
    closed,  \* objects whose Close was called
    cfg,     \* the section of that kind in the configuration: every name's entries
    built,   \* number of objects built so far
    req,     \* what every thread is doing
    mixed    \* history: names that overlapping requests or a reload that
             \* stopped half-way may have left inconsistent

objectVars == <<kind, reg, closed, cfg, built, req, mixed>>

Object == 1..MaxObjects
Entry == [name : Names, obj : Object]
Resting == [op |-> "none", name |-> Nothing, pc |-> "idle", new |-> Nothing, gone |-> {},
            todo |-> <<>>, alone |-> TRUE]

Busy(t) == req[t].pc # "idle"
Reloading(t) == Busy(t) /\ req[t].op = "reload"

\* Threads whose request may touch name n.
Touching(n) == {t \in Threads : Busy(t) /\ (req[t].op = "reload" \/ req[t].name = n)}

\* registry.Unregister closes what it found.
Closing(n) == IF kind \in Closers THEN closed \cup {reg[n]} ELSE closed

Advance(t, label) == req' = [req EXCEPT ![t].pc = label]
Leave(t) == req' = [req EXCEPT ![t] = Resting]

ObjectInit ==
    /\ kind \in Kinds
    /\ reg = [n \in Names |-> Nothing]
    /\ closed = {}
    /\ cfg = [n \in Names |-> <<>>]
    /\ built = 0
    /\ req = [t \in Threads |-> Resting]
    /\ mixed = {}

-----------------------------------------------------------------------------
(***************************************************************************)
(* The three requests.  Begin is the check of the registry and the         *)
(* parsing, which builds the new object and touches nothing shared.        *)
(***************************************************************************)
Begin(t, op, n, label) ==
    /\ ~Busy(t)
    /\ built < MaxObjects
    /\ built' = IF op = "delete" THEN built ELSE built + 1
    /\ req' = [u \in Threads |->
                  IF u = t
                  THEN [Resting EXCEPT !.op = op, !.name = n, !.pc = label,
                                       !.new = IF op = "delete" THEN Nothing ELSE built + 1]
                  ELSE IF Reloading(u) THEN [req[u] EXCEPT !.alone = FALSE] ELSE req[u]]
    /\ mixed' = IF Touching(n) = {} THEN mixed ELSE mixed \cup {n}
    /\ UNCHANGED <<kind, reg, closed, cfg>>

create(t) == \E n \in Names : reg[n] = Nothing /\ Begin(t, "create", n, "register")
update(t) == \E n \in Names : reg[n] # Nothing /\ Begin(t, "update", n, "unload")
delete(t) == \E n \in Names : reg[n] # Nothing /\ Begin(t, "delete", n, "unload")

\* updateX of the socket when the name is registered, createX otherwise.
upsert(t) == create(t) \/ update(t)

\* Parsing can fail for the kinds whose parser returns an error: the request
\* is answered with an error and nothing has changed.
parseFails(t) == ~Busy(t) /\ UNCHANGED objectVars

\* registry.Unregister, first half: the object is looked up and closed.
Unload(t) ==
    /\ req[t].pc = "unload"
    /\ IF reg[req[t].name] = Nothing
       THEN Advance(t, IF req[t].op = "delete" THEN "config" ELSE "register") /\ UNCHANGED closed
       ELSE /\ Advance(t, "drop")
            /\ closed' = Closing(req[t].name)
    /\ UNCHANGED <<kind, reg, cfg, built, mixed>>

\* Mutant of Drop: Unregister forgets to remove the name.
DropKept(t) ==
    /\ req[t].pc = "drop"
    /\ Advance(t, IF req[t].op = "delete" THEN "config" ELSE "register")
    /\ UNCHANGED <<kind, reg, closed, cfg, built, mixed>>

\* ... second half: whatever has that name now leaves the registry.
Drop(t) ==
    /\ req[t].pc = "drop"
    /\ reg' = [reg EXCEPT ![req[t].name] = Nothing]
    /\ Advance(t, IF req[t].op = "delete" THEN "config" ELSE "register")
    /\ UNCHANGED <<kind, closed, cfg, built, mixed>>

\* registry.Register: LoadOrStore; the loser of a race gets ErrDup, answers
\* with an error and leaves the configuration alone.
Enter(t) ==
    /\ req[t].pc = "register"
    /\ IF reg[req[t].name] = Nothing
       THEN Advance(t, "config") /\ reg' = [reg EXCEPT ![req[t].name] = req[t].new]
       ELSE Leave(t) /\ UNCHANGED reg
    /\ UNCHANGED <<kind, closed, cfg, built, mixed>>

Written(r) ==
    [cfg EXCEPT ![r.name] =
        CASE r.op = "create" -> Append(@, r.new)
          [] r.op = "update" -> IF @ = <<>> THEN @ ELSE [@ EXCEPT ![1] = r.new]
          [] OTHER -> <<>>]

\* Mutant of Write: an update appends the new entry and keeps the old one.
WriteAppend(t) ==
    /\ req[t].pc = "config"
    /\ cfg' = IF req[t].op = "update"
              THEN [cfg EXCEPT ![req[t].name] = Append(@, req[t].new)]
              ELSE Written(req[t])
    /\ Leave(t)
    /\ UNCHANGED <<kind, reg, closed, built, mixed>>

\* config.OnUpdate: under its lock, create appends an entry, update replaces
\* the first entry of that name, delete removes all of them.
Write(t) ==
    /\ req[t].pc = "config"
    /\ cfg' = Written(req[t])
    /\ Leave(t)
    /\ UNCHANGED <<kind, reg, closed, built, mixed>>

\* The requests every kind has.
Handlers(t) ==
    \/ create(t) \/ update(t) \/ delete(t)
    \/ Unload(t) \/ Drop(t) \/ Enter(t) \/ Write(t)

-----------------------------------------------------------------------------
(***************************************************************************)
(* The handlers of the kinds.                                              *)
(***************************************************************************)
Admission(t) == kind = "admission" /\ Handlers(t)
Auther(t) == kind = "auther" /\ Handlers(t)
Bypass(t) == kind = "bypass" /\ Handlers(t)
Chain(t) == kind = "chain" /\ (parseFails(t) \/ Handlers(t))
ConnLimiter(t) == kind = "climiter" /\ Handlers(t)
Hop(t) == kind = "hop" /\ (parseFails(t) \/ Handlers(t))
Hosts(t) == kind = "hosts" /\ Handlers(t)
Ingress(t) == kind = "ingress" /\ Handlers(t)
TrafficLimiter(t) == kind = "limiter" /\ Handlers(t)
Observer(t) == kind = "observer" /\ Handlers(t)
Recorder(t) == kind = "recorder" /\ Handlers(t)
Resolver(t) == kind = "resolver" /\ (parseFails(t) \/ Handlers(t))
RateLimiter(t) == kind = "rlimiter" /\ Handlers(t)
Router(t) == kind = "router" /\ Handlers(t)
SD(t) == kind = "sd" /\ Handlers(t)
SocketChain(t) == kind = "socket chain" /\ (upsert(t) \/ parseFails(t) \/ Handlers(t))
SocketLimiter(t) == kind = "socket limiter" /\ (upsert(t) \/ Handlers(t))

-----------------------------------------------------------------------------
(***************************************************************************)
(* reloadConfig: the file replaces the whole configuration; then, kind by  *)
(* kind, loader.register empties the registry and fills it from the file,  *)
(* and stops at the first object it cannot build or register.              *)
(***************************************************************************)
FileEntries(f) == [k \in 1..Len(f) |-> [name |-> f[k], obj |-> built + k]]

\* The entries of name n in a list, in their order.
ObjectsOf(list, n) == {list[k].obj : k \in {j \in DOMAIN list : list[j].name = n}}
InOrder(S) == CHOOSE s \in [1..Cardinality(S) -> S] : \A i, j \in DOMAIN s : i < j => s[i] < s[j]

\* The file is parsed and becomes the configuration (config.Set).
reloadConfig(t) ==
    \E f \in Files :
        /\ ~Busy(t)
        /\ built + Len(f) <= MaxObjects
        /\ built' = built + Len(f)
        /\ cfg' = [n \in Names |-> InOrder(ObjectsOf(FileEntries(f), n))]
        /\ req' = [u \in Threads |->
                     IF u = t
                     THEN [Resting EXCEPT !.op = "reload", !.pc = "getall", !.todo = FileEntries(f),
                                          !.alone = \A v \in Threads : ~Busy(v)]
                     ELSE IF Reloading(u) THEN [req[u] EXCEPT !.alone = FALSE] ELSE req[u]]
        /\ mixed' = Names
        /\ UNCHANGED <<kind, reg, closed>>

\* An object of an earlier section could not be built: this section keeps its
\* old objects although the configuration is already the new one.
LoadStops(t) ==
    /\ req[t].pc = "getall"
    /\ Leave(t)
    /\ UNCHANGED <<kind, reg, closed, cfg, built, mixed>>

\* GetAll of the registry: the names to unregister.
GetAll(t) ==
    /\ req[t].pc = "getall"
    /\ req' = [req EXCEPT ![t].pc = "clear", ![t].gone = {n \in Names : reg[n] # Nothing}]
    /\ UNCHANGED <<kind, reg, closed, cfg, built, mixed>>

\* Unregister of one of these names, in the two halves of Unload and Drop.
ClearUnload(t) ==
    /\ req[t].pc = "clear"
    /\ \E n \in req[t].gone :
          IF reg[n] = Nothing
          THEN req' = [req EXCEPT ![t].gone = @ \ {n}] /\ UNCHANGED closed
          ELSE req' = [req EXCEPT ![t].pc = "clear drop", ![t].name = n] /\ closed' = Closing(n)
    /\ UNCHANGED <<kind, reg, cfg, built, mixed>>

ClearDrop(t) ==
    /\ req[t].pc = "clear drop"
    /\ reg' = [reg EXCEPT ![req[t].name] = Nothing]
    /\ req' = [req EXCEPT ![t].pc = "clear", ![t].gone = @ \ {req[t].name}]
    /\ UNCHANGED <<kind, closed, cfg, built, mixed>>

\* The next object of the file is built and registered; the load ends early
\* when the parser fails or the name is taken.
Fill(t) ==
    /\ req[t].pc = "clear" /\ req[t].gone = {} /\ req[t].todo # <<>>
    /\ LET e == Head(req[t].todo)
       IN \/ /\ reg[e.name] = Nothing
             /\ reg' = [reg EXCEPT ![e.name] = e.obj]
             /\ req' = [req EXCEPT ![t].todo = Tail(@)]
          \/ /\ reg[e.name] # Nothing \/ kind \in Fallible
             /\ Leave(t)
             /\ UNCHANGED reg
    /\ UNCHANGED <<kind, closed, cfg, built, mixed>>

\* The load is complete.
Filled(t) ==
    /\ req[t].pc = "clear" /\ req[t].gone = {} /\ req[t].todo = <<>>
    /\ Leave(t)
    /\ mixed' = IF req[t].alone THEN {} ELSE mixed
    /\ UNCHANGED <<kind, reg, closed, cfg, built>>

Reload(t) ==
    \/ reloadConfig(t) \/ LoadStops(t) \/ GetAll(t) \/ ClearUnload(t)
    \/ ClearDrop(t) \/ Fill(t) \/ Filled(t)

ObjectNext ==
    \E t \in Threads :
        \/ Admission(t) \/ Auther(t) \/ Bypass(t) \/ Chain(t) \/ ConnLimiter(t)
        \/ Hop(t) \/ Hosts(t) \/ Ingress(t) \/ TrafficLimiter(t) \/ Observer(t)
        \/ Recorder(t) \/ Resolver(t) \/ RateLimiter(t) \/ Router(t) \/ SD(t)
        \/ SocketChain(t) \/ SocketLimiter(t) \/ Reload(t)

ObjectSpec == ObjectInit /\ [][ObjectNext]_objectVars

-----------------------------------------------------------------------------
(***************************************************************************)
(* Properties.                                                             *)
(***************************************************************************)

Request ==
    [op : {"none", "create", "update", "delete", "reload"}, name : Names \cup {Nothing},
     pc : {"idle", "unload", "drop", "register", "config", "getall", "clear", "clear drop"},
     new : Object \cup {Nothing}, gone : SUBSET Names, todo : Seq(Entry), alone : BOOLEAN]

\* Type invariant.
ObjectTypeOK ==
    /\ kind \in Kinds
    /\ reg \in [Names -> Object \cup {Nothing}]
    /\ closed \subseteq Object
    /\ cfg \in [Names -> Seq(Object)]
    /\ built \in 0..MaxObjects
    /\ req \in [Threads -> Request]
    /\ mixed \subseteq Names

\* Requests on different names do not disturb each other, although none holds a
\* lock over both stores: a name whose requests never overlapped, and that no
\* unfinished reload touched, is registered exactly when it has an entry, has
\* one entry, and the registered object is the one the entry describes.
Consistent ==
    \A n \in Names \ mixed :
        Touching(n) = {} => cfg[n] = IF reg[n] = Nothing THEN <<>> ELSE <<reg[n]>>

\* However requests overlap, a closed object is never left in the registry: the
\* request that closed it is about to remove that name.
ClosedLeaves ==
    \A n \in Names :
        reg[n] \in closed =>
            \E t \in Threads : req[t].pc \in {"drop", "clear drop"} /\ req[t].name = n
=============================================================================
