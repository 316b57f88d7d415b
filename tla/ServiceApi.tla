----------------------------- MODULE ServiceApi -----------------------------
(***************************************************************************)
(* The services part of a node's web API (go-gost/x/api/config_service):   *)
(* create, update, delete, pause and resume, each for one service and for  *)
(* a batch.  Unlike the commands of the panel (NodeAgent), requests run    *)
(* concurrently: gin gives each a goroutine, and nothing is locked between *)
(* the registry and the configuration.                                     *)
(*                                                                         *)
(* A service is known by its place in svcs, the order in which services    *)
(* were built.  Building one (ParseService) binds its listener, so it      *)
(* needs an address no open service holds.                                 *)
(*                                                                         *)
(* Left out: empty names and empty lists, which are refused at once; what  *)
(* tcpkill does to connections; the order of entries of different names;   *)
(* getServiceStatus, which changes nothing.                                *)
(***************************************************************************)
EXTENDS Naturals, Sequences, FiniteSets

CONSTANTS
    Workers,    \* goroutines that serve requests
    Services,   \* service names
    Addrs,      \* addresses
    NoService,  \* no service
    Lists,      \* the lists requests may carry
    MaxBuilt    \* bound on the services built

Item == [name : Services, addr : Addrs]

\* Requests name a service once.
ASSUME ServiceAssumption ==
    /\ NoService \notin Nat /\ MaxBuilt \in Nat
    /\ \A l \in Lists : /\ l \in Seq(Item)
                        /\ \A j, k \in DOMAIN l : l[j].name = l[k].name => j = k

VARIABLES
    svcs,      \* the services built so far
    registry,  \* registry.ServiceRegistry()
    entries,   \* config.Global().Services: every name's entries
    work,      \* what every goroutine is doing
    leaked,    \* services a failed request left open and forgot
    crossed    \* history: names with overlapping requests, or with a request
               \* that failed half-way

serviceVars == <<svcs, registry, entries, work, leaked, crossed>>

Ids == 1..MaxBuilt
Service == [name : Services, addr : Addrs, open : BOOLEAN, served : Nat]
ConfigEntry == [addr : Addrs, paused : BOOLEAN]
Waiting == [op |-> "none", batch |-> FALSE, items |-> <<>>, i |-> 1, pc |-> "idle",
            made |-> <<>>, new |-> NoService]

Working(t) == work[t].pc # "idle"
NamesIn(l) == {l[k].name : k \in DOMAIN l}
WorkersAt(n) == {t \in Workers : Working(t) /\ n \in NamesIn(work[t].items)}

Cur(t) == work[t].items[work[t].i]
More(t) == work[t].i <= Len(work[t].items)
Before(t) == {work[t].items[k].name : k \in 1..(work[t].i - 1)}

ServiceInit ==
    /\ svcs = <<>>
    /\ registry = [n \in Services |-> NoService]
    /\ entries = [n \in Services |-> <<>>]
    /\ work = [t \in Workers |-> Waiting]
    /\ leaked = {}
    /\ crossed = {}

Proceed(t, label) == work' = [work EXCEPT ![t].pc = label]
Answer(t) == work' = [work EXCEPT ![t] = Waiting]

\* Mutant of Shut: Close ends the handler and not the listener.
ShutHandler(s, S) == s

\* The services of list s in set S are closed: their listeners are.
Shut(s, S) == [k \in DOMAIN s |-> IF k \in S THEN [s[k] EXCEPT !.open = FALSE] ELSE s[k]]
Serve(S) == [k \in DOMAIN svcs |-> IF k \in S THEN [svcs[k] EXCEPT !.served = @ + 1] ELSE svcs[k]]

\* ParseService succeeded: a new service, listening and not yet served.
Built(it) == Append(svcs, [name |-> it.name, addr |-> it.addr, open |-> TRUE, served |-> 0])
Free(a) == \A k \in DOMAIN svcs : svcs[k].open => svcs[k].addr # a
Room == Len(svcs) < MaxBuilt

\* ParseService failed: before it bound the listener, or after, in which case
\* the listener stays open and nobody has it.
ParseFails(it, lost) ==
    \/ svcs' = svcs /\ leaked' = leaked \cup lost
    \/ Room /\ Free(it.addr) /\ svcs' = Built(it) /\ leaked' = leaked \cup lost \cup {Len(svcs) + 1}

\* The first entry of every name in S is marked as paused, or as not paused.
Marked(S, p) ==
    [n \in Services |-> IF n \in S /\ entries[n] # <<>> THEN [entries[n] EXCEPT ![1].paused = p]
                                                        ELSE entries[n]]

-----------------------------------------------------------------------------
\* A request arrives and passes its checks.  Names another request is at are
\* crossed from now on.
Start(t, op, batch, l, label) ==
    /\ ~Working(t)
    /\ work' = [work EXCEPT ![t] = [Waiting EXCEPT !.op = op, !.batch = batch, !.items = l, !.pc = label]]
    /\ crossed' = crossed \cup {n \in NamesIn(l) : WorkersAt(n) # {}}
    /\ UNCHANGED <<svcs, registry, entries, leaked>>

createService(t) == \E l \in Lists : Len(l) = 1 /\ Start(t, "create", FALSE, l, "check")
createServices(t) == \E l \in Lists : Start(t, "create", TRUE, l, "check")

Registered(l) == \A n \in NamesIn(l) : registry[n] # NoService

updateService(t) == \E l \in Lists : Len(l) = 1 /\ Registered(l) /\ Start(t, "update", FALSE, l, "close")
updateServices(t) == \E l \in Lists : Registered(l) /\ Start(t, "update", TRUE, l, "close")

\* deleteService is deleteServices of one.
deleteServices(t) == \E l \in Lists : Registered(l) /\ Start(t, "delete", TRUE, l, "close")

\* pauseService marks the entry if there is one.
pauseService(t) == \E l \in Lists : Len(l) = 1 /\ Registered(l) /\ Start(t, "pause", FALSE, l, "config")

\* The list of the items of l at the places in S.
Places(S) == {s \in [1..Cardinality(S) -> S] : \A j, k \in DOMAIN s : j < k => s[j] < s[k]}
Only(l, S) == {[k \in DOMAIN s |-> l[s[k]]] : s \in Places(S)}

IsPaused(n) == entries[n] # <<>> /\ entries[n][1].paused

\* pauseServices leaves out what is paused already; when an entry is missing
\* its rollback builds the services paused before a second time, and since
\* their addresses are taken and their names registered, nothing comes of it.
pauseServices(t) ==
    \E l \in Lists :
        /\ Registered(l)
        /\ \A n \in NamesIn(l) : entries[n] # <<>>
        /\ \E running \in Only(l, {k \in DOMAIN l : ~IsPaused(l[k].name)}) :
               Start(t, "pause", TRUE, running, "config")

\* The addresses a resume will use are the ones of the entries.
FromConfig(l) == [k \in DOMAIN l |-> [name |-> l[k].name, addr |-> entries[l[k].name][1].addr]]

resumeService(t) ==
    \E l \in Lists :
        Len(l) = 1 /\ Registered(l) /\ IsPaused(l[1].name) /\ Start(t, "resume", FALSE, FromConfig(l), "close")

resumeServices(t) ==
    \E l \in Lists :
        /\ Registered(l)
        /\ \A n \in NamesIn(l) : entries[n] # <<>>
        /\ \E paused \in Only(l, {k \in DOMAIN l : IsPaused(l[k].name)}) :
               Start(t, "resume", TRUE, FromConfig(paused), "close")

-----------------------------------------------------------------------------
MadeBy(t) == {work[t].made[k] : k \in DOMAIN work[t].made}

\* create: each item is checked and parsed.  When one of them fails, the
\* services parsed before it stay open.
CreateParse(t) ==
    /\ work[t].pc = "check" /\ More(t)
    /\ \/ /\ registry[Cur(t).name] = NoService /\ Room /\ Free(Cur(t).addr)
          /\ svcs' = Built(Cur(t))
          /\ work' = [work EXCEPT ![t].i = @ + 1, ![t].made = Append(@, Len(svcs) + 1)]
          /\ UNCHANGED leaked
       \/ registry[Cur(t).name] = NoService /\ ParseFails(Cur(t), MadeBy(t)) /\ Answer(t)
       \/ registry[Cur(t).name] # NoService /\ svcs' = svcs /\ leaked' = leaked \cup MadeBy(t) /\ Answer(t)
    /\ UNCHANGED <<registry, entries, crossed>>

CreateParsed(t) ==
    /\ work[t].pc = "check" /\ ~More(t)
    /\ work' = [work EXCEPT ![t].pc = "enter", ![t].i = 1]
    /\ UNCHANGED <<svcs, registry, entries, leaked, crossed>>

\* create: Register of each.  A duplicate makes the single request close its
\* service; the batch takes back the names it registered, closing whatever
\* has them, and forgets the services it had not registered.
CreateRegister(t) ==
    /\ work[t].pc = "enter" /\ More(t)
    /\ LET n == Cur(t).name
           made == work[t].made
       IN IF registry[n] = NoService
          THEN /\ registry' = [registry EXCEPT ![n] = made[work[t].i]]
               /\ work' = [work EXCEPT ![t].i = @ + 1]
               /\ UNCHANGED <<svcs, leaked>>
          ELSE /\ registry' = [m \in Services |-> IF m \in Before(t) THEN NoService ELSE registry[m]]
               /\ svcs' = Shut(svcs, IF work[t].batch THEN {registry[m] : m \in Before(t)} ELSE {made[1]})
               /\ leaked' = IF work[t].batch THEN leaked \cup {made[k] : k \in work[t].i..Len(made)} ELSE leaked
               /\ Answer(t)
    /\ UNCHANGED <<entries, crossed>>

\* create: go Serve - the batch serves whatever is registered by now.
CreateServe(t) ==
    /\ work[t].pc = "enter" /\ ~More(t)
    /\ svcs' = Serve(IF work[t].batch THEN {registry[n] : n \in NamesIn(work[t].items)} ELSE {work[t].made[1]})
    /\ Proceed(t, "config")
    /\ UNCHANGED <<registry, entries, leaked, crossed>>

-----------------------------------------------------------------------------
\* update, delete, resume: the service registered under the next name is
\* closed - the one the request looked up; where another has taken its place,
\* that one's turn is in the code a step later, in Unregister.  updateServices looks it up again and dies of a nil pointer, which
\* gin recovers, when the name is gone by then.
CloseOld(t) ==
    /\ work[t].pc = "close" /\ More(t)
    /\ LET n == Cur(t).name
       IN IF work[t].op = "update" /\ work[t].batch /\ registry[n] = NoService
          THEN Answer(t) /\ crossed' = crossed \cup NamesIn(work[t].items) /\ UNCHANGED svcs
          ELSE svcs' = Shut(svcs, {registry[n]}) /\ Proceed(t, "drop") /\ UNCHANGED crossed
    /\ UNCHANGED <<registry, entries, leaked>>

\* Mutant of Unregister: the name stays registered.
UnregisterNot(t) ==
    /\ work[t].pc = "drop"
    /\ IF work[t].op = "delete"
       THEN work' = [work EXCEPT ![t].i = @ + 1, ![t].pc = "close"]
       ELSE Proceed(t, "parse")
    /\ svcs' = Shut(svcs, {registry[Cur(t).name]})
    /\ UNCHANGED <<registry, entries, leaked, crossed>>

\* What is registered under the name now is closed, once more if it is the
\* same service, and leaves the registry; then, for update and resume, a pause
\* of half a second for the port to become free.
Unregister(t) ==
    /\ work[t].pc = "drop"
    /\ svcs' = Shut(svcs, {registry[Cur(t).name]})
    /\ registry' = [registry EXCEPT ![Cur(t).name] = NoService]
    /\ IF work[t].op = "delete"
       THEN work' = [work EXCEPT ![t].i = @ + 1, ![t].pc = "close"]
       ELSE Proceed(t, "parse")
    /\ UNCHANGED <<entries, leaked, crossed>>

\* What a request that fails at its i-th service leaves behind, after services
\* s were built: the name is gone from the registry and kept in the
\* configuration, and updateServices has not written the entries of the
\* services it did update.  resumeServices closes the services it resumed
\* before, if they are registered, and marks their entries as paused again.
Fails(t, s) ==
    /\ IF work[t].op = "resume" /\ work[t].batch
       THEN svcs' = Shut(s, {registry[n] : n \in Before(t)}) /\ entries' = Marked(Before(t), TRUE)
       ELSE svcs' = s /\ UNCHANGED entries
    /\ crossed' = crossed \cup {Cur(t).name} \cup (IF work[t].op = "update" THEN Before(t) ELSE {})
    /\ Answer(t)

Reparse(t) ==
    /\ work[t].pc = "parse"
    /\ \/ /\ Room /\ Free(Cur(t).addr)
          /\ svcs' = Built(Cur(t))
          /\ work' = [work EXCEPT ![t].new = Len(svcs) + 1, ![t].pc = "register"]
          /\ UNCHANGED <<leaked, crossed, entries>>
       \/ Fails(t, svcs) /\ UNCHANGED leaked
       \/ Room /\ Free(Cur(t).addr) /\ Fails(t, Built(Cur(t))) /\ leaked' = leaked \cup {Len(svcs) + 1}
    /\ UNCHANGED registry

\* Register and go Serve, or close the new service when the name was taken.
Register(t) ==
    /\ work[t].pc = "register"
    /\ IF registry[Cur(t).name] = NoService
       THEN /\ registry' = [registry EXCEPT ![Cur(t).name] = work[t].new]
            /\ svcs' = Serve({work[t].new})
            /\ work' = [work EXCEPT ![t].i = @ + 1, ![t].pc = "close", ![t].new = NoService]
            /\ UNCHANGED <<entries, crossed>>
       ELSE Fails(t, Shut(svcs, {work[t].new})) /\ UNCHANGED registry
    /\ UNCHANGED leaked

\* Mutant of LoopDone: the index moves on once more.
LoopDoneAdvance(t) ==
    /\ work[t].pc = "close" /\ ~More(t)
    /\ work' = [work EXCEPT ![t].pc = "config", ![t].i = @ + 1]
    /\ UNCHANGED <<svcs, registry, entries, leaked, crossed>>

LoopDone(t) ==
    /\ work[t].pc = "close" /\ ~More(t)
    /\ Proceed(t, "config")
    /\ UNCHANGED <<svcs, registry, entries, leaked, crossed>>

-----------------------------------------------------------------------------
\* The entry that list l makes for name n.
Described(l, n) == [addr |-> (CHOOSE it \in {l[k] : k \in DOMAIN l} : it.name = n).addr, paused |-> FALSE]

Appended(l) ==
    [n \in Services |-> IF n \in NamesIn(l) THEN Append(entries[n], Described(l, n)) ELSE entries[n]]

\* The first entry of every name in l is replaced by the item's.
Replaced(l) ==
    [n \in Services |-> IF n \in NamesIn(l) /\ entries[n] # <<>>
                        THEN [entries[n] EXCEPT ![1] = Described(l, n)]
                        ELSE entries[n]]

Removed(l) == [n \in Services |-> IF n \in NamesIn(l) THEN <<>> ELSE entries[n]]

\* config.OnUpdate, under its lock, and the answer OK.
WriteConfig(t) ==
    /\ work[t].pc = "config"
    /\ LET l == work[t].items
       IN entries' = CASE work[t].op = "create" -> Appended(l)
                       [] work[t].op = "update" -> Replaced(l)
                       [] work[t].op = "delete" -> Removed(l)
                       [] work[t].op = "pause" -> Marked(NamesIn(l), TRUE)
                       [] OTHER -> Marked(NamesIn(l), FALSE)
    /\ Answer(t)
    /\ UNCHANGED <<svcs, registry, leaked, crossed>>

Step(t) ==
    \/ CreateParse(t) \/ CreateParsed(t) \/ CreateRegister(t) \/ CreateServe(t)
    \/ CloseOld(t) \/ Unregister(t) \/ Reparse(t) \/ Register(t) \/ LoopDone(t) \/ WriteConfig(t)

ServiceNext ==
    \E t \in Workers :
        \/ createService(t) \/ createServices(t) \/ updateService(t) \/ updateServices(t)
        \/ deleteServices(t) \/ pauseService(t) \/ pauseServices(t)
        \/ resumeService(t) \/ resumeServices(t)
        \/ Step(t)

ServiceSpec == ServiceInit /\ [][ServiceNext]_serviceVars

-----------------------------------------------------------------------------
(***************************************************************************)
(* Properties.                                                             *)
(***************************************************************************)

Work ==
    [op : {"none", "create", "update", "delete", "pause", "resume"}, batch : BOOLEAN, items : Seq(Item),
     i : Nat, pc : {"idle", "check", "enter", "close", "drop", "parse", "register", "config"},
     made : Seq(Ids), new : Ids \cup {NoService}]

\* Type invariant; a loop's index stays within its list and one beyond.
ServiceTypeOK ==
    /\ svcs \in Seq(Service) /\ Len(svcs) <= MaxBuilt
    /\ registry \in [Services -> Ids \cup {NoService}]
    /\ entries \in [Services -> Seq(ConfigEntry)]
    /\ work \in [Workers -> Work]
    /\ leaked \subseteq DOMAIN svcs
    /\ crossed \subseteq Services
    /\ \A t \in Workers : work[t].i \in 1..(Len(work[t].items) + 1)

\* What a name looks like to whoever reads the registry and the configuration.
Agrees(n) ==
    IF registry[n] = NoService
    THEN entries[n] = <<>>
    ELSE /\ Len(entries[n]) = 1
         /\ svcs[registry[n]].name = n
         /\ svcs[registry[n]].addr = entries[n][1].addr
         /\ svcs[registry[n]].served = 1
         /\ ~entries[n][1].paused => svcs[registry[n]].open

\* Requests for different services may run at once, in whatever batches: a name
\* whose own requests did not overlap or fail half-way is registered and open
\* at the address of its only entry and served once, or in neither store.
Undisturbed == \A n \in Services \ crossed : WorkersAt(n) = {} => Agrees(n)

\* Services a request has built and not yet registered.
Held == UNION {MadeBy(t) \cup {work[t].new} : t \in Workers}

\* Nobody is left with a port that no request can free: an open service is
\* registered, or a request is about to register it, or it is one that a failed
\* parse or batch left behind - unless requests for its name overlapped.
Owned ==
    \A k \in DOMAIN svcs :
        svcs[k].open => k \in leaked \cup Held \/ registry[svcs[k].name] = k \/ svcs[k].name \in crossed
=============================================================================
