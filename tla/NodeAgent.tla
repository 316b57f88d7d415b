----------------------------- MODULE NodeAgent -----------------------------
(***************************************************************************)
(* The command side of the node agent (go-gost/x/socket): the service      *)
(* registry, the in-memory configuration, the file gost.json that survives *)
(* a crash, and the single goroutine that executes the panel's commands.   *)
(*                                                                         *)
(* A service name is e.g. "12_3_0_tcp"; an address is a (protocol, port)   *)
(* pair, so that ParseService succeeds only on an address nobody holds.    *)
(* A handler is a chain of steps driven by pc, because ParseService may    *)
(* fail and the process may be killed at every one of them.                *)
(*                                                                         *)
(* Left out: chains and limiters (same create/update/delete pattern),      *)
(* SetProtocol and TcpPing, and SIGHUP reload.                             *)
(***************************************************************************)
EXTENDS Naturals, Sequences

CONSTANTS
    Svc,        \* service names
    Addr,       \* addresses a service can listen on
    NoAddr,     \* "holds no listener"
    Messages,   \* the messages the panel may send: sequences of commands
    MaxEntries, \* bound: no message is taken while a name has more entries
    MaxUnsaved  \* bound on the saves of gost.json that fail one after another

Ops == {"Add", "Update", "Upsert", "Delete", "Pause", "Resume"}
Item == [name : Svc, addr : Addr]
Command == [op : Ops, items : Seq(Item)]
Entry == [addr : Addr, paused : BOOLEAN]

\* A message has at least one command, a command at least one item, and a
\* command names a service once, as every command builder of the panel does.
ASSUME AgentAssumption ==
    /\ NoAddr \notin Addr
    /\ MaxEntries \in Nat
    /\ MaxUnsaved \in Nat
    /\ Messages \subseteq Seq(Command)
    /\ \A m \in Messages :
          /\ m # <<>>
          /\ \A n \in 1..Len(m) :
                /\ m[n].items # <<>>
                /\ \A j, k \in 1..Len(m[n].items) :
                      m[n].items[j].name = m[n].items[k].name => j = k

VARIABLES
    agent,       \* is the process running
    registered,  \* names in registry.ServiceRegistry()
    listen,      \* the address the registered service listens on, or NoAddr
    leaked,      \* addresses held by listeners no service owns
    config,      \* config.Global().Services: the entries of every name
    file,        \* the last complete contents of gost.json
    intact,      \* FALSE while gost.json is truncated and not yet rewritten
    unsaved,     \* history: saves that failed since gost.json was last complete
    pc,          \* where the command goroutine is
    msg,         \* the message being executed: one command, or a batch
    step,        \* the command of the batch being executed
    i,           \* the item of that command being processed
    ok,          \* no command of the message has failed yet
    tainted      \* history: names a handler left half-way or boot un-paused

vars == <<agent, registered, listen, leaked, config, file, intact, unsaved, pc,
          msg, step, i, ok, tainted>>

memory == <<registered, listen, leaked, config, tainted>>
disk == <<file, intact, unsaved>>
control == <<pc, msg, step, i, ok>>

Empty == [s \in Svc |-> <<>>]
Closed == [s \in Svc |-> NoAddr]

Cur == msg[step]
Items == Cur.items
ItemNames == {Items[k].name : k \in 1..Len(Items)}
Done == {Items[k] : k \in 1..(i - 1)}
DoneNames == {it.name : it \in Done}
Wanted(s) == (CHOOSE it \in Done : it.name = s).addr
Marked(s) == config[s] # <<>> /\ config[s][1].paused

\* Listeners that createServices has opened and not registered yet.
Pending == IF pc = "each" /\ Cur.op = "Add" THEN {it.addr : it \in Done} ELSE {}

Held == leaked \cup {listen[s] : s \in Svc} \cup Pending

SetFirst(s, e) == [config[s] EXCEPT ![1] = e]
Flagged(s, p) == SetFirst(s, [addr |-> config[s][1].addr, paused |-> p])

-----------------------------------------------------------------------------
Init ==
    /\ agent = "up"
    /\ registered = {}
    /\ listen = Closed
    /\ leaked = {}
    /\ config = Empty
    /\ file = Empty
    /\ intact = TRUE
    /\ unsaved = 0
    /\ pc = "idle"
    /\ msg = <<>>
    /\ step = 1
    /\ i = 1
    /\ ok = TRUE
    /\ tainted = {}

(***************************************************************************)
(* ParseService binds the listener.  It can only succeed on a free         *)
(* address; it can always fail (port taken by another program, bad         *)
(* option); and when it fails after ln.Init the listener stays open        *)
(* although nobody refers to it.                                           *)
(***************************************************************************)
ParseOk(a) == a \notin Held

ParseFails(a, others) ==
    \/ leaked' = leaked \cup others
    \/ a \notin Held /\ leaked' = leaked \cup others \cup {a}

\* Mutant of Fail: gost.json is only saved after a success.
FailUnsaved == pc' = "reply" /\ ok' = FALSE /\ UNCHANGED <<msg, step, i>>

\* A command returned an error: the rest of the batch is not executed.
Fail == pc' = "save" /\ ok' = FALSE /\ UNCHANGED <<msg, step, i>>

\* Mutant of Advance: the loop does not move on.
AdvanceNot == pc' = "each" /\ UNCHANGED <<msg, step, i, ok>>

Advance == i' = i + 1 /\ pc' = "each" /\ UNCHANGED <<msg, step, ok>>

Finished == pc' = "next" /\ UNCHANGED <<msg, step, i, ok>>

-----------------------------------------------------------------------------
\* A message arrives on the WebSocket; one goroutine executes it to its end.
Receive(m) ==
    /\ agent = "up" /\ pc = "idle"
    /\ \A s \in Svc : Len(config[s]) <= MaxEntries
    /\ msg' = m /\ step' = 1 /\ i' = 1 /\ ok' = TRUE
    /\ pc' = "begin"
    /\ UNCHANGED <<agent, memory, disk>>

\* The first phase of a handler: the services it names must exist.
Verified ==
    /\ Cur.op \in {"Update", "Delete", "Pause", "Resume"} => ItemNames \subseteq registered
    /\ Cur.op = "Resume" => \A s \in ItemNames : config[s] # <<>>

Begin ==
    /\ pc = "begin"
    /\ IF Verified
       THEN pc' = "each" /\ i' = 1 /\ UNCHANGED <<msg, step, ok>>
       ELSE Fail
    /\ UNCHANGED <<agent, memory, disk>>

\* The item the loop of the handler is at, for the operations in ops.
Each(ops, it) == pc = "each" /\ Cur.op \in ops /\ i <= Len(Items) /\ it = Items[i]

LoopDone(op) == pc = "each" /\ Cur.op = op /\ i > Len(Items)

-----------------------------------------------------------------------------
\* createServices, first loop: parse, which opens the listener.  A failure
\* returns without closing the listeners the earlier items opened.
AddParse ==
    \E it \in Item :
        /\ Each({"Add"}, it)
        /\ \/ it.name \notin registered /\ ParseOk(it.addr) /\ Advance /\ UNCHANGED leaked
           \/ it.name \notin registered /\ ParseFails(it.addr, Pending) /\ Fail
           \/ it.name \in registered /\ leaked' = leaked \cup Pending /\ Fail
        /\ UNCHANGED <<agent, registered, listen, config, tainted, disk>>

\* createServices, the other loops: register, serve, append to the config.
AddCommit ==
    /\ LoopDone("Add")
    /\ registered' = registered \cup ItemNames
    /\ listen' = [s \in Svc |-> IF s \in ItemNames
                                THEN Wanted(s)
                                ELSE listen[s]]
    /\ config' = [s \in Svc |-> IF s \in ItemNames
                                THEN Append(config[s], [addr |-> Wanted(s),
                                                        paused |-> FALSE])
                                ELSE config[s]]
    /\ Finished
    /\ UNCHANGED <<agent, leaked, tainted, disk>>

\* upsertServices of a name that is not registered: createServices of one.
UpsertCreate ==
    \E it \in Item :
        /\ Each({"Upsert"}, it)
        /\ it.name \notin registered
        /\ \/ /\ ParseOk(it.addr)
              /\ registered' = registered \cup {it.name}
              /\ listen' = [listen EXCEPT ![it.name] = it.addr]
              /\ config' = [config EXCEPT ![it.name] = Append(@, [addr |-> it.addr, paused |-> FALSE])]
              /\ Advance
              /\ UNCHANGED leaked
           \/ /\ ParseFails(it.addr, {})
              /\ Fail
              /\ UNCHANGED <<registered, listen, config>>
        /\ UNCHANGED <<agent, tainted, disk>>

\* updateServices and upsertServices of a registered name, resumeServices of
\* a paused one: the old service is closed and unregistered first.
CloseOld ==
    \E it \in Item :
        /\ \/ Each({"Upsert"}, it) /\ it.name \in registered
           \/ Each({"Update"}, it)
           \/ Each({"Resume"}, it) /\ Marked(it.name)
        /\ listen' = [listen EXCEPT ![it.name] = NoAddr]
        /\ registered' = registered \ {it.name}
        /\ pc' = "parse"
        /\ UNCHANGED <<agent, leaked, config, tainted, disk, msg, step, i, ok>>

\* ... then the new one is parsed, registered and served.  UpsertService
\* rewrites the first config entry at once; UpdateService only when all
\* items are done; neither keeps the "paused" mark.
UpdateParse ==
    LET s == Items[i].name
        a == Items[i].addr
    IN
    /\ pc = "parse" /\ Cur.op \in {"Update", "Upsert"}
    /\ \/ /\ ParseOk(a)
          /\ registered' = registered \cup {s}
          /\ listen' = [listen EXCEPT ![s] = a]
          /\ IF Cur.op = "Upsert" /\ config[s] # <<>>
             THEN /\ config' = [config EXCEPT ![s] = SetFirst(s, [addr |-> a, paused |-> FALSE])]
                  /\ tainted' = IF Len(config[s]) = 1 THEN tainted \ {s} ELSE tainted
             ELSE UNCHANGED <<config, tainted>>
          /\ Advance
          /\ UNCHANGED leaked
       \/ /\ ParseFails(a, {})
          /\ tainted' = tainted \cup {s} \cup (IF Cur.op = "Update" THEN DoneNames ELSE {})
          /\ Fail
          /\ UNCHANGED <<registered, listen, config>>
    /\ UNCHANGED <<agent, disk>>

\* updateServices, last phase: the first entry of every name is replaced.
UpdateCommit ==
    /\ LoopDone("Update")
    /\ config' = [s \in Svc |-> IF s \in ItemNames /\ config[s] # <<>>
                                THEN SetFirst(s, [addr |-> Wanted(s),
                                                  paused |-> FALSE])
                                ELSE config[s]]
    /\ tainted' = tainted \ {s \in ItemNames : Len(config[s]) = 1}
    /\ Finished
    /\ UNCHANGED <<agent, registered, listen, leaked, disk>>

UpsertCommit ==
    /\ LoopDone("Upsert")
    /\ Finished
    /\ UNCHANGED <<agent, memory, disk>>

-----------------------------------------------------------------------------
\* Mutant of Delete: the service is unregistered but its listener stays open.
DeleteUnclosed ==
    /\ pc = "each" /\ Cur.op = "Delete"
    /\ registered' = registered \ ItemNames
    /\ config' = [s \in Svc |-> IF s \in ItemNames THEN <<>> ELSE config[s]]
    /\ tainted' = tainted \ ItemNames
    /\ Finished
    /\ UNCHANGED <<agent, listen, leaked, disk>>

\* Mutant of Delete: the service is closed but not unregistered.
DeleteRegistered ==
    /\ pc = "each" /\ Cur.op = "Delete"
    /\ listen' = [s \in Svc |-> IF s \in ItemNames THEN NoAddr ELSE listen[s]]
    /\ config' = [s \in Svc |-> IF s \in ItemNames THEN <<>> ELSE config[s]]
    /\ tainted' = tainted \ ItemNames
    /\ Finished
    /\ UNCHANGED <<agent, registered, leaked, disk>>

\* deleteServices after its verification: registry, listener and every entry.
Delete ==
    /\ pc = "each" /\ Cur.op = "Delete"
    /\ registered' = registered \ ItemNames
    /\ listen' = [s \in Svc |-> IF s \in ItemNames THEN NoAddr ELSE listen[s]]
    /\ config' = [s \in Svc |-> IF s \in ItemNames THEN <<>> ELSE config[s]]
    /\ tainted' = tainted \ ItemNames
    /\ Finished
    /\ UNCHANGED <<agent, leaked, disk>>

\* pauseServices: close, but stay registered.  Without a config entry the
\* handler re-parses what it paused; Register then reports a duplicate, since
\* the closed service is still registered, and the new one is closed again.
PauseClose ==
    \E it \in Item :
        /\ Each({"Pause"}, it)
        /\ IF config[it.name] = <<>>
           THEN Fail /\ UNCHANGED listen
           ELSE Advance /\ listen' = [listen EXCEPT ![it.name] = NoAddr]
        /\ UNCHANGED <<agent, registered, leaked, config, tainted, disk>>

PauseCommit ==
    /\ LoopDone("Pause")
    /\ config' = [s \in Svc |-> IF s \in ItemNames THEN Flagged(s, TRUE) ELSE config[s]]
    /\ tainted' = tainted \ {s \in ItemNames : Len(config[s]) = 1}
    /\ Finished
    /\ UNCHANGED <<agent, registered, listen, leaked, disk>>

\* resumeServices leaves out the services that are not marked paused.
ResumeSkip ==
    \E it \in Item :
        /\ Each({"Resume"}, it)
        /\ ~Marked(it.name)
        /\ Advance
        /\ UNCHANGED <<agent, memory, disk>>

\* Mutant of ResumeParse: a failure does not close what was resumed before.
ResumeParseNoRollback ==
    LET s == Items[i].name
        a == config[s][1].addr
    IN
    /\ pc = "parse" /\ Cur.op = "Resume"
    /\ \/ /\ ParseOk(a)
          /\ registered' = registered \cup {s}
          /\ listen' = [listen EXCEPT ![s] = a]
          /\ Advance
          /\ UNCHANGED <<leaked, tainted>>
       \/ /\ ParseFails(a, {})
          /\ tainted' = tainted \cup {s}
          /\ Fail
          /\ UNCHANGED <<registered, listen>>
    /\ UNCHANGED <<agent, config, disk>>

\* After the 100 ms pause: parse the first config entry and serve it, or
\* roll back, which closes the services resumed before this one.
ResumeParse ==
    LET s == Items[i].name
        a == config[s][1].addr
    IN
    /\ pc = "parse" /\ Cur.op = "Resume"
    /\ \/ /\ ParseOk(a)
          /\ registered' = registered \cup {s}
          /\ listen' = [listen EXCEPT ![s] = a]
          /\ Advance
          /\ UNCHANGED <<leaked, tainted>>
       \/ /\ ParseFails(a, {})
          /\ listen' = [t \in Svc |-> IF t \in DoneNames /\ Marked(t) THEN NoAddr ELSE listen[t]]
          /\ tainted' = tainted \cup {s}
          /\ Fail
          /\ UNCHANGED registered
    /\ UNCHANGED <<agent, config, disk>>

ResumeCommit ==
    /\ LoopDone("Resume")
    /\ config' = [s \in Svc |-> IF s \in ItemNames /\ Marked(s) THEN Flagged(s, FALSE) ELSE config[s]]
    /\ Finished
    /\ UNCHANGED <<agent, registered, listen, leaked, tainted, disk>>

-----------------------------------------------------------------------------
\* Mutant of NextCommand: one command too many is taken from the batch.
NextCommandOffByOne ==
    /\ pc = "next"
    /\ IF step <= Len(msg)
       THEN pc' = "begin" /\ step' = step + 1 /\ i' = 1
       ELSE pc' = "save" /\ UNCHANGED <<step, i>>
    /\ UNCHANGED <<agent, memory, disk, msg, ok>>

\* handleBatchApply goes on with the next command while none has failed.
NextCommand ==
    /\ pc = "next"
    /\ IF step < Len(msg)
       THEN pc' = "begin" /\ step' = step + 1 /\ i' = 1
       ELSE pc' = "save" /\ UNCHANGED <<step, i>>
    /\ UNCHANGED <<agent, memory, disk, msg, ok>>

SaveFails == unsaved < MaxUnsaved /\ unsaved' = unsaved + 1

\* saveConfig, first half: os.Create empties gost.json.  When it fails nothing
\* is written, the old contents stay, and the command is answered all the same.
SaveTruncate ==
    /\ pc = "save"
    /\ \/ pc' = "write" /\ intact' = FALSE /\ UNCHANGED unsaved
       \/ pc' = "reply" /\ SaveFails /\ UNCHANGED intact
    /\ UNCHANGED <<agent, memory, file, msg, step, i, ok>>

\* saveConfig, second half: Write fills the file again.  When it fails the file
\* stays truncated; that error, too, does not reach the answer.
SaveWrite ==
    /\ pc = "write"
    /\ pc' = "reply"
    /\ \/ file' = config /\ intact' = TRUE /\ unsaved' = 0
       \/ SaveFails /\ UNCHANGED <<file, intact>>
    /\ UNCHANGED <<agent, memory, msg, step, i, ok>>

\* sendResponse, with Success = ok; then the goroutine reads on.
Reply ==
    /\ pc = "reply"
    /\ pc' = "idle"
    /\ msg' = <<>> /\ step' = 1 /\ i' = 1 /\ ok' = TRUE
    /\ UNCHANGED <<agent, memory, disk>>

-----------------------------------------------------------------------------
\* The process is killed at any point; the kernel closes its listeners.
Crash ==
    /\ agent = "up"
    /\ agent' = "down"
    /\ registered' = {} /\ listen' = Closed /\ leaked' = {} /\ config' = Empty
    /\ tainted' = {}
    /\ pc' = "idle" /\ msg' = <<>> /\ step' = 1 /\ i' = 1 /\ ok' = TRUE
    /\ UNCHANGED disk

\* program.Start stops at the first service it cannot parse or register.
Bootable ==
    /\ intact
    /\ \A s \in Svc : Len(file[s]) <= 1
    /\ \A s, t \in Svc :
          s # t /\ file[s] # <<>> /\ file[t] # <<>> => file[s][1].addr # file[t][1].addr

\* program.Start: every entry of gost.json is parsed, registered and served;
\* the "paused" mark is not looked at.
Boot ==
    /\ agent = "down"
    /\ Bootable
    /\ agent' = "up"
    /\ config' = file
    /\ registered' = {s \in Svc : file[s] # <<>>}
    /\ listen' = [s \in Svc |-> IF file[s] # <<>> THEN file[s][1].addr ELSE NoAddr]
    /\ tainted' = {s \in Svc : file[s] # <<>> /\ file[s][1].paused}
    /\ unsaved' = 0
    /\ UNCHANGED <<leaked, file, intact, control>>

\* Start returned an error: the process exits and systemd will try again.
BootFails == agent = "down" /\ UNCHANGED vars

Handler ==
    \/ Begin \/ AddParse \/ AddCommit \/ UpsertCreate \/ CloseOld \/ UpdateParse
    \/ UpdateCommit \/ UpsertCommit \/ Delete \/ PauseClose \/ PauseCommit
    \/ ResumeSkip \/ ResumeParse \/ ResumeCommit
    \/ NextCommand \/ SaveTruncate \/ SaveWrite \/ Reply

Next == (\E m \in Messages : Receive(m)) \/ Handler \/ Crash \/ Boot \/ BootFails

Spec == Init /\ [][Next]_vars

\* The command goroutine runs on as long as the process lives.
FairSpec == Spec /\ WF_vars(Handler)

-----------------------------------------------------------------------------
(***************************************************************************)
(* Properties.                                                             *)
(***************************************************************************)

DataTypes ==
    /\ agent \in {"up", "down"}
    /\ registered \subseteq Svc
    /\ listen \in [Svc -> Addr \cup {NoAddr}]
    /\ leaked \subseteq Addr
    /\ config \in [Svc -> Seq(Entry)]
    /\ file \in [Svc -> Seq(Entry)]
    /\ intact \in BOOLEAN
    /\ unsaved \in 0..MaxUnsaved
    /\ ok \in BOOLEAN
    /\ tainted \subseteq Svc

ControlTypes ==
    /\ pc \in {"idle", "begin", "each", "parse", "next", "save", "write", "reply"}
    /\ IF pc = "idle" THEN msg = <<>> /\ step = 1 ELSE msg \in Messages /\ step \in 1..Len(msg)
    /\ i \in Nat \ {0}
    /\ pc = "each" => i <= Len(Items) + 1
    /\ pc = "parse" => i <= Len(Items)
    /\ agent = "down" => pc = "idle"

\* Type invariant.
TypeOK == DataTypes /\ ControlTypes

\* Registry, listener and configuration tell the same story of a service.
Agrees(s) ==
    IF config[s] = <<>>
    THEN s \notin registered /\ listen[s] = NoAddr
    ELSE /\ Len(config[s]) = 1
         /\ s \in registered
         /\ listen[s] = IF config[s][1].paused THEN NoAddr ELSE config[s][1].addr

\* The items the running handler has already touched.
InFlight ==
    IF pc = "parse" THEN DoneNames \cup {Items[i].name}
    ELSE IF pc = "each" THEN DoneNames ELSE {}

\* Whatever fails, whenever: a service is described by exactly one config
\* entry, is registered, and listens where the entry says unless it is marked
\* paused - except while a handler is at it, and except for the services that
\* a failed handler gave up on or that a restart brought back.
Agreement == agent = "up" => \A s \in Svc \ (InFlight \cup tainted) : Agrees(s)

\* A registered service always has a config entry: pause and resume never stop
\* with "configuration not found", so pauseServices never needs its rollback.
RegisteredConfigured == \A s \in registered : config[s] # <<>>

\* No service holds a listener without being in the registry, so that a later
\* DeleteService can always close it.
ListenersOwned == \A s \in Svc : listen[s] # NoAddr => s \in registered

\* What the last command of an acknowledged message asked for is in force.
Applied(c) ==
    \A k \in 1..Len(c.items) :
        LET s == c.items[k].name
            a == c.items[k].addr
        IN CASE c.op \in {"Add", "Update", "Upsert"} ->
                    /\ s \in registered /\ listen[s] = a
                    /\ \E n \in 1..Len(config[s]) : config[s][n].addr = a /\ ~config[s][n].paused
             [] c.op = "Delete" -> s \notin registered /\ listen[s] = NoAddr /\ config[s] = <<>>
             [] c.op = "Pause" -> listen[s] = NoAddr /\ Marked(s)
             [] c.op = "Resume" -> s \in registered /\ listen[s] # NoAddr /\ ~Marked(s)

\* A reply with Success means the command took effect.  It does not mean that
\* gost.json holds it, since saveConfig drops its errors; but when the
\* latest save met no error, the file is the configuration in memory: no
\* command changes the one, succeeding or failing half-way, without the other.
AckApplied ==
    /\ pc = "reply" /\ ok => Applied(Cur)
    /\ pc \in {"idle", "reply"} /\ agent = "up" /\ unsaved = 0 => intact /\ file = config

(***************************************************************************)
(* What the handlers rely on between two of their steps; with the          *)
(* properties above this is inductive.                                     *)
(***************************************************************************)

\* A service without the mark listens, unless a handler is at it.
UnmarkedListens ==
    agent = "up" => \A s \in registered \ InFlight : ~Marked(s) => listen[s] # NoAddr

\* A handler may replace the first entry: one exists, and it is the only one
\* unless the name is tainted.
Replaceable(s) == config[s] # <<>> /\ (s \in tainted \/ Len(config[s]) = 1)

HasEntry(s, a) == \E n \in 1..Len(config[s]) : config[s][n].addr = a /\ ~config[s][n].paused

\* What the loop of a handler has established for an item it is done with.
DoneWith(op, s, a) ==
    CASE op = "Add" -> s \notin registered /\ (s \in tainted \/ Agrees(s))
      [] op = "Update" -> s \in registered /\ listen[s] = a /\ Replaceable(s)
      [] op = "Upsert" -> /\ s \in registered /\ listen[s] = a /\ HasEntry(s, a)
                          /\ s \in tainted \/ Agrees(s)
      [] op = "Pause" -> s \in registered /\ listen[s] = NoAddr /\ Replaceable(s)
      [] op = "Resume" -> /\ s \in registered /\ listen[s] # NoAddr
                          /\ s \in tainted \/ (Len(config[s]) = 1 /\ listen[s] = config[s][1].addr)
      [] OTHER -> FALSE

HandlerInv ==
    /\ pc \in {"each", "parse"} =>
          \A k \in 1..(i - 1) : DoneWith(Cur.op, Items[k].name, Items[k].addr)
    /\ pc \in {"each", "parse"} /\ Cur.op \in {"Update", "Delete", "Pause", "Resume"} =>
          \A k \in 1..Len(Items) : (k > i \/ (k = i /\ pc = "each")) => Items[k].name \in registered
    /\ pc = "parse" =>
          LET s == Items[i].name
          IN /\ Cur.op \in {"Update", "Upsert", "Resume"}
             /\ s \notin registered /\ listen[s] = NoAddr /\ Replaceable(s)
             /\ Cur.op = "Resume" => Marked(s)
    /\ pc \in {"begin", "each", "parse", "next"} => ok
    /\ pc = "next" => Applied(Cur)
    /\ pc \in {"save", "write", "reply"} /\ ok => Applied(Cur)

\* A message the agent has taken is executed to its end and answered, or the
\* process dies: no handler loop runs for ever or stops half-way.
Answered == (pc # "idle") ~> (pc = "idle")

-----------------------------------------------------------------------------
(***************************************************************************)
(* A claim of the source that the model refutes.                           *)
(***************************************************************************)

\* The resume of several services is transactional: when one of them cannot be
\* resumed, all of them are as before, paused and still registered.
ResumeTransactional ==
    [][pc = "parse" /\ Cur.op = "Resume" /\ pc' = "save" => ItemNames \subseteq registered']_vars
=============================================================================
