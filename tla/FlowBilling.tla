---------------------------- MODULE FlowBilling ----------------------------
(***************************************************************************)
(* How the panel adds reported traffic to its tables and enforces limits:  *)
(* the handler of /flow/upload (FlowController), the daily job             *)
(* (ResetFlowAsync), the manual reset and the owner's pause and resume,    *)
(* each a thread whose steps are single statements on the database or      *)
(* single commands to a node.                                              *)
(*                                                                         *)
(* The two directions of a counter are handled alike and are one number,   *)
(* already billed (ratio and type are applied before the first statement). *)
(* A user has at most one grant (user_tunnel row) per tunnel, so a forward *)
(* has one grant or, for an administrator, none, and the name of its       *)
(* services is the forward.  Forwards, grants and tunnels are not edited   *)
(* while this runs; those operations are ForwardServiceImpl's.             *)
(***************************************************************************)
EXTENDS Naturals, FiniteSets, FiniteSetsExt

CONSTANTS
    Forwards, Grants, Users,
    Administrators,  \* users with role_id 0
    OwnerOf,    \* the user of a forward
    GrantOf,    \* its user_tunnel row, or NoGrant (DEFAULT_USER_TUNNEL_ID)
    NoGrant,
    InNode,     \* the node of the tunnel that listens for the forward
    OutNode,    \* the tunnel's exit node (type 2), or NoNode
    NoNode,
    NoForward, NoRow,  \* a loop that works on none
    Limit,      \* flow limit of a user or a grant
    Reports,    \* bound: the uploads that arrive
    ForwardOf,  \* the forward an upload names
    Billed,     \* what BillingCalculator makes of it
    Resetting,  \* users and grants with a flow_reset_time
    MayExpire,  \* users and grants with an exp_time
    Manual,     \* users and grants an administrator resets by hand ...
    Managers,   \* bound: ... so many at a time
    MaxSwitch,  \* bound: requests of owners to pause or resume
    Switches,   \* ... <<f, 0>>: f may be paused, <<f, 1>>: it may be resumed
    Faulty      \* threads whose commands and ledger inserts may fail

Accounts == Users \cup Grants
Rows == Forwards \cup Accounts
Nodes == {InNode[f] : f \in Forwards} \cup ({OutNode[f] : f \in Forwards} \ {NoNode})
Daily == "daily"
Owner == "owner"
Threads == Reports \cup {Daily}
OwnedBy(u) == {f \in Forwards : OwnerOf[f] = u}
GrantedBy(g) == {f \in Forwards : GrantOf[f] = g}

ASSUME BillingAssumption ==
    /\ IsFiniteSet(Forwards) /\ IsFiniteSet(Reports) /\ {Daily, Owner} \cap Reports = {}
    /\ Users \cap Grants = {} /\ Forwards \cap Accounts = {}
    /\ Administrators \subseteq Users
    /\ OwnerOf \in [Forwards -> Users]
    /\ GrantOf \in [Forwards -> Grants \cup {NoGrant}] /\ NoGrant \notin Rows
    /\ \A f1, f2 \in Forwards :
           GrantOf[f1] = GrantOf[f2] /\ GrantOf[f1] # NoGrant => OwnerOf[f1] = OwnerOf[f2]
    /\ NoForward \notin Forwards /\ NoRow \notin Accounts
    /\ DOMAIN InNode = Forwards /\ DOMAIN OutNode = Forwards
    /\ \A f \in Forwards : InNode[f] # NoNode
    /\ Limit \in [Accounts -> Nat]
    /\ ForwardOf \in [Reports -> Forwards] /\ Billed \in [Reports -> Nat]
    /\ Resetting \subseteq Accounts /\ MayExpire \subseteq Accounts /\ Manual \subseteq Accounts
    /\ MaxSwitch \in Nat /\ Switches \subseteq Forwards \X {0, 1}
    /\ Faulty \subseteq Threads \cup {Owner}

VARIABLES
    row,       \* the rows of forward, user and user_tunnel: in_flow + out_flow, status
    ledger,    \* flow_ledger: the sum of a forward's entries
    settled,   \* flow_settlement: the sum of a user's or grant's entries
    serving,   \* <<n, f>>: node n accepts connections for f
    expired,   \* users and grants whose exp_time has passed
    pc,        \* where each upload's handler and the daily job are
    batch,     \* the rows the daily job has read and not handled yet
    expiring,  \* ... and the user or grant whose forwards it is pausing
    todo,      \* forwards a pausing loop has read and not handled yet
    current,   \* the forward it is handling
    manager,   \* resets by hand: the row that was read
    switch,    \* the request to pause or resume being handled
    switches   \* how many there were

tables == <<row, ledger, settled>>
loops == <<todo, current>>
job == <<batch, expiring>>
owner == <<switch, switches>>
vars == <<tables, serving, expired, pc, job, loops, manager, owner>>

Row == [flow : Nat, status : {0, 1}]
Empty == [x \in {} |-> 0]
Idle == [pc |-> "idle"]

Init ==
    /\ row = [x \in Rows |-> [flow |-> 0, status |-> 1]]
    /\ ledger = [f \in Forwards |-> 0]
    /\ settled = [x \in Accounts |-> 0]
    /\ serving = {<<InNode[f], f>> : f \in Forwards}
                     \cup {<<OutNode[f], f>> : f \in {g \in Forwards : OutNode[g] # NoNode}}
    /\ expired = {}
    /\ pc = [t \in Threads |-> IF t = Daily THEN "idle" ELSE "forward"]
    /\ batch = Empty /\ expiring = NoRow
    /\ todo = [t \in Threads |-> Empty]
    /\ current = [t \in Threads |-> NoForward]
    /\ manager = [m \in Managers |-> Idle]
    /\ switch = Idle /\ switches = 0

\* What becomes of a command: executed, lost, executed but not answered in time.
Outcomes(t) == IF t \in Faulty THEN {"ok", "lost", "unanswered"} ELSE {"ok"}

Paused(n, name, o) == IF o = "lost" THEN serving ELSE serving \ {<<n, name>>}
Resumed(n, name, o) == IF o = "lost" THEN serving ELSE serving \cup {<<n, name>>}

\* Mutant: "in_flow = n".
AddOverwrites(x, n) == row' = [row EXCEPT ![x].flow = n]

\* UPDATE ... SET in_flow = in_flow + n: one statement.
Add(x, n) == row' = [row EXCEPT ![x].flow = @ + n]

\* updateById(entity): every field the entity holds is written back, the
\* counters too, as they were when it was read.
SaveEntity(x, entity) == row' = [row EXCEPT ![x] = entity]

SelectRows(S) == [x \in S |-> row[x]]
Without(b, x) == [y \in DOMAIN b \ {x} |-> b[y]]
Goto(t, label) == pc' = [pc EXCEPT ![t] = label]

-----------------------------------------------------------------------------
\* processFlowData, statement by statement.
UpdateForwardFlow(r) ==
    /\ pc[r] = "forward"
    /\ Add(ForwardOf[r], Billed[r])
    /\ Goto(r, "user")
    /\ UNCHANGED <<ledger, settled, serving, expired, job, loops, manager, owner>>

UpdateUserFlow(r) ==
    /\ pc[r] = "user"
    /\ Add(OwnerOf[ForwardOf[r]], Billed[r])
    /\ Goto(r, IF GrantOf[ForwardOf[r]] = NoGrant THEN "ledger" ELSE "grant")
    /\ UNCHANGED <<ledger, settled, serving, expired, job, loops, manager, owner>>

UpdateUserTunnelFlow(r) ==
    /\ pc[r] = "grant"
    /\ Add(GrantOf[ForwardOf[r]], Billed[r])
    /\ Goto(r, "ledger")
    /\ UNCHANGED <<ledger, settled, serving, expired, job, loops, manager, owner>>

\* Mutant: the handler is run again when the insert fails.
RecordFlowLedgerRetries(r) ==
    /\ pc[r] = "ledger"
    /\ \/ /\ ledger' = [ledger EXCEPT ![ForwardOf[r]] = @ + Billed[r]]
          /\ Goto(r, IF GrantOf[ForwardOf[r]] = NoGrant THEN "done" ELSE "checkUser")
       \/ r \in Faulty /\ ledger' = ledger /\ Goto(r, "forward")
    /\ UNCHANGED <<row, settled, serving, expired, job, loops, manager, owner>>

\* A failure of the insert is logged and nothing else.
RecordFlowLedger(r) ==
    /\ pc[r] = "ledger"
    /\ \/ ledger' = [ledger EXCEPT ![ForwardOf[r]] = @ + Billed[r]]
       \/ r \in Faulty /\ ledger' = ledger
    /\ Goto(r, IF GrantOf[ForwardOf[r]] = NoGrant THEN "done" ELSE "checkUser")
    /\ UNCHANGED <<row, settled, serving, expired, job, loops, manager, owner>>

\* PermissionPolicyServiceImpl.checkUserRuntime: a user at the limit may go on ...
UserDenied(u) == Limit[u] < row[u].flow \/ u \in expired \/ row[u].status # 1

\* ... checkUserTunnelRuntime: a grant at the limit may not.
GrantDenied(g) == Limit[g] <= row[g].flow \/ g \in expired \/ row[g].status # 1

\* Mutant: the loop is entered also when there is nothing to pause.
StartLoopAlways(t, S, in, next) ==
    /\ todo' = [todo EXCEPT ![t] = SelectRows(S)]
    /\ Goto(t, in)

\* A pausing loop that goes over the forwards S, or is left at once if S is empty.
StartLoop(t, S, in, next) ==
    /\ todo' = [todo EXCEPT ![t] = SelectRows(S)]
    /\ Goto(t, IF S = {} THEN next ELSE in)

\* Mutant: only the forwards that are shown as active are listed.
CheckUserActiveOnly(r) ==
    LET u == OwnerOf[ForwardOf[r]] IN
    /\ pc[r] = "checkUser"
    /\ StartLoop(r, IF UserDenied(u) THEN {f \in OwnedBy(u) : row[f].status = 1} ELSE {},
                 "pauseUser", "checkGrant")
    /\ UNCHANGED <<tables, serving, expired, job, current, manager, owner>>

CheckUserRelatedLimits(r) ==
    LET u == OwnerOf[ForwardOf[r]] IN
    /\ pc[r] = "checkUser"
    /\ StartLoop(r, IF UserDenied(u) THEN OwnedBy(u) ELSE {}, "pauseUser", "checkGrant")
    /\ UNCHANGED <<tables, serving, expired, job, current, manager, owner>>

CheckUserTunnelRelatedLimits(r) ==
    LET g == GrantOf[ForwardOf[r]] IN
    /\ pc[r] = "checkGrant"
    /\ StartLoop(r, IF GrantDenied(g) THEN GrantedBy(g) ELSE {}, "pauseGrant", "done")
    /\ UNCHANGED <<tables, serving, expired, job, current, manager, owner>>

-----------------------------------------------------------------------------
\* The loops of FlowController.pauseService and of the daily job: a command to
\* the tunnel's entry, one to its exit if it has one, then updateById.
Pausing(t) == pc[t] \in {"pauseUser", "pauseGrant"}

\* The service that is named in the command.  The upload's handler names the
\* service of its own report, whatever forward the loop has arrived at.
ServiceName(t, f) == IF t = Daily THEN f ELSE ForwardOf[t]

PauseIn(t) ==
    /\ Pausing(t) /\ current[t] = NoForward
    /\ \E f \in DOMAIN todo[t], o \in Outcomes(t) :
           /\ serving' = Paused(InNode[f], ServiceName(t, f), o)
           /\ current' = [current EXCEPT ![t] = f]
    /\ UNCHANGED <<tables, expired, pc, job, todo, manager, owner>>


\* GostUtil.PauseRemoteService, if the tunnel has an exit; its result is not read.
PauseRemote(t, f, o) ==
    IF OutNode[f] = NoNode THEN serving ELSE Paused(OutNode[f], ServiceName(t, f), o)

PauseOut(t) ==
    /\ Pausing(t) /\ current[t] # NoForward
    /\ \E o \in Outcomes(t) : serving' = PauseRemote(t, current[t], o)
    /\ Goto(t, IF pc[t] = "pauseUser" THEN "saveUser" ELSE "saveGrant")
    /\ UNCHANGED <<tables, expired, job, loops, manager, owner>>

\* What follows the last forward of a loop.
AfterLoop(t) ==
    IF pc[t] = "saveUser" THEN IF t = Daily THEN "closeUser" ELSE "checkGrant"
                          ELSE IF t = Daily THEN "closeGrant" ELSE "done"

SavePaused(t) ==
    LET f == current[t] IN
    /\ pc[t] \in {"saveUser", "saveGrant"}
    /\ SaveEntity(f, [todo[t][f] EXCEPT !.status = 0])
    /\ todo' = [todo EXCEPT ![t] = Without(@, f)]
    /\ current' = [current EXCEPT ![t] = NoForward]
    /\ Goto(t, IF DOMAIN todo[t] # {f}
               THEN IF pc[t] = "saveUser" THEN "pauseUser" ELSE "pauseGrant"
               ELSE AfterLoop(t))
    /\ UNCHANGED <<ledger, settled, serving, expired, job, manager, owner>>

-----------------------------------------------------------------------------
\* Mutant: the settlement without the reset.
SettleOnly(x, entity) ==
    /\ settled' = [settled EXCEPT ![x] = @ + entity.flow]
    /\ row' = row

\* settleAndResetUser, settleAndResetUserTunnel: one transaction that inserts
\* the entity's counters, as read before, and sets those of the row to 0.
SettleAndReset(x, entity) ==
    /\ settled' = [settled EXCEPT ![x] = @ + entity.flow]
    /\ row' = [row EXCEPT ![x].flow = 0]

\* reset_flow: the users, then the grants, whose reset day is today.
ResetFlow ==
    /\ pc[Daily] = "idle"
    /\ \E due \in SUBSET (Resetting \cap Users) : batch' = SelectRows(due)
    /\ Goto(Daily, "settleUsers")
    /\ UNCHANGED <<tables, serving, expired, expiring, loops, manager, owner>>

SettleNext ==
    /\ pc[Daily] \in {"settleUsers", "settleGrants"}
    /\ \E x \in DOMAIN batch :
           /\ SettleAndReset(x, batch[x])
           /\ batch' = Without(batch, x)
    /\ UNCHANGED <<ledger, serving, expired, pc, expiring, loops, manager, owner>>

ResetUserTunnelFlow ==
    /\ pc[Daily] = "settleUsers" /\ DOMAIN batch = {}
    /\ \E due \in SUBSET (Resetting \cap Grants) : batch' = SelectRows(due)
    /\ Goto(Daily, "settleGrants")
    /\ UNCHANGED <<tables, serving, expired, expiring, loops, manager, owner>>

\* user() and userTunnel(): the users, then the grants, that have expired and
\* are still enabled; an administrator is never among them.
Expirable(S) == {x \in (S \ Administrators) \cap expired : row[x].status = 1}

ListExpired ==
    /\ DOMAIN batch = {}
    /\ \/ /\ pc[Daily] = "settleGrants"
          /\ batch' = SelectRows(Expirable(Users))
          /\ Goto(Daily, "expireUsers")
       \/ /\ pc[Daily] = "expireUsers"
          /\ batch' = SelectRows(Expirable(Grants))
          /\ Goto(Daily, "expireGrants")
       \/ /\ pc[Daily] = "expireGrants"
          /\ batch' = batch
          /\ Goto(Daily, "idle")
    /\ UNCHANGED <<tables, serving, expired, expiring, loops, manager, owner>>

\* The forwards to pause: only active ones and, of a user, those with a grant.
Active(S) == {f \in S : row[f].status = 1}

ExpireUser ==
    /\ pc[Daily] = "expireUsers"
    /\ \E u \in DOMAIN batch :
           /\ expiring' = u
           /\ StartLoop(Daily, {f \in Active(OwnedBy(u)) : GrantOf[f] # NoGrant},
                        "pauseUser", "closeUser")
    /\ UNCHANGED <<tables, serving, expired, batch, current, manager, owner>>

ExpireUserTunnel ==
    /\ pc[Daily] = "expireGrants"
    /\ \E g \in DOMAIN batch :
           /\ expiring' = g
           /\ StartLoop(Daily, Active(GrantedBy(g)), "pauseGrant", "closeGrant")
    /\ UNCHANGED <<tables, serving, expired, batch, current, manager, owner>>

\* user.setStatus(0); updateById(user), and the same for a grant.
CloseExpired ==
    /\ pc[Daily] \in {"closeUser", "closeGrant"}
    /\ SaveEntity(expiring, [batch[expiring] EXCEPT !.status = 0])
    /\ batch' = Without(batch, expiring)
    /\ expiring' = NoRow
    /\ Goto(Daily, IF pc[Daily] = "closeUser" THEN "expireUsers" ELSE "expireGrants")
    /\ UNCHANGED <<ledger, settled, serving, expired, loops, manager, owner>>

-----------------------------------------------------------------------------
\* UserServiceImpl.reset: getById, then the settlement.
ResetRead(m, x) ==
    /\ manager[m] = Idle
    /\ manager' = [manager EXCEPT ![m] = [pc |-> "settle", id |-> x, entity |-> row[x]]]
    /\ UNCHANGED <<tables, serving, expired, pc, job, loops, owner>>

ResetSettle(m) ==
    /\ manager[m] # Idle
    /\ SettleAndReset(manager[m].id, manager[m].entity)
    /\ manager' = [manager EXCEPT ![m] = Idle]
    /\ UNCHANGED <<ledger, serving, expired, pc, job, loops, owner>>

\* changeForwardStatus of an ordinary user.  The rows it checks are read in one
\* step here; the commands and the update follow in steps of their own.
MayResume(f) ==
    /\ {OwnerOf[f], GrantOf[f]} \cap expired = {}
    /\ row[OwnerOf[f]].flow < Limit[OwnerOf[f]]
    /\ row[GrantOf[f]].flow < Limit[GrantOf[f]]
    /\ row[GrantOf[f]].status = 1

ChangeForwardStatus(f, target) ==
    /\ switch = Idle /\ switches < MaxSwitch
    /\ row[OwnerOf[f]].status # 0
    /\ GrantOf[f] # NoGrant
    /\ target = 1 => MayResume(f)
    /\ switch' = [pc |-> "in", id |-> f, entity |-> row[f], target |-> target, ok |-> TRUE]
    /\ switches' = switches + 1
    /\ UNCHANGED <<tables, serving, expired, pc, job, loops, manager>>

SwitchService(n, o) ==
    serving' = IF switch.target = 0 THEN Paused(n, switch.id, o) ELSE Resumed(n, switch.id, o)

\* The entry's result is looked at only after the exit has been asked too.
SwitchIn ==
    /\ switch.pc = "in"
    /\ \E o \in Outcomes(Owner) :
           /\ SwitchService(InNode[switch.id], o)
           /\ \/ /\ OutNode[switch.id] # NoNode
                 /\ switch' = [switch EXCEPT !.pc = "out", !.ok = (o = "ok")]
              \/ /\ OutNode[switch.id] = NoNode
                 /\ switch' = IF o = "ok" THEN [switch EXCEPT !.pc = "save"] ELSE Idle
    /\ UNCHANGED <<tables, expired, pc, job, loops, manager, switches>>

SwitchOut ==
    /\ switch.pc = "out"
    /\ \E o \in Outcomes(Owner) :
           /\ SwitchService(OutNode[switch.id], o)
           /\ switch' = IF o = "ok" /\ switch.ok THEN [switch EXCEPT !.pc = "save"] ELSE Idle
    /\ UNCHANGED <<tables, expired, pc, job, loops, manager, switches>>

SwitchSave ==
    /\ switch.pc = "save"
    /\ SaveEntity(switch.id, [switch.entity EXCEPT !.status = switch.target])
    /\ switch' = Idle
    /\ UNCHANGED <<ledger, settled, serving, expired, pc, job, loops, manager, switches>>

-----------------------------------------------------------------------------
\* Time passes.
Expire(x) ==
    /\ x \notin expired
    /\ expired' = expired \cup {x}
    /\ UNCHANGED <<tables, serving, pc, job, loops, manager, owner>>

HandleReport(r) ==
    \/ UpdateForwardFlow(r) \/ UpdateUserFlow(r) \/ UpdateUserTunnelFlow(r)
    \/ RecordFlowLedger(r)
    \/ CheckUserRelatedLimits(r) \/ CheckUserTunnelRelatedLimits(r)

PauseLoop(t) == PauseIn(t) \/ PauseOut(t) \/ SavePaused(t)

DailyJob ==
    \/ ResetFlow \/ SettleNext \/ ResetUserTunnelFlow
    \/ ListExpired \/ ExpireUser \/ ExpireUserTunnel \/ CloseExpired
    \/ PauseLoop(Daily)

Next ==
    \/ \E r \in Reports : HandleReport(r) \/ PauseLoop(r)
    \/ DailyJob
    \/ \E m \in Managers : ResetSettle(m) \/ \E x \in Manual : ResetRead(m, x)
    \/ \E s \in Switches : ChangeForwardStatus(s[1], s[2])
    \/ SwitchIn \/ SwitchOut \/ SwitchSave
    \/ \E x \in MayExpire : Expire(x)

Spec == Init /\ [][Next]_vars

\* A request that has arrived is handled to its end, and the scheduler runs
\* the job every day.
FairSpec ==
    /\ Spec
    /\ \A r \in Reports : WF_vars(HandleReport(r) \/ PauseLoop(r))
    /\ WF_vars(DailyJob)
    /\ WF_vars(SwitchIn \/ SwitchOut \/ SwitchSave)

-----------------------------------------------------------------------------
ReportLabels ==
    {"forward", "user", "grant", "ledger", "checkUser", "checkGrant", "done",
     "pauseUser", "saveUser", "pauseGrant", "saveGrant"}
DailyLabels ==
    {"idle", "settleUsers", "settleGrants", "expireUsers", "expireGrants",
     "closeUser", "closeGrant",
     "pauseUser", "saveUser", "pauseGrant", "saveGrant"}
InLoop(t) == pc[t] \in {"pauseUser", "saveUser", "pauseGrant", "saveGrant"}

TablesOK ==
    /\ row \in [Rows -> Row]
    /\ ledger \in [Forwards -> Nat] /\ settled \in [Accounts -> Nat]
    /\ serving \subseteq Nodes \X Forwards
    /\ expired \subseteq MayExpire

ThreadsOK ==
    /\ DOMAIN pc = Threads /\ DOMAIN todo = Threads /\ DOMAIN current = Threads
    /\ \A r \in Reports : pc[r] \in ReportLabels
    /\ pc[Daily] \in DailyLabels
    /\ DOMAIN batch \subseteq Accounts /\ \A x \in DOMAIN batch : batch[x] \in Row
    /\ expiring # NoRow => expiring \in DOMAIN batch
    /\ \A t \in Threads :
           /\ DOMAIN todo[t] \subseteq Forwards /\ \A f \in DOMAIN todo[t] : todo[t][f] \in Row
           /\ InLoop(t) <=> DOMAIN todo[t] # {}
           /\ current[t] # NoForward => current[t] \in DOMAIN todo[t]

RequestsOK ==
    /\ manager \in [Managers -> {Idle} \cup [pc : {"settle"}, id : Manual, entity : Row]]
    /\ switch \in {Idle} \cup [pc : {"in", "out", "save"}, id : Forwards, entity : Row,
                               target : {0, 1}, ok : BOOLEAN]
    /\ switches \in 0..MaxSwitch

\* Every variable keeps its type; a thread is in a loop exactly while it has
\* forwards left, works on one of them, and the job's expired row is read.
TypeOK == TablesOK /\ ThreadsOK /\ RequestsOK

-----------------------------------------------------------------------------
\* The uploads that have been added to x already, and what they amount to.
AddedTo(x) ==
    {r \in Reports :
        \/ x = ForwardOf[r] /\ pc[r] # "forward"
        \/ x = OwnerOf[ForwardOf[r]] /\ pc[r] \notin {"forward", "user"}
        \/ x = GrantOf[ForwardOf[r]] /\ pc[r] \notin {"forward", "user", "grant"}}
Total(f, S) == MapThenSumSet(LAMBDA x : f[x], S)
Counted(x) == Total(Billed, AddedTo(x))
Charged(x) == settled[x] + row[x].flow

\* The reports of a user or a grant, its forwards, and their ledger entries.
ReportsOf(x) == {r \in Reports : x \in {OwnerOf[ForwardOf[r]], GrantOf[ForwardOf[r]]}}
ForwardsOf(x) == {f \in Forwards : x \in {OwnerOf[f], GrantOf[f]}}
Entries(x) == Total(ledger, ForwardsOf(x))
Entered(r) == pc[r] \notin {"forward", "user", "grant", "ledger"}
Quiet == /\ \A r \in Reports : pc[r] = "done"
         /\ pc[Daily] = "idle" /\ switch = Idle /\ \A m \in Managers : manager[m] = Idle

\* Accounts whose counters nothing but uploads changes.
Steady == Accounts \ (Resetting \cup MayExpire \cup Manual)

\* The tables tell one story whatever uploads run side by side and whatever
\* they pause: the ledger never shows more for a user or a grant than it is
\* charged for (the ledger entry comes last), and once its uploads are entered
\* it shows exactly that, unless an insert failed.
CountersAgree ==
    \A x \in Steady :
        /\ Entries(x) <= Charged(x)
        /\ (\A r \in ReportsOf(x) : Entered(r) /\ r \notin Faulty) => Entries(x) = Charged(x)

\* A handler that has gone through its pausing loop leaves the forward it
\* reported for silent, at the tunnel's entry and at its exit, also when
\* another upload had marked the forward as paused before; unless its commands
\* fail or the owner may resume that forward meanwhile.
Silent(f) == ~ \E n \in Nodes : <<n, f>> \in serving
OffenderStopped ==
    [][\A r \in Reports \ Faulty :
          InLoop(r) /\ pc'[r] \in {"checkGrant", "done"} /\ <<ForwardOf[r], 1>> \notin Switches
              => Silent(ForwardOf[r])']_vars

\* Whatever the daily job settles, resets and disables while uploads arrive, a
\* user or grant is never charged, settled and open together, for more than
\* was reported, unless it is reset by hand too.
NeverOvercharged == \A x \in Accounts \ Manual : Charged(x) <= Counted(x)

\* The counters of a forward are only ever too small: a row written back whole
\* is older than the reports it forgets, whoever writes it and however many do.
ForwardNeverOvercharged == \A f \in Forwards : row[f].flow <= Counted(f)

-----------------------------------------------------------------------------
\* FlowController.java:35 says that a user over the limit has all services
\* paused: a forward the panel shows as paused is not served by a node.
PausedStops ==
    Quiet => \A f \in Forwards : row[f].status = 0 => <<InNode[f], f>> \notin serving

\* FlowController.java:44 says that the statements avoid the race between
\* reading and writing: a forward's counters hold every report.
NoLostUpdate == \A f \in Forwards : row[f].flow = Counted(f)
=============================================================================
