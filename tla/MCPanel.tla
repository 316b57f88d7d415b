------------------------------ MODULE MCPanel ------------------------------
(* What the panel must bring to an end.  "user", "grant": the daily job     *)
(* beside an upload and the owner's requests to pause or resume, while the  *)
(* user or its grant may expire at any moment.  "several": the job beside   *)
(* an upload of a user with two forwards, user and grant expiring.  In      *)
(* these scenes commands of the job, the owner and the uploads may be lost  *)
(* or unanswered; the uploads bill nothing (a tunnel that bills the other   *)
(* direction), as no counter matters here.  "forwards": requests, one at a  *)
(* time, on a port forward and a tunnel, and the clean-up of what their     *)
(* nodes report.                                                            *)
EXTENDS Naturals
CONSTANTS f1, f2, f3, u1, u2, g1, g2, n1, n2, p1, p2, r1, t1, t2,
          NoGrant, NoNode, NoForward, NoRow, NoPort
VARIABLES scene,
    row, ledger, settled, serving, expired, pc, batch, expiring, todo, current, manager, switch, switches,
    excused,   \* forwards for which something went wrong that the job does not make good
    forward, lastId, services, held, chains, request, begun, cleaning, deleting, faults, mixed, acked

Forwards == {f1, f2, f3}
Grants == {g1, g2}
Users == {u1, u2}
Administrators == {}
OwnerOf == [f \in Forwards |-> IF f = f1 THEN u1 ELSE u2]
GrantOf == [f \in Forwards |-> IF f = f1 THEN g1 ELSE g2]
InNode == [f \in Forwards |-> n1]
OutNode == [f \in Forwards |-> IF f = f3 THEN NoNode ELSE n2]
Limit == [x \in Users \cup Grants |-> 9]
Reports == {p1, p2}
ForwardOf == [p \in Reports |-> IF p = p1 THEN f1 ELSE f2]
Billed == [p \in Reports |-> 0]
Resetting == {}
MayExpire == {u1, g1, u2, g2}
Manual == {}
Managers == {}
MaxSwitch == 2
Switches == {f1} \X {0, 1}

\* The job's commands arrive in B; in L they need not.
B == INSTANCE FlowBilling WITH Faulty <- {p1, p2, "owner"}
L == INSTANCE FlowBilling WITH Faulty <- {p1, p2, "owner", "daily"}

F == INSTANCE ForwardLifecycle WITH
    Tunnels <- {t1, t2}, InNode <- [t \in {t1, t2} |-> n1],
    OutNode <- [t \in {t1, t2} |-> IF t = t1 THEN n1 ELSE n2],
    Ports <- {1, 2}, Taken <- {<<n1, "udp", 2>>}, UserNum <- 2, GrantNum <- 1,
    Requests <- {r1}, MaxRequests <- 3, MaxId <- 1, MaxFaults <- 1

billing == <<row, ledger, settled, serving, expired, pc, batch, expiring, todo, current,
             manager, switch, switches>>
forwards == <<forward, lastId, services, held, chains, request, begun, cleaning, deleting, faults,
              mixed, acked>>
vars == <<scene, billing, excused, forwards>>

Init ==
    /\ scene \in {"user", "grant", "several", "forwards"}
    /\ excused = {}
    /\ B!Init /\ F!Init

\* Forwards of the account the job turns to now that the panel shows as paused
\* although a node serves them: the job lists only those shown as active.
PassedOver ==
    {f \in Forwards : /\ expiring = NoRow /\ expiring' \in {OwnerOf[f], GrantOf[f]}
                      /\ row[f].status = 0 /\ ~B!Silent(f)}

\* The forward of a request to resume that was found allowed before the expiry
\* and is under way after it.
ResumedLate ==
    {f \in Forwards : /\ {OwnerOf[f], GrantOf[f]} \cap expired' # {}
                      /\ switch' # B!Idle /\ switch'.id = f /\ switch'.target = 1}

Billing(A, S) ==
    /\ scene # "forwards" /\ A
    /\ excused' = excused \cup S \cup PassedOver \cup ResumedLate
    /\ UNCHANGED <<scene, forwards>>
Editing(A) == scene = "forwards" /\ A /\ UNCHANGED <<scene, billing, excused>>

Expiring == [user |-> {u1}, grant |-> {g1}, several |-> {u2, g2}, forwards |-> {}][scene]
Uploads == IF scene = "several" THEN {p2} ELSE {p1}

Job ==
    \/ Billing(B!DailyJob, {})
    \/ Billing(L!PauseIn("daily") \/ L!PauseOut("daily"), {current'["daily"]})
Upload == Billing(\E p \in Uploads : B!HandleReport(p) \/ B!PauseLoop(p), {})
Switching == Billing(B!SwitchIn \/ B!SwitchOut \/ B!SwitchSave, {})

Next ==
    \/ Job \/ Upload \/ Switching
    \/ scene # "several" /\ Billing(\E s \in Switches : B!ChangeForwardStatus(s[1], s[2]), {})
    \/ Billing(\E x \in Expiring : B!Expire(x), {})
    \/ Editing(F!Next)

\* The fairness of FlowBilling!FairSpec and ForwardLifecycle!FairSpec.
FairSpec ==
    /\ Init /\ [][Next]_vars
    /\ WF_vars(Job) /\ WF_vars(Upload) /\ WF_vars(Switching)
    /\ WF_vars(Editing(F!Continue(r1)))
    /\ \A n \in {n1, n2} : WF_vars(Editing(F!Clean(n)))


OrphansCleaned == F!OrphansCleaned
=============================================================================
