----------------------------- MODULE MCBilling -----------------------------
(* Scenes of FlowBilling over one topology; scene says which one it is.     *)
(* "uploads": r1, r2 and r3 beside one another; u1 has two forwards over    *)
(* one tunnel with an exit, the administrator's forward has no grant.       *)
(* "daily": the uploads of two users beside the daily job, with resets and  *)
(* expiry of a user and of the other one's grant.                           *)
(* "faults": one upload beside the job, which expires the user, and an      *)
(* owner who pauses or resumes, each command of r6, the job and the owner   *)
(* lost, unanswered or executed.  "manual": the same with a reset by hand   *)
(* in place of the owner.                                                   *)
EXTENDS FlowBilling, TLC
CONSTANTS f1, f2, f3, f4, f5, u1, u2, u3, u4, g1, g3, g4, n1, n2,
          r1, r2, r3, r4, r5, r6, m1
VARIABLE scene

MCOwnerOf == (f1 :> u1) @@ (f2 :> u1) @@ (f3 :> u2) @@ (f4 :> u3) @@ (f5 :> u4)
MCGrantOf == (f1 :> g1) @@ (f2 :> g1) @@ (f3 :> NoGrant) @@ (f4 :> g3) @@ (f5 :> g4)
MCAdministrators == {u2}
MCInNode == [f \in Forwards |-> n1]
MCOutNode == [f \in Forwards |-> IF f \in {f1, f5} THEN n2 ELSE NoNode]
MCForwardOf == (r1 :> f1) @@ (r2 :> f2) @@ (r3 :> f3) @@ (r4 :> f4) @@ (r5 :> f5) @@ (r6 :> f5)
MCBilled == [r \in Reports |-> IF r \in {r1, r4, r6} THEN 2 ELSE 1]
\* The limits of the uploads' users and grant are exceeded or reached.
MCLimit == (u1 :> 1) @@ (u2 :> 1) @@ (g1 :> 2) @@ [x \in Accounts |-> 9]
MCSwitches == {f5} \X {0, 1}
MCFaulty == {r6, Daily, Owner}

D == INSTANCE FlowBilling WITH Faulty <- {}
F == INSTANCE FlowBilling WITH Resetting <- {}

Upload(S) == \E r \in S : HandleReport(r) \/ PauseLoop(r)

MCInit == scene \in {"uploads", "daily", "faults", "manual"} /\ Init
MCNext ==
    /\ UNCHANGED scene
    /\ \/ scene = "uploads" /\ Upload({r1, r2, r3})
       \/ scene = "daily" /\ \/ Upload({r4, r5}) \/ D!DailyJob
                             \/ \E x \in {u3, g4} : Expire(x)
       \/ scene \in {"faults", "manual"} /\ (Upload({r6}) \/ F!DailyJob \/ Expire(u4))
       \/ scene = "faults" /\ \/ \E s \in Switches : ChangeForwardStatus(s[1], s[2])
                              \/ SwitchIn \/ SwitchOut \/ SwitchSave
       \/ scene = "manual" /\ (ResetRead(m1, u4) \/ ResetSettle(m1))
MCSpec == MCInit /\ [][MCNext]_<<vars, scene>>
=============================================================================
