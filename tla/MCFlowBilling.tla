--------------------------- MODULE MCFlowBilling ---------------------------
(* Small instances of FlowBilling: a user with two forwards, one of them    *)
(* through a tunnel with an exit, and an administrator's forward without a  *)
(* grant.                                                                   *)
EXTENDS FlowBilling, TLC
CONSTANTS f1, f2, f3, u1, u2, g1, g2, n1, n2, r1, r2, r3

MCOwnerOf == [f \in Forwards |-> IF f = f3 THEN u2 ELSE u1]
\* f1 and f2 run over one tunnel and share its grant.
MCOneGrant == [f \in Forwards |-> IF f = f3 THEN NoGrant ELSE g1]

MCAdministrators == Users \cap {u2}

MCInNode == [f \in Forwards |-> n1]
MCOutNode == [f \in Forwards |-> IF f = f1 THEN n2 ELSE NoNode]

MCForwardOf == [r \in Reports |-> IF r = r2 THEN f2 ELSE IF r = r3 THEN f3 ELSE f1]
\* Both uploads name f1.
MCSameForward == [r \in Reports |-> f1]
MCBilled == [r \in Reports |-> IF r = r1 THEN 2 ELSE 1]

\* A limit the first report exceeds or reaches.
MCLow == [x \in Accounts |-> IF x \in Users THEN 1 ELSE 2]
=============================================================================
