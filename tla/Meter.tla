------------------------------- MODULE Meter -------------------------------
(***************************************************************************)
(* What traffic accounting promises to a user: the bytes charged never     *)
(* exceed the bytes the service has carried, and neither figure shrinks.   *)
(***************************************************************************)
EXTENDS Naturals

VARIABLES
    used,     \* bytes carried so far
    charged   \* bytes the panel has been told of and has accepted

Init == used = 0 /\ charged = 0

\* Bytes are carried, reports are charged, also both at once: a report that
\* is executed again counts as traffic of its own.
Next ==
    /\ used <= used' /\ charged <= charged'
    /\ charged' <= used'

Spec == Init /\ [][Next]_<<used, charged>>
=============================================================================
