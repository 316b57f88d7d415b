----------------------------- MODULE MCForwards -----------------------------
(* Two requests at a time, three in all, one command that goes wrong.       *)
(* "ports" (the constants of the .cfg): port forwards on n1 only, with two  *)
(* ports.  "tunnels": a port forward on n1 and a tunnel from n1 to n2,      *)
(* which compete for the one port of n1.  "taken": as "ports", but another  *)
(* program of n1 holds the UDP socket of the second port.                   *)
EXTENDS ForwardLifecycle, TLC
CONSTANTS t1, t2, n1, n2
VARIABLE scene

MCInNode == [t \in Tunnels |-> n1]
MCOutNode == [t \in Tunnels |-> IF t = t1 THEN n1 ELSE n2]

OnePort == INSTANCE ForwardLifecycle WITH Ports <- {1}, MaxId <- 2
Shared == INSTANCE ForwardLifecycle WITH Taken <- {<<n1, "udp", 2>>}
PortForwards == \A r \in Requests : request[r] # Idle => request[r].entity.tunnel = t1

MCInit ==
    \/ Init /\ scene \in {"tunnels", "ports"}
    \/ Shared!Init /\ scene = "taken"
MCNext ==
    /\ UNCHANGED scene
    /\ \/ scene = "tunnels" /\ OnePort!Next
       \/ scene \in {"ports", "taken"} /\ Next /\ PortForwards'
MCSpec == MCInit /\ [][MCNext]_<<vars, scene>>

\* Which thread of the panel works on a request tells nothing.
Symmetric == Permutations(Requests)
=============================================================================
