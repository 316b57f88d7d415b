---------------------------- MODULE MCNodeConfig ----------------------------
(* What the goroutines of a node share, a scene each.  "objects": requests  *)
(* and reloads of the web API on the named objects of each kind, two names. *)
(* "services": single and batch requests on two services; the lists share a *)
(* name and an address, so that requests overlap and run into taken ports.  *)
(* "limiter": three connections of two clients against the limits for all,  *)
(* for one client and for each.  "dialer": three calls to a node.           *)
EXTENDS MuxDialer, ObjectConfig, ConnLimiter, ServiceApi, SequencesExt, TLC
CONSTANTS n1, n2, a1, a2, h1, h2, x1, x2, x3
VARIABLE scene

ASSUME ObjectAssumption /\ LimiterAssumption

\* Files of up to two entries.
TwoEntries == SeqOf(Names, 2)

\* One name, two names, and a name that wants the address of the other one.
At1 == [name |-> n1, addr |-> a1]
ThreeLists == {<<At1>>, <<At1, [name |-> n2, addr |-> a2]>>, <<[name |-> n2, addr |-> a1]>>}

\* Two connections of the first client, one of the second; a limit for all with
\* one for the first client, and a limit for each.
TwoAndOne == x1 :> h1 @@ x2 :> h1 @@ x3 :> h2
Mixed == [global |-> 2, own |-> (h1 :> 1 @@ h2 :> 0), net |-> (h1 :> 0 @@ h2 :> 0), each |-> 1]
Each == [global |-> 1, own |-> (h1 :> 0 @@ h2 :> 0), net |-> (h1 :> 2 @@ h2 :> 0), each |-> 1]
MixedOrEach == {Mixed, Each}

all == <<scene, vars, objectVars, serviceVars, limitVars>>

McInit ==
    /\ scene \in {"objects", "services", "limiter", "dialer"}
    /\ ObjectInit /\ (scene # "objects" => kind = "hop")
    /\ LimitInit /\ (scene # "limiter" => config = Each)
    /\ ServiceInit /\ Init

Objects(A) == scene = "objects" /\ A /\ UNCHANGED <<scene, serviceVars, limitVars, vars>>
Requests(A) == scene = "services" /\ A /\ UNCHANGED <<scene, objectVars, limitVars, vars>>
Limits(A) == scene = "limiter" /\ A /\ UNCHANGED <<scene, objectVars, serviceVars, vars>>
Dialer(A) == scene = "dialer" /\ A /\ UNCHANGED <<scene, objectVars, serviceVars, limitVars>>

McNext == Objects(ObjectNext) \/ Requests(ServiceNext) \/ Limits(LimitNext) \/ Dialer(Next)
McSpec == McInit /\ [][McNext]_all

Symmetric == Permutations(Threads)

\* Where the exploration stops: every name is crossed, or two leaks.
Interesting == crossed # Services /\ Cardinality(leaked) <= 1
=============================================================================
