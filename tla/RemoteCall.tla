----------------------------- MODULE RemoteCall -----------------------------
(***************************************************************************)
(* What a caller of GostUtil may rely on: a command is executed at most    *)
(* once; an answer means that it has been executed; a refusal (the node is *)
(* offline) means that it has not been and never will be; and a timeout    *)
(* says nothing: the command may still be executed after the caller has    *)
(* gone on.                                                                *)
(***************************************************************************)
EXTENDS Naturals
CONSTANT Requests
VARIABLES
    executed,   \* how often the node has executed a command
    result      \* what the caller was told

vars == <<executed, result>>

Init ==
    /\ executed = [r \in Requests |-> 0]
    /\ result = [r \in Requests |-> "none"]

Execute(r) ==
    /\ executed[r] = 0 /\ result[r] # "refused"
    /\ executed' = [executed EXCEPT ![r] = 1]
    /\ UNCHANGED result

Return(r, how) ==
    /\ result[r] = "none"
    /\ how = "ok" => executed[r] = 1
    /\ how = "refused" => executed[r] = 0
    /\ result' = [result EXCEPT ![r] = how]
    /\ UNCHANGED executed

Next == \E r \in Requests : Execute(r) \/ \E how \in {"ok", "refused", "unknown"} : Return(r, how)

Spec == Init /\ [][Next]_vars
=============================================================================
