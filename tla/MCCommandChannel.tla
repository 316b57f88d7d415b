-------------------------- MODULE MCCommandChannel --------------------------
(* Small instances of CommandChannel.  The requests are interchangeable.    *)
EXTENDS CommandChannel, TLC
Symmetry == Permutations(Requests)
=============================================================================
