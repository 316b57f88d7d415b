---------------------------- MODULE MCNodeAgent ----------------------------
(* Small instance of NodeAgent: two services of one forward (tcp and udp),  *)
(* single commands on the first or on both of them, and four batches.  The  *)
(* pairs of addresses are two different ones, a clash and, for an update,   *)
(* the exchange of the two.                                                 *)
EXTENDS NodeAgent, TLC
CONSTANTS s1, s2, a1, a2

At(s, a) == [name |-> s, addr |-> a]

MCBoth == <<At(s1, a1), At(s2, a2)>>
MCExchange == <<At(s1, a2), At(s2, a1)>>
MCItemLists == {<<At(s1, a)>> : a \in {a1, a2}} \cup {MCBoth, <<At(s1, a1), At(s2, a1)>>}

\* The address is not used by the commands that only name services.
MCNames == {<<At(s1, a1)>>, <<At(s1, a1), At(s2, a1)>>}

MCCommands ==
    [op : {"Add", "Update", "Upsert"}, items : MCItemLists]
        \cup [op : {"Update"}, items : {MCExchange}]
        \cup [op : {"Delete", "Pause", "Resume"}, items : MCNames]

MCMessages ==
    {<<c>> : c \in MCCommands}
        \cup {<<[op |-> o, items |-> MCBoth], [op |-> p, items |-> MCBoth]>> :
                 o \in {"Pause", "Delete"}, p \in {"Resume", "Add"}}
=============================================================================
