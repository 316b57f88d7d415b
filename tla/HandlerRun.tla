----------------------------- MODULE HandlerRun -----------------------------
(***************************************************************************)
(* The goroutines that serve one accepted connection.  Programs gives for  *)
(* every protocol the steps of its Handle; a goroutine runs its steps in   *)
(* order, and closes what it deferred when it has run out of them.  Every  *)
(* outcome of a check, a dial, a read or a write is possible.              *)
(***************************************************************************)
EXTENDS Steps, Naturals, SequencesExt

CONSTANTS
    Programs,   \* protocol -> the steps of its Handle
    Given,      \* protocol -> what is open when its function is called, and
                \* closed by the caller or a defer when it returns
    NeedsOf,    \* protocol -> what is known of a request -> checks it needs
    RepliesOf,  \* protocol -> the answers a client may have got
    LeaksOf,    \* protocol -> what is known -> what the code may leave open
    MaxRoutines \* bound on the goroutines of a connection

VARIABLES
    proto,   \* the protocol of the connection
    routine, \* its goroutines: the steps left and what is deferred
    open,    \* what is open: client, upstream, listeners, counters
    told,    \* the answers to the current request
    kept,    \* answers written to a buffer
    clear,   \* what is known of the current request: the checks it has passed
    events   \* what goroutines have signalled

vars == <<proto, routine, open, told, kept, clear, events>>

Init ==
    /\ proto \in DOMAIN Programs
    /\ routine = <<[todo |-> Programs[proto], defers |-> Given[proto]]>>
    /\ open = Given[proto]
    /\ told = <<>> /\ kept = <<>> /\ clear = {} /\ events = {}

-----------------------------------------------------------------------------
Running(i) == routine[i].todo # <<>>
Now(i) == Head(routine[i].todo)
Do(i, do) == Running(i) /\ Now(i).do = do
Rest(i) == Tail(routine[i].todo)
Else(i) == Now(i).alt[1]

CanFail(i) == Now(i).alt # <<>>

\* Opening again what is still open loses it.
Opened(what) == {what} \union (IF what \in open THEN {"lost"} ELSE {})

Continue(i, p) == routine' = [routine EXCEPT ![i].todo = p]

Check_(i) ==
    /\ Do(i, "check")
    /\ \/ Continue(i, Rest(i)) /\ clear' = clear \union {Now(i).what}
       \/ CanFail(i) /\ Continue(i, Else(i)) /\ UNCHANGED clear
    /\ UNCHANGED <<proto, open, told, kept, events>>

If_(i) ==
    /\ Do(i, "if")
    /\ \/ Continue(i, Else(i) \o Rest(i)) /\ clear' = clear \union {Now(i).what}
       \/ Continue(i, Rest(i)) /\ UNCHANGED clear
    /\ UNCHANGED <<proto, open, told, kept, events>>

Take_(i) ==
    /\ Do(i, "take")
    /\ \/ Continue(i, Rest(i)) /\ open' = open \union Opened(Now(i).what)
       \/ CanFail(i) /\ Continue(i, Else(i)) /\ UNCHANGED open
    /\ UNCHANGED <<proto, told, kept, clear, events>>

Close_(i) ==
    /\ Do(i, "close")
    /\ open' = open \ {Now(i).what}
    /\ Continue(i, Rest(i))
    /\ UNCHANGED <<proto, told, kept, clear, events>>

Defer_(i) ==
    /\ Do(i, "defer")
    /\ routine' = [routine EXCEPT ![i] =
                      [todo |-> Rest(i), defers |-> @.defers \union {Now(i).what}]]
    /\ UNCHANGED <<proto, open, told, kept, clear, events>>

HandOver_(i) ==
    /\ Do(i, "hand over")
    /\ routine' = [routine EXCEPT ![i] =
                      [todo |-> Rest(i), defers |-> @.defers \ {Now(i).what}]]
    /\ UNCHANGED <<proto, open, told, kept, clear, events>>

\* The function returns: what it deferred is closed.
Return_(i) ==
    /\ Running(i) => Now(i).do = "return"
    /\ Running(i) \/ routine[i].defers # {}
    /\ open' = open \ routine[i].defers
    /\ routine' = [routine EXCEPT ![i] = [todo |-> <<>>, defers |-> {}]]
    /\ UNCHANGED <<proto, told, kept, clear, events>>

\* The process ends, and everything with it.
Exit_(i) ==
    /\ Do(i, "exit")
    /\ routine' = [j \in DOMAIN routine |-> [todo |-> <<>>, defers |-> {}]]
    /\ open' = {}
    /\ UNCHANGED <<proto, told, kept, clear, events>>

Say_(i) ==
    /\ Do(i, "say")
    /\ \/ /\ Continue(i, Rest(i))
          /\ told' = told \o kept \o <<Now(i).what>>
          /\ kept' = <<>>
       \/ CanFail(i) /\ Continue(i, Else(i)) /\ UNCHANGED <<told, kept>>
    /\ UNCHANGED <<proto, open, clear, events>>

\* Payload for the client takes the buffered answers with it.
Pass_(i) ==
    /\ Do(i, "pass")
    /\ \/ Continue(i, Rest(i)) /\ told' = told \o kept /\ kept' = <<>>
       \/ Continue(i, Else(i)) /\ UNCHANGED <<told, kept>>
    /\ UNCHANGED <<proto, open, clear, events>>

Keep_(i) ==
    /\ Do(i, "keep")
    /\ kept' = Append(kept, Now(i).what)
    /\ Continue(i, Rest(i))
    /\ UNCHANGED <<proto, open, told, clear, events>>

Piping(i) == Do(i, "pipe") /\ {Now(i).what, Now(i).with} \subseteq open

Flush_(i) ==
    /\ Piping(i) /\ kept # <<>>
    /\ told' = told \o kept
    /\ kept' = <<>>
    /\ UNCHANGED <<proto, routine, open, clear, events>>

\* Transport returns when one direction ends.
Pipe_(i) ==
    /\ Do(i, "pipe")
    /\ Continue(i, Rest(i))
    /\ UNCHANGED <<proto, open, told, kept, clear, events>>

Send_(i) ==
    /\ Do(i, "send")
    /\ Continue(i, Rest(i)) \/ Continue(i, Else(i))
    /\ clear' = clear \ {"packet"}
    /\ UNCHANGED <<proto, open, told, kept, events>>

\* As select: a branch that begins with a wait is taken when its wait is over.
Ready(p) == p # <<>> =>
    /\ p[1].do \in {"on", "receive"} => p[1].what \in events
    /\ p[1].do = "gone" => p[1].what \notin open \union events
Begun(p) == IF p # <<>> /\ p[1].do \in {"on", "receive", "gone"} THEN Tail(p) ELSE p
Received(p) == IF p # <<>> /\ p[1].do = "receive" THEN {p[1].what} ELSE {}

Either_(i) ==
    /\ Do(i, "either")
    /\ \E p \in Range(Now(i).alt) :
          /\ Ready(p)
          /\ Continue(i, Begun(p) \o Rest(i))
          /\ events' = events \ Received(p)
    /\ UNCHANGED <<proto, open, told, kept, clear>>

Loop_(i) ==
    /\ \/ Do(i, "loop") /\ (Continue(i, Else(i) \o routine[i].todo) \/ Continue(i, Rest(i)))
       \/ Do(i, "forever") /\ Continue(i, Else(i) \o routine[i].todo)
    /\ UNCHANGED <<proto, open, told, kept, clear, events>>

Go_(i) ==
    /\ Do(i, "go")
    /\ Len(routine) < MaxRoutines
    /\ routine' = Append([routine EXCEPT ![i].todo = Rest(i)], [todo |-> Else(i), defers |-> {}])
    /\ UNCHANGED <<proto, open, told, kept, clear, events>>

Signal_(i) ==
    /\ Do(i, "signal")
    /\ events' = events \union {Now(i).what}
    /\ Continue(i, Rest(i))
    /\ UNCHANGED <<proto, open, told, kept, clear>>

Gone_(i) ==
    /\ Do(i, "gone") /\ Now(i).what \notin open \union events
    /\ Continue(i, Rest(i))
    /\ UNCHANGED <<proto, open, told, kept, clear, events>>

\* One peer at a time.
Accept_(i) ==
    /\ Do(i, "accept")
    /\ \/ /\ Now(i).with \in open /\ Now(i).what \notin open
          /\ open' = open \union {Now(i).what}
          /\ Continue(i, Rest(i))
       \/ Now(i).with \notin open /\ Continue(i, Else(i)) /\ UNCHANGED open
    /\ UNCHANGED <<proto, told, kept, clear, events>>

NextRequest_(i) ==
    /\ Do(i, "next")
    /\ clear' = clear \intersect {"rate", "auth", "granted"}
    /\ told' = <<>> /\ kept' = <<>>
    /\ Continue(i, Rest(i))
    /\ UNCHANGED <<proto, open, events>>

Next == \E i \in DOMAIN routine :
    \/ Check_(i) \/ If_(i) \/ Take_(i) \/ Close_(i) \/ Defer_(i) \/ HandOver_(i) \/ Return_(i) \/ Exit_(i)
    \/ Say_(i) \/ Pass_(i) \/ Keep_(i) \/ Flush_(i) \/ Pipe_(i) \/ Send_(i)
    \/ Either_(i) \/ Loop_(i) \/ Go_(i) \/ Signal_(i) \/ Gone_(i)
    \/ Accept_(i) \/ NextRequest_(i)

Spec == Init /\ [][Next]_vars

-----------------------------------------------------------------------------
\* A goroutine that has returned, or waits for what nobody is left to do.
Done(i) ==
    \/ ~Running(i) /\ routine[i].defers = {}
    \/ Running(i) /\ ~Ready(routine[i].todo)
    \/ Do(i, "either") /\ \A p \in Range(Now(i).alt) : ~Ready(p)
Ended == \A i \in DOMAIN routine : Done(i)

\* The part of a table that applies to the current request.
OfThis(table) == UNION {table[w] : w \in DOMAIN table \intersect (clear \union {"always"})}

Passing(i) ==
    \/ Piping(i) /\ {Now(i).what, Now(i).with} \intersect {"up", "session"} # {}
    \/ Do(i, "send") /\ Now(i).what = "up"

\* No payload reaches the other end before every check the protocol makes of
\* a request has passed for the request the payload belongs to; where the
\* sniffed name of the host is checked as well, not before that one.
Screened == \A i \in DOMAIN routine : Passing(i) =>
    /\ OfThis(NeedsOf[proto]) \subseteq clear
    /\ "sniffed" \in clear => "host" \in clear

\* A client is answered in one of the ways of its protocol: once, or twice
\* for a bind.  Payload of the other end comes after the good answer, and
\* after a bad one there is none.
ToldOnce ==
    /\ told \o kept \in RepliesOf[proto]
    /\ told # <<>> /\ Last(told) = "no" => ~\E i \in DOMAIN routine : Passing(i)

\* Once its goroutines have returned, or wait for ever, nothing is left open:
\* no socket, session or listener, and no count of it in CurrentConns.
NothingLeft == Ended => open \subseteq OfThis(LeaksOf[proto])
=============================================================================
