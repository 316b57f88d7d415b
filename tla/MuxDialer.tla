----------------------------- MODULE MuxDialer ------------------------------
(***************************************************************************)
(* The sessions of a multiplexing dialer (go-gost/x/dialer/mtcp, mtls,     *)
(* mws): calls that reach the same node share a session over one           *)
(* connection.  Dial and Handshake of chainRoute.connect each hold the     *)
(* mutex of the table, but not in between, so that the calls interleave    *)
(* there; connections break at any time.                                   *)
(*                                                                         *)
(* Left out: the deadline of the handshake, which falls on the streams of  *)
(* the session too.                                                        *)
(***************************************************************************)

CONSTANTS
    Callers, \* calls to Router.Dial
    Conns,   \* connections to the node; a number is used again
    Addr,    \* the key of Dial: the address that was resolved
    Name,    \* the key of Handshake: the address as configured
    None

\* With a resolver or a host mapper for the node the two keys differ, and a
\* session that Handshake has stored is never found by Dial.
OneKey == Addr = Name /\ None \notin Conns

VARIABLES
    sessions, \* the table: key -> connection, and whether its session is up
    live,     \* the connections that are open
    call,     \* where a call is, and the connection it got of Dial
    newest    \* history: what the last Dial made, if it did not fail

vars == <<sessions, live, call, newest>>

Idle == [at |-> "idle", conn |-> None]

Init ==
    /\ sessions = [k \in {} |-> None]
    /\ live = {}
    /\ call = [c \in Callers |-> Idle]
    /\ newest = None

-----------------------------------------------------------------------------
Has(k) == k \in DOMAIN sessions
Up(k) == Has(k) /\ sessions[k].up
IsClosed(s) == ~s.up \/ s.conn \notin live
Without(key) == [k \in DOMAIN sessions \ {key} |-> sessions[k]]
With(key, n, up) == [k \in DOMAIN sessions \union {key} |->
                        IF k = key THEN [conn |-> n, up |-> up] ELSE sessions[k]]

At(c, where) == call[c].at = where
Goto(c, where, n) == call' = [call EXCEPT ![c] = [at |-> where, conn |-> n]]

\* A number nobody knows any more.
Unused == Conns \ (live \union {sessions[k].conn : k \in DOMAIN sessions}
                        \union {call[c].conn : c \in Callers})

\* Dial: the connection of a session that is up, or a new one.
Reuse(c) ==
    /\ At(c, "idle") /\ Has(Addr) /\ ~IsClosed(sessions[Addr])
    /\ Goto(c, "dialed", sessions[Addr].conn)
    /\ UNCHANGED <<sessions, live, newest>>

NeedsNew == Has(Addr) => IsClosed(sessions[Addr])

\* Mutant of Dial: the table is left to Handshake.
DialUnstored(c) ==
    /\ At(c, "idle") /\ NeedsNew
    /\ \E n \in Unused :
          /\ live' = live \union {n}
          /\ Goto(c, "dialed", n)
          /\ newest' = n
    /\ UNCHANGED sessions

Dial(c) ==
    /\ At(c, "idle") /\ NeedsNew
    /\ \E n \in Unused :
          /\ live' = live \union {n}
          /\ sessions' = With(Addr, n, FALSE)
          /\ Goto(c, "dialed", n)
          /\ newest' = n

\* Nothing listens there.
DialFails(c) ==
    /\ At(c, "idle") /\ Has(Addr) /\ NeedsNew
    /\ sessions' = Without(Addr)
    /\ newest' = None
    /\ UNCHANGED <<live, call>>

-----------------------------------------------------------------------------
\* Mutant of Recognized: the connection is not compared.
RecognizedAny(c) == TRUE

Recognized(c) == Has(Name) => sessions[Name].conn = call[c].conn

\* Mutant of Unrecognized: the connection is left open.
UnrecognizedLeft(c) ==
    /\ At(c, "dialed") /\ ~Recognized(c)
    /\ Goto(c, "idle", None)
    /\ UNCHANGED <<sessions, live, newest>>

\* Mutant of Unrecognized: the one of the table is closed instead.
UnrecognizedOther(c) ==
    /\ At(c, "dialed") /\ ~Recognized(c)
    /\ live' = live \ {sessions[Name].conn, call[c].conn}
    /\ Goto(c, "idle", None)
    /\ UNCHANGED <<sessions, newest>>

\* Handshake: another call has put its connection into the table meanwhile.
Unrecognized(c) ==
    /\ At(c, "dialed") /\ ~Recognized(c)
    /\ live' = live \ {call[c].conn}
    /\ Goto(c, "idle", None)
    /\ UNCHANGED <<sessions, newest>>

\* The session is made when there is none, and a stream opened in it; either
\* fails on a connection that is broken, and is closed and forgotten.
Handshake(c) ==
    /\ At(c, "dialed") /\ Recognized(c)
    /\ LET n == call[c].conn
       IN \/ n \in live /\ sessions' = With(Name, n, TRUE) /\ Goto(c, "opened", n) /\ UNCHANGED live
          \/ /\ ~(n \in live /\ Up(Name))
             /\ live' = live \ {n}
             /\ sessions' = Without(Name)
             /\ Goto(c, "idle", None)
    /\ UNCHANGED newest

\* A connector that greets the node (SOCKS5) runs on the stream; when that
\* fails chainRoute.connect closes what Dial gave it: the connection of all
\* streams.
Greeted(c) ==
    /\ At(c, "opened")
    /\ Goto(c, "using", call[c].conn)
    /\ UNCHANGED <<sessions, live, newest>>

Ungreeted(c) ==
    /\ At(c, "opened")
    /\ live' = live \ {call[c].conn}
    /\ Goto(c, "idle", None)
    /\ UNCHANGED <<sessions, newest>>

\* The stream is closed; the session stays.
Close(c) ==
    /\ At(c, "using")
    /\ Goto(c, "idle", None)
    /\ UNCHANGED <<sessions, live, newest>>

Break(n) ==
    /\ n \in live
    /\ live' = live \ {n}
    /\ UNCHANGED <<sessions, call, newest>>

Next ==
    \/ \E c \in Callers :
          \/ Reuse(c) \/ Dial(c) \/ DialFails(c) \/ Unrecognized(c) \/ Handshake(c)
          \/ Greeted(c) \/ Ungreeted(c) \/ Close(c)
    \/ \E n \in Conns : Break(n)

Spec == Init /\ [][Next]_vars

-----------------------------------------------------------------------------
TypeOK ==
    /\ DOMAIN sessions \subseteq {Addr, Name}
    /\ \A k \in DOMAIN sessions : sessions[k] \in [conn : Conns, up : BOOLEAN]
    /\ live \subseteq Conns
    /\ call \in [Callers -> [at : {"idle", "dialed", "opened", "using"}, conn : Conns \union {None}]]

\* Every open connection carries the session of the table, or is about to be
\* used or closed by a call that has dialed it.
NoOrphan ==
    \A n \in live :
        \/ Up(Name) /\ sessions[Name].conn = n
        \/ \E c \in Callers : At(c, "dialed") /\ call[c].conn = n

\* All streams to a node go over the same connection.
OneSession ==
    \A c, d \in Callers :
        /\ call[c].at \in {"opened", "using"} /\ call[c].conn \in live
        /\ call[d].at \in {"opened", "using"} /\ call[d].conn \in live
        => call[c].conn = call[d].conn

\* A call is not turned away when no other has tried to dial the node since.
NewestTaken ==
    \A c \in Callers : At(c, "dialed") /\ call[c].conn = newest /\ newest \in live => Recognized(c)

\* No call to the node ends the streams of the others, unless its greeting fails.
StreamsKept ==
    [][\A c, d \in Callers : c # d /\ At(c, "dialed") /\ ~UNCHANGED call[c] /\ At(d, "using")
          /\ call[d].conn \in live => call[d].conn \in live']_vars
=============================================================================
