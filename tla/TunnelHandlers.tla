--------------------------- MODULE TunnelHandlers ---------------------------
(***************************************************************************)
(* Reverse tunnels and the virtual router (go-gost/x/handler/tunnel,       *)
(* router): a client binds and stays, as a connector of its tunnel, or     *)
(* connects to one; the entry point does so for visitors.  Which connector *)
(* of a tunnel is taken is left out.                                       *)
(***************************************************************************)
EXTENDS Steps

Head_ ==
    Check("rate", Drop)
    \o Check("request", Drop)
    \o Check("version", Refuse)

\* Dialer.Dial finds a connector here, or a node that has one; there the
\* request is repeated and the answer comes from.
handleConnect ==
    Check("bypass", Refuse)
    \o Check("route", Refuse)
    \o Hold("up", Refuse)
    \o Maybe(Tell("yes"))
    \o Pipe("client", "up")

\* The connection becomes the session of a new connector, which closes it.
handleBind ==
    Announce("yes")
    \o Take("session", Drop)
    \o HandOver("client")

tunnel ==
    Head_
    \o Check("tunnel", Refuse)
    \o Check("auth", Refuse)
    \o Either(<<
        Known("connect") \o handleConnect,
        Known("bind") \o handleBind,
        Refuse>>)

-----------------------------------------------------------------------------
\* The entry point: the host names the tunnel, and that must not be private.
epDial(else) == Check("public tunnel", else) \o Take("up", else)

epUpgrade ==
    Check("same protocol", Drop) \o Check("writable", Drop)
    \o Tell("yes") \o Pipe("client", "up")

epRoundTrip ==
    epDial(Refuse) \o Send("up", Close("up") \o Refuse) \o Defer("up")
    \o Check("response", Refuse)
    \o Either(<<epUpgrade, Tell("yes")>>)
    \o Close("up")

epHTTP ==
    Check("http", Drop) \o epRoundTrip
    \o Loop(NextRequest \o Check("http", Drop) \o epRoundTrip)

epTLS ==
    Check("client hello", Drop)
    \o epDial(Drop) \o Defer("up")
    \o Send("up", Drop) \o Pass(Drop)
    \o Pipe("client", "up")

\* Another node's connect: the tunnel is named, and its route was found there.
epConnect ==
    Check("request", Drop)
    \o Check("tunnel", Refuse)
    \o Known("by node")
    \o Hold("up", Refuse)
    \o Tell("yes")
    \o Pipe("client", "up")

entrypoint == Check("first byte", Drop) \o Either(<<Known("by visitor") \o epHTTP, Known("by visitor") \o epTLS, epConnect>>)

-----------------------------------------------------------------------------
\* A router's client: its connector is in the pool, and registered, while it
\* is connected.
handleAssociate ==
    Check("route", Refuse)
    \o Announce("yes")
    \o Hold("connector", Drop)
    \o Maybe(Hold("registration", Drop))
    \o Loop(If("packet", Send("up", Drop)))

router ==
    Head_
    \o Check("auth", Refuse)
    \o Either(<<handleAssociate, Refuse>>)

Needs == [always |-> {"rate", "auth"}, connect |-> {"bypass", "route"}]
EntryNeeds == [always |-> {}]
Replies == {<<>>, <<"yes">>, <<"no">>}
Leaks == [bind |-> {"client", "session"}]
=============================================================================
