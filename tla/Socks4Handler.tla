--------------------------- MODULE Socks4Handler ----------------------------
(* The SOCKS4 and 4A proxy (go-gost/x/handler/socks/v4).                    *)
EXTENDS Steps

LOCAL F == INSTANCE Sniffer

\* The target was screened before it was dialled; the sniffer screens nothing.
sniffed == Either(<<
    <<>>,
    F!HandleHTTP(F!NoScreen, <<>>) \o Return,
    F!HandleTLS(F!NoScreen, <<>>) \o Return>>)

\* Mutant of handleConnect: the client is told before the target is dialled.
handleConnectEarly ==
    Count
    \o Check("bypass", Refuse)
    \o Tell("yes")
    \o Hold("up", Refuse)
    \o sniffed
    \o Pipe("client", "up")

handleConnect ==
    Count
    \o Check("bypass", Refuse)
    \o Hold("up", Refuse)
    \o Tell("yes")
    \o sniffed
    \o Pipe("client", "up")

handleBind == Return \* not implemented

Handle ==
    Check("rate", Drop)
    \o Check("request", Drop)
    \o Check("auth", Refuse)
    \o Either(<<handleConnect, handleBind, Return>>)

Needs == [always |-> {"rate", "auth", "bypass"}]
Replies == {<<>>, <<"yes">>, <<"no">>}
Leaks == [always |-> {}]
=============================================================================
