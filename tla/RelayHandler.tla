---------------------------- MODULE RelayHandler ----------------------------
(* The relay protocol of gost (go-gost/x/handler/relay).                    *)
EXTENDS Steps, TLC

LOCAL F == INSTANCE Sniffer

Marked == Known("marked")

\* The good answer is sent at once, or with the first payload (tcpConn and
\* udpConn of conn.go).
Answer == Either(<<Tell("yes"), Keep("yes")>>)

sniffed == Either(<<
    <<>>,
    F!HandleHTTP(F!NoScreen, <<>>) \o Return,
    F!HandleTLS(F!NoScreen, <<>>) \o Return>>)

\* To a target of the node, whatever the client asked for.
handleForward ==
    Check("node", Refuse)
    \o Count
    \o Hold("up", Marked \o Refuse)
    \o Answer
    \o Pipe("client", "up")

handleConnect ==
    Count
    \o Check("address", Refuse)
    \o Check("bypass", Refuse)
    \o Hold("up", Refuse)
    \o Answer
    \o sniffed
    \o Pipe("client", "up")

\* The entry point: every peer gets a stream of the client's session.
tcpHandle ==
    Defer("peer") \o Hold("stream", Drop)
    \o Check("named", Drop) \o Pipe("stream", "peer")

bindTCP ==
    Hold("lis", Refuse)
    \o Tell("yes")
    \o Hold("session", Drop)
    \o Go(Pipe("client", "session") \o Close("lis"))
    \o Forever(Accept("peer", "lis", Drop) \o Go(tcpHandle))

\* udp.Relay: every packet is screened by its own address.
Run == Loop(If("packet", Send("up", Drop)))

\* No answer if there is no socket.
bindUDP ==
    Known("packets")
    \o Hold("up", Drop)
    \o Tell("yes")
    \o Run

handleBind == Count \o Check("allowed", Refuse) \o Either(<<bindTCP, bindUDP>>)

Handle ==
    Check("rate", Drop)
    \o Check("request", Drop)
    \o Check("version", Refuse)
    \o Check("auth", Refuse)
    \o Either(<<
        handleForward,
        Known("connect") \o handleConnect,
        Known("bind") \o handleBind,
        Refuse>>)

Needs == [always |-> {"rate", "auth"}, connect |-> {"bypass"},
          bind |-> {"allowed"}, packets |-> {"packet"}]
Replies == {<<>>, <<"yes">>, <<"no">>}
Leaks == [always |-> {}]
=============================================================================
