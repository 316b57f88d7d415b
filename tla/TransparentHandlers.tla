------------------------ MODULE TransparentHandlers -------------------------
(***************************************************************************)
(* Handlers that say nothing of their own to the client: the target is in  *)
(* the first bytes (sni, ss), in the packet filter (redirect) or in the    *)
(* configuration (unix, serial).                                           *)
(***************************************************************************)
EXTENDS Steps

LOCAL F == INSTANCE Sniffer

Rate == Check("rate", Drop)

\* A connection dialled beforehand; the sniffer only looks on.
LookOn == Either(<<
    <<>>,
    F!HandleHTTP(F!NoScreen, <<>>) \o Return,
    F!HandleTLS(F!NoScreen, <<>>) \o Return>>)

\* The host name is all there is to go by.
sni ==
    Rate
    \o Either(<<
        F!HandleHTTP(F!Screen, Take("up", Drop)),
        F!HandleTLS(F!Screen, Take("up", Drop)),
        Return>>)

\* What cannot be decrypted is read to its end.
ss ==
    Rate
    \o Check("address", Pipe("client", "discard"))
    \o Known("direct") \o Check("bypass", Drop)
    \o Hold("up", Drop)
    \o LookOn
    \o Pipe("client", "up")

\* Packets are screened one by one, in both directions.
relayPacket == Loop(If("packet", Send("up", Drop)))
ssu == Known("packets") \o Rate \o Hold("up", Drop) \o relayPacket

\* By host name, or else to where the connection was going.
sniffedDial ==
    Either(<<
        Take("up", Drop),
        Known("direct") \o Check("bypass", Drop) \o Take("up", Drop)>>)

redirectTCP ==
    Rate
    \o Check("original address", Drop)
    \o Maybe(Either(<<
            F!HandleHTTP(F!Screen, sniffedDial),
            F!HandleTLS(F!Screen, sniffedDial)>>) \o Return)
    \o Known("direct") \o Check("bypass", Drop)
    \o Hold("up", Drop)
    \o Pipe("client", "up")

redirectUDP ==
    Rate
    \o Known("direct") \o Check("bypass", Drop)
    \o Hold("up", Drop)
    \o Pipe("client", "up")

\* The sniffer of the unix handler, for a target of its own.
unixRoundTrip ==
    Send("up", Drop) \o Check("response", Drop) \o Pass(Drop)
    \o Maybe(Pipe("client", "up")) \o Maybe(Return)
handleHTTP ==
    Check("http", Drop)
    \o Known("sniffed") \o Check("host", Drop)
    \o unixRoundTrip
    \o Loop(Check("http", Drop) \o unixRoundTrip)
handleTLS ==
    Check("client hello", Drop)
    \o Send("up", Drop) \o Pass(Drop)
    \o Pipe("client", "up")

forwardUnix ==
    Hold("up", Drop)
    \o Either(<<<<>>, handleHTTP \o Return, handleTLS \o Return>>)
    \o Pipe("client", "up")

unix == Either(<<
    Check("node", Drop) \o forwardUnix,
    Hold("up", Drop) \o LookOn \o Pipe("client", "up")>>)

forwardSerial == Hold("up", Drop) \o Pipe("client", "up")
serial == Either(<<
    Check("node", Drop) \o forwardSerial,
    Hold("up", Drop) \o Pipe("client", "up")>>)

Needs == [always |-> {"rate"}, direct |-> {"bypass"}, packets |-> {"packet"}]
NoNeeds == [always |-> {}]
Replies == {<<>>}
Leaks == [always |-> {}]
=============================================================================
