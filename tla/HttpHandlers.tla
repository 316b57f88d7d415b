---------------------------- MODULE HttpHandlers ----------------------------
(***************************************************************************)
(* The HTTP proxies (go-gost/x/handler/http, http2, http3).  The first one *)
(* serves a connection request by request; the others are given one        *)
(* request by their listener.                                              *)
(*                                                                         *)
(* Left out: headers; that a refusal may look like another site's page.    *)
(***************************************************************************)
EXTENDS Steps

LOCAL F == INSTANCE Sniffer

Rate == Check("rate", Drop)

\* Who fails is refused, or is handed to another host without a word.
authenticate ==
    Check("auth", Either(<<Refuse, Hold("decoy", Refuse) \o Pipe("client", "decoy")>>))

\* udp.Relay: every packet is screened by its own address.
Run == Loop(If("packet", Send("up", Drop)))

\* The answer comes before the association exists.
handleUDP ==
    Known("packets")
    \o Check("allowed", Refuse)
    \o Tell("yes")
    \o Hold("up", Drop)
    \o Run

sniffingWebsocketFrame == Pipe("client", "up")
handleUpgradeResponse ==
    Check("same protocol", Drop) \o Check("writable", Drop)
    \o Tell("yes")
    \o Either(<<Pipe("client", "up"), sniffingWebsocketFrame>>) \o Return

\* The host of every request is screened; the transport connects.  What is
\* open is the body of the response.
proxyRoundTrip ==
    Check("bypass", Refuse)
    \o Send("up", Refuse) \o Hold("up", Refuse)
    \o Maybe(handleUpgradeResponse)
    \o Tell("yes")
    \o Close("up")
    \o Maybe(Return)

handleProxy ==
    proxyRoundTrip
    \o Loop(NextRequest \o Check("request", Drop) \o proxyRoundTrip)

sniffed == Either(<<
    <<>>,
    F!HandleHTTP(F!NoScreen, <<>>) \o Return,
    F!HandleTLS(F!NoScreen, <<>>) \o Return>>)

handleConnect ==
    Hold("up", Refuse)
    \o Tell("yes")
    \o sniffed
    \o Pipe("client", "up")

handleRequest ==
    Check("valid", Refuse)
    \o authenticate
    \o Check("bypass", Refuse)
    \o Either(<<handleUDP, Count \o Either(<<handleProxy, handleConnect>>)>>)

Handle == Rate \o Check("request", Drop) \o handleRequest

-----------------------------------------------------------------------------
\* HTTP/2: a request of any other method is dialled for and then refused.
\* Over HTTP/1.1 the connection is taken over after the answer.
forwardRequest == Send("decoy", Drop) \o Pass(Drop)
authenticate2 ==
    Check("auth", Either(<<Announce("no"), Hold("decoy", Refuse) \o forwardRequest>>))

roundTrip2 ==
    authenticate2
    \o Check("bypass", Announce("no"))
    \o Hold("up", Announce("no"))
    \o Check("connect", Announce("no"))
    \o Announce("yes")
    \o Maybe(Hold("hijacked", Announce("no")))
    \o Count
    \o Pipe("client", "up")

Handle2 == Rate \o Check("type", Drop) \o roundTrip2

-----------------------------------------------------------------------------
Marked == Known("marked")

\* HTTP/3 is a reverse proxy.  The transport is made for the request: the
\* connection it keeps for a next one is closed by nobody but its idle timer.
roundTrip3 ==
    Check("bypass", Announce("no"))
    \o Check("node", Drop)
    \o Take("up", Marked \o Announce("no"))
    \o Send("up", Announce("no"))
    \o Announce("yes")

Handle3 == Rate \o Check("type", Drop) \o roundTrip3

Needs == [always |-> {"rate", "auth", "bypass"}, packets |-> {"allowed", "packet"}]
Needs3 == [always |-> {"rate", "bypass"}]
Replies == {<<>>, <<"yes">>, <<"no">>}
Replies2 == Replies \union {<<"yes", "no">>}
Leaks == [always |-> {}]
Leaks3 == [always |-> {"up"}]
=============================================================================
