---------------------------- MODULE MiscHandlers ----------------------------
(***************************************************************************)
(* The handlers that are not proxies of a protocol of their own            *)
(* (go-gost/x/handler/sshd, dns, file, metrics, api, auto, tun, tap).      *)
(***************************************************************************)
EXTENDS Steps, TLC

LOCAL F == INSTANCE Sniffer
LOCAL S4 == INSTANCE Socks4Handler
LOCAL S5 == INSTANCE Socks5Handler
LOCAL H == INSTANCE HttpHandlers

Rate == Check("rate", Drop)

\* The listener has authenticated the client and answered the request for a
\* channel.
handleDirectForward ==
    Known("direct") \o Check("bypass", Drop)
    \o Hold("up", Drop)
    \o Either(<<
        <<>>,
        F!HandleHTTP(F!NoScreen, <<>>) \o Return,
        F!HandleTLS(F!NoScreen, <<>>) \o Return>>)
    \o Pipe("client", "up")

\* A listener for as long as the client's ssh connection; every peer gets a
\* channel of it.
handleRemoteForward ==
    Check("payload", Drop)
    \o Hold("lis", Refuse)
    \o Check("port", Drop) \o Tell("yes")
    \o Go(Forever(
        Accept("peer", "lis", Drop)
        \o Go(Defer("peer") \o Check("port", Drop) \o Hold("stream", Drop)
              \o Pipe("stream", "peer"))))
    \o Pipe("client", "end of session")

sshd == Rate \o Either(<<handleDirectForward, handleRemoteForward, Drop \o Return>>)

-----------------------------------------------------------------------------
\* A query: answered from the hosts, from the cache, or by the exchanger of the
\* chosen node.  A bypassed name gets an empty answer, but only queries of the
\* class IN are looked at.
exchange == Send("up", Drop) \o Check("reply", Drop)

request ==
    Check("question", Drop)
    \o Either(<<Known("internet") \o Check("bypass", Tell("yes")), Known("other class")>>)
    \o Maybe(Tell("yes") \o Return)
    \o Check("exchanger", Drop)
    \o Maybe(Go(exchange) \o Tell("yes") \o Return)
    \o exchange
    \o Tell("yes")

dns == Rate \o Check("query", Drop) \o request

-----------------------------------------------------------------------------
\* A web server of its own serves the connection; when it has been closed, the
\* connection is dropped as it is.
file == HandOver("client") \o Either(<<Known("served"), Known("server closed")>>)

\* The server is started for the connection, and Serve returns when its
\* listener has no second one.  The connection goes on by itself.
metrics == HandOver("client") \o Known("served")

\* The first byte tells the protocol.
auto == Check("first byte", Drop) \o Either(<<S4!Handle, S5!Handle, Known("http") \o H!Handle>>)

-----------------------------------------------------------------------------
\* A network device is the client here.  The link is made again whenever it
\* breaks, until the device fails.
session == Maybe(Opens("up") \o Pipe("client", "up") \o Close("up"))
tun == Either(<<Check("addresses", Drop) \o Loop(session), Loop(session)>>)

\* A link of the wrong type is dropped as it is.  Once it returns, the handler
\* ends the process.
frames == Maybe(Opens("up") \o Maybe(Pipe("client", "up") \o Close("up")))
tap == Check("address", Exit) \o Loop(frames) \o Exit

SshdNeeds == [always |-> {"rate"}, direct |-> {"bypass"}]
DnsNeeds == [always |-> {"rate", "question"}, internet |-> {"bypass"}]
AutoNeeds == S5!Needs
NoNeeds == [always |-> {}]
Silent == {<<>>}
Replies == {<<>>, <<"yes">>, <<"no">>}
AutoReplies == S5!Replies
AutoLeaks == S5!Leaks
NoLeaks == [always |-> {}]
ServedLeaks == [always |-> {"client"}]
=============================================================================
