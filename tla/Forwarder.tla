----------------------------- MODULE Forwarder ------------------------------
(***************************************************************************)
(* The port forwards of a node (go-gost/x/handler/forward/local, remote)   *)
(* and the sniffer they use (go-gost/x/internal/util/forwarder): it        *)
(* chooses the target by host, method or path, and asks for a target's own *)
(* credentials at every request.                                           *)
(*                                                                         *)
(* Left out: rewriting of requests and responses, recording.               *)
(***************************************************************************)
EXTENDS Steps

\* The target is marked as failed, for the selection of later connections.
Marked == Known("marked")

sniffingWebsocketFrame == Pipe("client", "up")
handleUpgradeResponse ==
    Check("same protocol", Drop) \o Pass(Drop)
    \o Either(<<Pipe("client", "up"), sniffingWebsocketFrame>>) \o Return

\* One request to the target; a refusal ends the connection.
httpRoundTrip ==
    Known("request")
    \o Check("credentials", Refuse)
    \o Send("up", Refuse)
    \o Check("response", Refuse)
    \o Maybe(handleUpgradeResponse)
    \o Check("rewritten", Drop)
    \o Pass(Drop)
    \o Maybe(Return)

\* The host is screened, a target chosen for the request and dialled.
dial ==
    Known("sniffed") \o Check("host", Refuse)
    \o Check("node", Refuse)
    \o Take("up", Marked \o Refuse)

dialTLS == Check("node", Drop) \o Take("up", Marked)

\* Streams are not screened by host; the transport dials for the first one.
ServeHTTP == Maybe(Send("up", Drop))
serveH2(connectTLS) ==
    Check("preface", Drop) \o connectTLS \o Defer("up") \o Loop(Known("stream") \o ServeHTTP)

\* connect is dial, connectTLS dialTLS; or nothing if the target is given and
\* connected.
HandleHTTP(connect, connectTLS) ==
    Check("http", Drop)
    \o Maybe(serveH2(connectTLS) \o Return)
    \o connect \o Defer("up")
    \o httpRoundTrip
    \o Loop(NextRequest \o Check("http", Drop) \o httpRoundTrip)

\* The handshakes on both sides; the requests go to the target of the hello.
terminateTLS ==
    Check("upstream handshake", Drop) \o Check("client handshake", Drop)
    \o HandleHTTP(<<>>, <<>>)

HandleTLS ==
    Check("client hello", Drop)
    \o Known("sniffed") \o Check("host", Drop)
    \o dialTLS \o Defer("up")
    \o Maybe(terminateTLS \o Return)
    \o Send("up", Drop) \o Pass(Drop)
    \o Pipe("client", "up")

\* A forward without the sniffer, or of traffic that is neither.
Plain ==
    Check("node", Drop)
    \o Hold("up", Marked)
    \o Pipe("client", "up")

\* A local forward gives the sniffer no logger: the first use of it, after a
\* request has been read or a node chosen for a hello, is a nil dereference.
local ==
    Check("rate", Drop)
    \o Either(<<
        Plain,
        Check("http", Drop) \o Exit,
        Check("client hello", Drop) \o Known("sniffed") \o Check("host", Drop)
            \o Check("node", Drop) \o Exit>>)

\* A remote forward may name the target itself.
remote == Check("rate", Drop) \o Either(<<Plain, HandleHTTP(dial, dialTLS), HandleTLS>>)

Needs == [always |-> {"rate"}, request |-> {"credentials"}]
Replies == {<<>>, <<"no">>}
Leaks == [always |-> {}]
=============================================================================
