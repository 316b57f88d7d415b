------------------------------ MODULE Sniffer -------------------------------
(***************************************************************************)
(* What a handler does with a connection whose first bytes look like HTTP  *)
(* or TLS (go-gost/x/internal/util/sniffing): it reads the name of the     *)
(* host, screens it, dials and relays.  A handler that has dialled already *)
(* hands its connection over: dial is then no step at all.                 *)
(*                                                                         *)
(* Left out: what is recorded of requests, frames and handshakes.          *)
(***************************************************************************)
EXTENDS Steps

\* ho.Bypass: the name of the host is screened.
Screen == Known("sniffed") \o Check("host", Drop)
NoScreen == <<>>

\* The answer to a switch of protocols is passed on, then frames or bytes.
sniffingWebsocketFrame == Pipe("client", "up")
handleUpgradeResponse ==
    Check("same protocol", Drop) \o Pass(Drop)
    \o Either(<<Pipe("client", "up"), sniffingWebsocketFrame>>) \o Return

httpRoundTrip ==
    Send("up", Drop) \o Check("response", Drop)
    \o Maybe(handleUpgradeResponse)
    \o Pass(Drop) \o Maybe(Return)

\* A stream of HTTP/2 is passed on or answered as unavailable; its host is
\* not screened.  The transport dials for the first stream and closes its
\* connection in the end.
ServeHTTP == Maybe(Send("up", Drop))
serveH2(dialTLS) ==
    Check("preface", Drop) \o dialTLS \o Defer("up") \o Loop(ServeHTTP)

\* The first request is screened; later ones of the connection follow it to
\* the same upstream.
HandleHTTP(screen, dial) ==
    Check("http", Drop)
    \o Maybe(serveH2(dial) \o Return)
    \o screen \o dial \o Defer("up")
    \o httpRoundTrip
    \o Loop(Check("http", Drop) \o httpRoundTrip)

\* The connection is decrypted: the requests in it run over what is dialled.
terminateTLS ==
    Check("upstream handshake", Drop) \o Check("client handshake", Drop)
    \o HandleHTTP(NoScreen, <<>>)

HandleTLS(screen, dial) ==
    Check("client hello", Drop)
    \o screen \o dial \o Defer("up")
    \o Maybe(terminateTLS \o Return)
    \o Send("up", Drop) \o Pass(Drop)
    \o Pipe("client", "up")
=============================================================================
