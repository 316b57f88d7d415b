--------------------------- MODULE Socks5Handler ----------------------------
(***************************************************************************)
(* The SOCKS5 proxy (go-gost/x/handler/socks/v5) with its commands:        *)
(* connect, bind, a bind over a multiplexed session, UDP association, UDP  *)
(* over the connection.                                                    *)
(***************************************************************************)
EXTENDS Steps, TLC

LOCAL F == INSTANCE Sniffer

sniffed == Either(<<
    <<>>,
    F!HandleHTTP(F!NoScreen, <<>>) \o Return,
    F!HandleTLS(F!NoScreen, <<>>) \o Return>>)

handleConnect ==
    Count
    \o Check("bypass", Refuse)
    \o Hold("up", Refuse)
    \o Tell("yes")
    \o sniffed
    \o Pipe("client", "up")

\* One goroutine waits for the peer, another carries what the handler says to
\* the client; the handler waits for either, and takes any that has signalled.
\* A peer accepted when the other one is taken is never closed.
serveBind ==
    Go(Accept("up", "lis", Close("lis") \o Signal("not accepted"))
       \o Close("lis") \o Signal("accepted"))
    \o Go(Pipe("client", "pc1") \o Signal("client gone"))
    \o Either(<<
        On("accepted") \o Defer("up") \o Say("yes", Pipe("client", "up")) \o Pipe("client", "up"),
        On("not accepted") \o Refuse,
        On("client gone") \o Close("lis")>>)

\* Mutant of bindLocal: a client that does not take the answer leaves the
\* listener open.
bindLocalUnclosed ==
    Take("lis", Refuse)
    \o Tell("yes")
    \o serveBind

bindLocal ==
    Take("lis", Refuse)
    \o Say("yes", Close("lis"))
    \o serveBind

handleBind == Check("allowed", Refuse) \o Count \o bindLocal

\* The listener is closed when the session ends; it stays open if there is no
\* session to serve.  Every peer gets a stream of the client's session.
serveMuxBind ==
    Take("session", Drop) \o Defer("session")
    \o Go(Pipe("client", "session") \o Close("lis"))
    \o Forever(
        Accept("peer", "lis", Drop)
        \o Go(Defer("peer") \o Hold("stream", Drop)
              \o Check("named", Drop) \o Pipe("stream", "peer")))

muxBindLocal ==
    Take("lis", Refuse)
    \o Say("yes", Close("lis"))
    \o serveMuxBind

handleMuxBind == Check("allowed", Refuse) \o Count \o muxBindLocal

\* Mutant of Run: a packet is passed on wherever it is for.
RunUnscreened == Loop(Send("up", Drop))

\* udp.Relay: every packet is screened by its own address.
Run == Loop(If("packet", Send("up", Drop)))

\* The client's connection only says how long the association lasts.
handleUDP ==
    Check("allowed", Refuse)
    \o Hold("pc", Refuse)
    \o Tell("yes")
    \o Hold("up", Drop)
    \o Count
    \o Go(Run)
    \o Pipe("client", "discard")

\* Counted once more as a client, and once more by the wrapper of the
\* connection, which nobody closes.
CountedAgain ==
    Opens("count again") \o Defer("count again")
    \o Opens("count of wrapper")

handleUDPTun ==
    Count
    \o Check("allowed", Refuse)
    \o Either(<<Hold("up", Drop), Hold("up", Refuse)>>)
    \o Tell("yes")
    \o CountedAgain
    \o Run

\* serverSelector.OnSelected: the method without a password, or one with.
Selected == Check("method", Drop) \o Check("credentials", Drop) \o Check("auth", Refuse)

Handle ==
    Check("rate", Drop)
    \o Selected
    \o Check("request", Drop)
    \o Either(<<
        Known("connect") \o handleConnect,
        Known("bind") \o handleBind,
        Known("mux bind") \o handleMuxBind,
        Known("udp") \o handleUDP,
        Known("udp tun") \o handleUDPTun,
        Refuse>>)

Needs == [always |-> {"rate", "auth"}, connect |-> {"bypass"}, bind |-> {"allowed"},
          udp |-> {"allowed", "packet"}] @@ ("mux bind" :> {"allowed"})
         @@ ("udp tun" :> {"allowed", "packet"})
Replies == {<<>>, <<"yes">>, <<"no">>, <<"yes", "yes">>, <<"yes", "no">>}
Leaks == [bind |-> {"up"}] @@ ("mux bind" :> {"lis"}) @@ ("udp tun" :> {"count of wrapper"})
=============================================================================
