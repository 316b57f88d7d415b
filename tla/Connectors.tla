----------------------------- MODULE Connectors -----------------------------
(***************************************************************************)
(* How a connection to a node of a chain becomes one to the target         *)
(* (go-gost/x/connector), or a listener at the node.  Written in the steps *)
(* of HandlerRun: "node" is the connection to the node, which chainRoute   *)
(* closes when Connect or Bind fails and its user when it is done; "up" is *)
(* where the payload goes.                                                 *)
(***************************************************************************)
EXTENDS Steps
N == INSTANCE Listeners

\* What is asked of the node, and its consent.
Asked == Check("asked", Drop)
request == Asked \o Check("granted", Drop)
Supported == Check("network", Drop)

\* connectTimeout: a deadline that a deferred call takes away.
Timed(p) == Maybe(Opens("deadline") \o Defer("deadline")) \o p \o Close("deadline")

\* What the caller of Dial does with the connection.
Using == Loop(Send("up", Drop))

-----------------------------------------------------------------------------
http == Supported \o Timed(request) \o Using
socks4 == Supported \o Check("address", Drop) \o Timed(request) \o Using

\* A request of the shared client: the stream replaces the dummy connection.
http2Connect == Check("metadata", Drop)
    \o Timed(Either(<<Known("asked") \o Opens("stream")
                         \o Check("granted", Close("stream") \o Return),
                      Close("node") \o Return>>))
http2 == http2Connect \o Defer("stream") \o Using

\* Shadowsocks asks for no consent: the address goes first, or with the payload.
ss == Supported \o Check("address", Drop) \o Timed(Either(<<Asked, Known("asked")>>)) \o Using
ssu == Supported \o Timed(Known("asked")) \o Using

-----------------------------------------------------------------------------
OnSelected == Either(<<Known("auth"), Check("auth", Drop), Return>>)
Handshake == Timed(OnSelected)

relayUDP == request \o Take("udp", Drop) \o Defer("udp")
connectUDP == Check("address", Drop) \o Either(<<relayUDP, request>>)
socks5 == Handshake
    \o Timed(Either(<<connectUDP, Supported \o Check("address", Drop) \o request>>)) \o Using

\* The answer to CmdBind; Accept reads the second one, which names the peer.
bind == request \o Check("address", Drop)
getPeerConn(x) == Check("peer", Close(x) \o Return)
bindTCP == Loop(getPeerConn("node") \o Go(Defer("node") \o Using))
muxBindTCP == Hold("session", Drop)
    \o Loop(Accept("peer", "session", Drop) \o getPeerConn("peer") \o Go(Defer("peer") \o Using))
\* udp.NewListener over the connection.
bindUDP == Opens("ln") \o N!Closed("pool") \o Go(N!listenLoop) \o N!Serve("conn")

socks5Bind == Handshake
    \o Either(<<bind \o bindTCP, bind \o muxBindTCP, Known("udp") \o bind \o bindUDP, Return>>)

-----------------------------------------------------------------------------
\* The request of relay waits for the first payload, and the answer for the
\* first read, unless noDelay is set; the network is looked at last.
readResponse == Go(Check("granted", Drop) \o Loop(Pass(Drop)))
relay == Timed(Either(<<Known("toBind") \o bind \o Using \o Return,
                        Check("address", Drop)
                            \o Either(<<Known("noDelay") \o request \o Supported,
                                        Supported \o readResponse \o Known("asked")>>)>>))
    \o Using
relayBind == Either(<<bind \o muxBindTCP, Known("udp") \o bind \o bindUDP, Return>>)

tunnel == Timed(request) \o Supported \o Using
router == tunnel
initTunnel == request
tunnelBind == initTunnel \o muxBindTCP

-----------------------------------------------------------------------------
\* A channel of the SSH session, or a port that its server listens on.
sshd == Check("ssh", Drop) \o Known("asked") \o Take("channel", Drop) \o Defer("channel")
    \o Known("granted") \o Using
sshdBind == Check("ssh", Drop) \o Known("asked") \o Take("ln", Drop) \o Defer("ln")
    \o Known("granted")
    \o Loop(Accept("peer", "ln", Drop) \o Known("peer") \o Go(Defer("peer") \o Using))

\* The node is told nothing: forward, tcp, unix and serial hand on what they
\* are given, sni rewrites the name in the payload.
forward == Using
sni == Check("obfuscate", Drop) \o Using

\* direct dials for itself; what it was given stays with the caller.
directConnect == Either(<<Known("reject") \o Return, Take("direct", Drop)>>)
direct == directConnect \o Defer("direct") \o Using

-----------------------------------------------------------------------------
\* connect of chainRoute, with another node behind this one: when that node's
\* Handshake fails the connection to this one is closed, not the one that
\* Connect returned.
nextNode == Check("next", Drop)
http2Through == http2Connect \o nextNode \o Defer("stream") \o Using
directThrough == directConnect \o nextNode \o Defer("direct") \o Using
httpThrough == Supported \o Timed(request) \o nextNode \o Using

\* What the node must have said before payload goes to it.
Consent == [always |-> {"asked", "granted"}]
LoginConsent == [always |-> {"asked", "granted", "auth"}]
Late == [always |-> {"asked"}, noDelay |-> {"granted"}, toBind |-> {"granted"}]
Bound == [always |-> {"granted"}]
AskedOnly == [always |-> {"asked"}]
NoConsent == [always |-> {}]
Lost(x) == [always |-> {x}]
=============================================================================
