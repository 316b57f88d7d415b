------------------------------ MODULE Dialers -------------------------------
(***************************************************************************)
(* How chainRoute reaches the first node of a chain (go-gost/x/dialer):    *)
(* Dial, Handshake, and what is closed when either fails.  Written in the  *)
(* steps of HandlerRun; then is what is done with the connection, "node".  *)
(* What dialers share between connections is the subject of MuxDialer.     *)
(***************************************************************************)
EXTENDS Steps

\* connect of chainRoute closes the connection when the handshake fails; its
\* user closes it afterwards.
Dial(x) == Check("resolve", Drop) \o Take(x, Drop)
Dialed == Dial("node") \o Defer("node")
Failed == Close("node") \o Return

\* handshakeTimeout: a deadline that a deferred call takes away.
Timed(p) == Maybe(Opens("deadline") \o Defer("deadline")) \o p \o Close("deadline")

tcp(then) == Dialed \o then
unix(then) == tcp(then)
udp(then) == tcp(then)
serial(then) == tcp(then)
ftcp(then) == tcp(then)

tls(then) == Dialed \o Timed(Check("handshake", Failed)) \o then

\* DTLS shakes hands within Dial, which leaves the socket to the library.
dtls(then) == Dial("node") \o Check("handshake", Known("unshaken") \o Return)
    \o Defer("node") \o then

\* Pings every interval until a write fails.
keepAlive(x) == Maybe(Go(Opens("ticker") \o Defer("ticker") \o Gone(x)))
ws(then) == Dialed \o Timed(Check("handshake", Drop)) \o keepAlive("node") \o then

\* The obfuscated handshakes go with the first write and the first read.
obfsHTTP(then) == Dialed \o Known("handshake") \o then
obfsTLS(then) == obfsHTTP(then)

-----------------------------------------------------------------------------
\* A stream of a session that the dialer keeps for the next connections; the
\* session ends with its socket
\* and the pings.
GetConn == Take("node", Close("conn") \o Return) \o Defer("node")
initSession == Check("handshake", Close("conn") \o Return) \o Known("session")
mtcp(then) == Dial("conn") \o Timed(initSession \o GetConn) \o then
mtls(then) == mtcp(then)
mws(then) == Dial("conn") \o Timed(initSession) \o keepAlive("conn") \o GetConn \o then

\* Over a packet socket, which a session that has ended does not close.
overPackets(then) == Take("pc", Drop) \o Check("handshake", Close("pc") \o Return)
    \o Opens("conn") \o Known("session") \o GetConn \o then
quic(then) == Check("resolve", Drop) \o overPackets(then)
icmp(then) == quic(then)
kcp(then) == quic(then)

\* Channels of an SSH session; no channel, and the session stays.  sshd gives
\* its connector the session itself.
sshSession == Dial("conn") \o Timed(Check("handshake", Close("conn") \o Return)) \o Known("session")
    \o Maybe(Go(Gone("conn")))
ssh(then) == sshSession \o Take("node", Drop) \o Defer("node") \o then
sshd(then) == sshSession \o Opens("node") \o Defer("node") \o then

-----------------------------------------------------------------------------
\* Clients that make their connections by themselves.  http2 only tries the
\* address, and its connection is a dummy.
http2(then) == Check("resolve", Drop) \o Maybe(Take("probe", Drop) \o Close("probe"))
    \o Known("handshake") \o Opens("node") \o Defer("node") \o then

\* The request is the handshake, its body and that of the answer the connection.
h2(then) == Check("resolve", Drop)
    \o Either(<<Opens("node") \o Check("handshake", Failed), Return>>) \o Defer("node") \o then
grpc(then) == Opens("context") \o Take("node", Close("context") \o Return) \o Known("handshake")
    \o Defer("node") \o Defer("context") \o then

\* The client is authorized first; what it pulls in a goroutine of its own ends
\* the connection when a request fails, but not when there is nothing left.
authorize == Take("answer", Drop)
    \o Either(<<Known("token") \o Close("answer"), Close("answer") \o Return>>)
readLoop == Go(Loop(Pass(Failed)))
pht(then) == Check("resolve", Drop) \o authorize \o Opens("node") \o Defer("node") \o readLoop
    \o Known("handshake") \o then
\* The socket below QUIC is the dialer's, and stays when the session ends.
h3(then) == Maybe(Opens("pc")) \o pht(then)
wt(then) == Take("pc", Drop) \o Check("handshake", Return) \o Known("session") \o Opens("conn")
    \o Take("node", Drop) \o Defer("node") \o then

-----------------------------------------------------------------------------
Shaken == [always |-> {"handshake"}]
Authorized == [always |-> {"handshake", "token"}]

\* A session is left to the next connections, with its socket
\* and the pings.
Clean == [always |-> {}]
Cached == [session |-> {"conn", "ticker"}]
CachedOver == [session |-> {"conn", "pc"}]
Beneath == [always |-> {"pc"}, session |-> {"conn"}]
Unshaken == [unshaken |-> {"node"}]
=============================================================================
