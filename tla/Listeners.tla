----------------------------- MODULE Listeners ------------------------------
(***************************************************************************)
(* How a service gets its connections (go-gost/x/listener): opening the    *)
(* socket, the goroutines that accept, the handshakes and streams on top   *)
(* of it, the queue to service.Serve, and closing.  Written in the steps   *)
(* of HandlerRun; "ln" is the socket, "conn" a peer's connection, "stream" *)
(* what the service is given.  The queue holds one.                        *)
(***************************************************************************)
EXTENDS Steps

\* service.Serve counts itself; it asks the admission again, of the address
\* the handler is told; the handler closes what it is given.  first is what the
\* connection does before its first payload.
Serving == Opens("serving") \o Defer("serving")
Served(x, first) ==
    Either(<<Known("admission") \o Go(Defer(x) \o first \o Loop(Send("up", Drop))),
             Close(x)>>)

\* The service over a listener with a queue.
Serve(x) == Serving
    \o Forever(Either(<<Receive("cqueue") \o Served(x, <<>>), On("closed") \o Return>>))

\* A full queue turns the connection away.
Enqueue(x) ==
    Either(<<Gone("cqueue") \o Known("queued") \o Signal("cqueue"), Close(x)>>)

\* admission.WrapListener, then climiter.WrapListener, which closes the one over
\* the limit and hands it on: its first read fails.
Wrapped(then) == Either(<<Known("admission") \o Either(<<then, Close("conn")>>), Close("conn")>>)

\* Without a queue the service accepts by itself.
Accepting(then) == Serving \o Forever(Accept("conn", "ln", Return) \o NextRequest \o then)

\* Each connection gets a goroutine; failed is what is done with the error.
AcceptLoop(failed, then) ==
    Forever(Accept("conn", "ln", failed) \o Wrapped(Go(NextRequest \o Known("admission") \o then)))
Told == Signal("closed") \o Return \* the error is sent to the service

\* smux, QUIC or SSH streams of one connection, until the session ends.
Streams(session) ==
    Loop(Accept("stream", session, Return) \o Enqueue("stream")) \o Close("stream")

Listen == Take("ln", Return)
Closing == Go(Close("ln"))

-----------------------------------------------------------------------------
tcp == Listen \o Closing \o Accepting(Wrapped(Served("conn", <<>>)))
unix == tcp
redirectTCP == tcp

\* The handshake is part of the first read.
obfsHTTP == Listen \o Closing \o Accepting(Wrapped(Served("conn", Check("handshake", Drop))))
obfsTLS == obfsHTTP
dtls == obfsHTTP

\* silentTLSListener shakes hands within Accept, against a deadline, and drops
\* what fails.
silentTLS(then) == Opens("deadline")
    \o Either(<<Known("handshake") \o Close("deadline") \o then,
                Close("conn") \o Close("deadline")>>)
tls == Listen \o Closing \o Accepting(Wrapped(silentTLS(Served("conn", <<>>))))

\* Accept dials back for every packet; that failing, the service ends and the
\* socket is left to Close.
redirectUDP == Listen \o Closing
    \o Accepting(Either(<<Served("conn", <<>>), Close("conn") \o Return>>))

-----------------------------------------------------------------------------
muxed(first) == Defer("conn") \o first \o Hold("session", Return) \o Streams("session")
mtcp == Listen \o Closing \o Go(AcceptLoop(Told, muxed(<<>>))) \o Serve("stream")
mtls == Listen \o Closing
    \o Go(AcceptLoop(Told, muxed(Check("handshake", Return)))) \o Serve("stream")

\* Over QUIC the session is the connection; admission drops the packets of
\* who is refused.  QUIC does not close a packet socket it was given.
overQuic == Known("handshake") \o Defer("conn") \o Streams("conn")
quic == Take("pc", Return) \o Listen \o Closing \o Go(AcceptLoop(Told, overQuic))
    \o Serve("stream")
icmp == quic
kcp == Take("pc", Return) \o Take("ln", Known("unserved"))
    \o Go(Close("pc") \o Close("ln")) \o Go(AcceptLoop(Told, muxed(<<>>))) \o Serve("stream")

\* SSH channels; the login is part of the handshake.
serveConn == Either(<<Known("handshake") \o Known("auth") \o Defer("conn") \o Streams("conn"),
                      Close("conn")>>)
ssh == Listen \o Closing \o Go(AcceptLoop(Told, serveConn)) \o Serve("stream")
sshd == ssh

\* An HTTP server whose upgraded connections are no longer its own.
upgrade(then) == Either(<<Known("handshake") \o then, Close("conn")>>)
ws == Listen \o Closing \o Go(AcceptLoop(Told, upgrade(Enqueue("conn")))) \o Serve("conn")
mws == Listen \o Closing \o Go(AcceptLoop(Told, upgrade(muxed(<<>>)))) \o Serve("stream")

-----------------------------------------------------------------------------
\* HTTP/2, HTTP/3 and gRPC: the service gets the requests; each waits in its
\* handler until the service has closed it.  Closing cuts the connections.
requests(serve) == Defer("conn") \o Known("handshake")
    \o Loop(Accept("stream", "conn", Return) \o serve \o Gone("stream"))
ClosingAll(tell) == Go(Close("ln") \o Close("conn") \o tell)

http2 == Listen \o ClosingAll(Signal("closed"))
    \o Go(AcceptLoop(Return, requests(Enqueue("stream")))) \o Serve("stream")
h2 == Listen \o ClosingAll(Signal("closed"))
    \o Go(AcceptLoop(Return, requests(Either(<<Enqueue("stream"), Close("stream")>>))))
    \o Serve("stream")
grpc == Listen \o ClosingAll(<<>>)
    \o Go(AcceptLoop(Told, requests(Enqueue("stream")))) \o Serve("stream")

\* HTTP/3 opens its own socket: only the service asks the admission.
Unwrapped(failed, then) == Forever(Accept("conn", "ln", failed) \o Go(NextRequest \o then))
http3 == Listen \o ClosingAll(Signal("closed"))
    \o Go(Unwrapped(Return, requests(Enqueue("stream")))) \o Serve("stream")

\* WebTransport: Close tells the service nothing.
wt == Take("pc", Return) \o Opens("ln") \o ClosingAll(<<>>)
    \o Go(AcceptLoop(Return, upgrade(overQuic))) \o Serve("stream")

\* The plain HTTP tunnel listens in its goroutine, where an error is only
\* logged; a token stands for the connection, and its other end waits in a map
\* until a request of the client fails.
authorize == Accept("stream", "ln", Return) \o NextRequest
    \o Either(<<Gone("cqueue") \o Known("queued") \o Signal("cqueue") \o Known("token")
                   \o Opens("pipe") \o Gone("stream") \o Maybe(Close("pipe")),
                Close("stream")>>)
pht == Go(Signal("closed") \o Close("ln"))
    \o Go(Hold("ln", Return)
          \o Either(<<On("closed") \o Return, Gone("closed") \o Loop(authorize)>>))
    \o Serve("stream")
h3 == pht

-----------------------------------------------------------------------------
\* DNS: a query is a connection.  The server ends after its queries; the HTTP
\* one tells the service before, and its Close waits for them.
Queries(failed) == Forever(Accept("stream", "ln", failed) \o Go(NextRequest
    \o Enqueue("stream") \o Gone("stream")))
dns == Listen \o Closing \o Go(Queries(Gone("stream") \o Told)) \o Serve("stream")
doh == Listen \o Go(Close("ln") \o Gone("stream")) \o Go(Queries(Told)) \o Serve("stream")

\* udp.NewListener: a connection is an address that packets come from; it is in
\* the pool that Close empties once it has been queued.
Closed(pool) == Go(Signal("closed") \o Close("ln")
    \o Either(<<On(pool) \o Close("conn"), Gone(pool)>>))
listenLoop == Forever(Accept("conn", "ln", Return) \o NextRequest
    \o Either(<<Gone("cqueue") \o Known("queued") \o Signal("cqueue") \o Signal("pool"),
                Close("conn")>>))
udp == Listen \o Closed("pool") \o Go(listenLoop) \o Serve("conn")
ftcp == udp

-----------------------------------------------------------------------------
Offer == Known("queued") \o Signal("cqueue") \o Gone("cqueue") \* unbuffered

\* A device the system does not know by its name is not closed.
Named(offer) == Either(<<Opens("device") \o offer, Known("unnamed") \o Opens("orphan")>>)
Opened(offer) == Opens("device") \o offer

\* A device is opened again when its handler has closed it.
Device(opened) ==
    Forever(Either(<<opened, <<>>>>) \o Either(<<Gone("device"), On("closed") \o Return>>))

tun == Go(Signal("closed")) \o Go(Device(Named(Offer))) \o Serve("device")
tap == Go(Signal("closed")) \o Go(Device(Named(Known("queued") \o Gone("cqueue") \o Signal("cqueue"))))
    \o Serve("device")
serial == Go(Signal("closed")) \o Go(Device(Opened(Offer))) \o Serve("device")

\* A remote listener: bound at the last node of a chain, and again when lost.
bound(then) == Opens("ln")
    \o Loop(Either(<<On("closed") \o Close("ln") \o Return,
                     Gone("closed") \o Accept("conn", "ln", Return) \o NextRequest \o then>>))
    \o Close("ln")
remote(then) == Go(Signal("closed") \o Close("ln")) \o Serving
    \o Forever(Either(<<On("closed") \o Return, Gone("closed") \o Maybe(bound(then))>>))
rtcp == remote(Wrapped(Served("conn", <<>>)))
rudp == remote(Served("conn", <<>>))

-----------------------------------------------------------------------------
\* What a peer needs before its payload is taken.
Admitted == [always |-> {"admission"}]
Secured == [always |-> {"admission", "handshake"}]
LoggedIn == [always |-> {"admission", "handshake", "auth"}]

\* What Close leaves open: what was queued and not taken any more; packet
\* sockets given to QUIC; the service of WebTransport, which waits for ever.
Clean == [always |-> {}]
Queued(x) == [queued |-> {x}]
=============================================================================
