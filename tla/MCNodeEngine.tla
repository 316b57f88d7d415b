---------------------------- MODULE MCNodeEngine ----------------------------
(* The proxy engine of a node: what one connection runs, for every way into *)
(* the node (a listener), every protocol spoken on it (a handler) and ways  *)
(* out through another node (a dialer under a connector), 72 programs in    *)
(* all, each alone.  Needs and Leaks of a program depend on what is known   *)
(* of the request.                                                          *)
EXTENDS HandlerRun, TLC
S4 == INSTANCE Socks4Handler
S5 == INSTANCE Socks5Handler
H == INSTANCE HttpHandlers
R == INSTANCE RelayHandler
T == INSTANCE TransparentHandlers
F == INSTANCE Forwarder
U == INSTANCE TunnelHandlers
M == INSTANCE MiscHandlers
N == INSTANCE Listeners
D == INSTANCE Dialers
C == INSTANCE Connectors

Row(p, needs, replies, leaks, given) ==
    [program |-> p, needs |-> needs, replies |-> replies, leaks |-> leaks, given |-> given]
Silent == {<<>>}

\* A listener and a route answer no client; the caller of a handler closes the
\* connection it was given.
Listener(p, needs, leaks) == Row(p, needs, Silent, leaks, {})
Route(p, needs, leaks) == Row(p, needs, Silent, leaks, {})
Handler(p, needs, replies, leaks) == Row(p, needs, replies, leaks, {"client"})

\* What a dialer and a connector need together.
Both(a, b) == [w \in DOMAIN a \union DOMAIN b |->
    (IF w \in DOMAIN a THEN a[w] ELSE {}) \union (IF w \in DOMAIN b THEN b[w] ELSE {})]

Table == [
  http_tcp |-> Route(D!tcp(C!http), C!Consent, D!Clean),
  http_ssh |-> Route(D!ssh(C!http), Both(D!Shaken, C!Consent), D!Cached),
  socks4_quic |-> Route(D!quic(C!socks4), Both(D!Shaken, C!Consent), D!CachedOver),
  socks5_ws |-> Route(D!ws(C!socks5), Both(D!Shaken, C!LoginConsent), D!Clean),
  socks5_bind |-> Route(D!tcp(C!socks5Bind), C!Bound, N!Queued("conn")),
  http2_http2 |-> Route(D!http2(C!http2), C!Consent, D!Clean),
  ss_obfs |-> Route(D!obfsHTTP(C!ss), C!AskedOnly, D!Clean),
  ssu_dtls |-> Route(D!dtls(C!ssu), Both(D!Shaken, C!AskedOnly), D!Unshaken),
  relay_mtcp |-> Route(D!mtcp(C!relay), Both(D!Shaken, C!Late), D!Cached),
  relay_bind |-> Route(D!tls(C!relayBind), C!Bound, N!Queued("conn")),
  tunnel_mws |-> Route(D!mws(C!tunnel), Both(D!Shaken, C!Consent), D!Cached),
  tunnel_bind |-> Route(D!h2(C!tunnelBind), Both(D!Shaken, C!Bound), D!Clean),
  router_wt |-> Route(D!wt(C!router), Both(D!Shaken, C!Consent), D!Beneath),
  sshd_sshd |-> Route(D!sshd(C!sshd), Both(D!Shaken, C!Consent), D!Cached),
  sshd_bind |-> Route(D!sshd(C!sshdBind), Both(D!Shaken, C!Consent), D!Cached),
  forward_grpc |-> Route(D!grpc(C!forward), D!Shaken, D!Clean),
  sni_pht |-> Route(D!pht(C!sni), D!Authorized, D!Clean),
  sni_h3 |-> Route(D!h3(C!sni), D!Authorized, D!Beneath),
  direct |-> Route(D!tcp(C!direct), C!NoConsent, D!Clean),
  through_http |-> Route(D!tcp(C!httpThrough), C!Consent, D!Clean),
  through_http2 |-> Route(D!http2(C!http2Through), C!Consent, C!Lost("stream")),
  through_direct |-> Route(D!tcp(C!directThrough), C!NoConsent, C!Lost("direct")),
  l_tcp |-> Listener(N!tcp, N!Admitted, N!Clean),
  l_obfs |-> Listener(N!obfsHTTP, N!Secured, N!Clean),
  l_tls |-> Listener(N!tls, N!Secured, N!Clean),
  l_redu |-> Listener(N!redirectUDP, N!Admitted, N!Clean),
  l_mtcp |-> Listener(N!mtcp, N!Admitted, N!Clean),
  l_mtls |-> Listener(N!mtls, N!Secured, N!Clean),
  l_quic |-> Listener(N!quic, N!Secured, [always |-> {"pc"}]),
  l_kcp |-> Listener(N!kcp, N!Admitted, [unserved |-> {"pc"}]),
  l_ssh |-> Listener(N!ssh, N!LoggedIn, N!Clean),
  l_ws |-> Listener(N!ws, N!Secured, N!Queued("conn")),
  l_mws |-> Listener(N!mws, N!Secured, N!Clean),
  l_http2 |-> Listener(N!http2, N!Secured, N!Queued("stream")),
  l_h2 |-> Listener(N!h2, N!Admitted, N!Queued("stream")),
  l_grpc |-> Listener(N!grpc, N!Admitted, N!Queued("stream")),
  l_http3 |-> Listener(N!http3, N!Secured, N!Queued("stream")),
  l_wt |-> Listener(N!wt, N!Secured, [always |-> {"pc", "serving"}]),
  l_pht |-> Listener(N!pht, N!Admitted, [always |-> {"pipe", "lost"}, queued |-> {"stream"}]),
  l_dns |-> Listener(N!dns, N!Admitted, N!Clean),
  l_doh |-> Listener(N!doh, N!Admitted, N!Queued("stream")),
  l_udp |-> Listener(N!udp, N!Admitted, N!Queued("conn")),
  l_tun |-> Listener(N!tun, N!Admitted, [queued |-> {"device"}, unnamed |-> {"orphan", "lost"}]),
  l_tap |-> Listener(N!tap, N!Admitted, [queued |-> {"device"}, unnamed |-> {"orphan", "lost"}]),
  l_serial |-> Listener(N!serial, N!Admitted, N!Queued("device")),
  l_rtcp |-> Listener(N!rtcp, N!Admitted, N!Clean),
  l_rudp |-> Listener(N!rudp, N!Admitted, N!Clean),
  socks4 |-> Handler(S4!Handle, S4!Needs, S4!Replies, S4!Leaks),
  socks5 |-> Handler(S5!Handle, S5!Needs, S5!Replies, S5!Leaks),
  http |-> Handler(H!Handle, H!Needs, H!Replies, H!Leaks),
  http2 |-> Handler(H!Handle2, H!Needs, H!Replies2, H!Leaks),
  http3 |-> Handler(H!Handle3, H!Needs3, H!Replies, H!Leaks3),
  relay |-> Handler(R!Handle, R!Needs, R!Replies, R!Leaks),
  sni |-> Handler(T!sni, T!Needs, T!Replies, T!Leaks),
  ss |-> Handler(T!ss, T!Needs, T!Replies, T!Leaks),
  ssu |-> Handler(T!ssu, T!Needs, T!Replies, T!Leaks),
  redirect |-> Handler(T!redirectTCP, T!Needs, T!Replies, T!Leaks),
  redu |-> Handler(T!redirectUDP, T!Needs, T!Replies, T!Leaks),
  unix |-> Handler(T!unix, T!NoNeeds, T!Replies, T!Leaks),
  serial |-> Handler(T!serial, T!NoNeeds, T!Replies, T!Leaks),
  local |-> Handler(F!local, F!Needs, F!Replies, F!Leaks),
  remote |-> Handler(F!remote, F!Needs, F!Replies, F!Leaks),
  tunnel |-> Handler(U!tunnel, U!Needs, U!Replies, U!Leaks),
  entry |-> Handler(U!entrypoint, U!EntryNeeds, U!Replies, U!Leaks),
  router |-> Handler(U!router, U!Needs, U!Replies, U!Leaks),
  sshd |-> Handler(M!sshd, M!SshdNeeds, M!Replies, M!NoLeaks),
  dns |-> Handler(M!dns, M!DnsNeeds, M!Replies, M!NoLeaks),
  file |-> Handler(M!file, M!NoNeeds, M!Silent, M!ServedLeaks),
  metrics |-> Handler(M!metrics, M!NoNeeds, M!Silent, M!ServedLeaks),
  auto |-> Handler(M!auto, M!AutoNeeds, M!AutoReplies, M!AutoLeaks),
  tun |-> Handler(M!tun, M!NoNeeds, M!Silent, M!NoLeaks),
  tap |-> Handler(M!tap, M!NoNeeds, M!Silent, M!NoLeaks)]

\* The constants of HandlerRun.
EnginePrograms == [p \in DOMAIN Table |-> Table[p].program]
EngineGiven == [p \in DOMAIN Table |-> Table[p].given]
EngineNeeds == [p \in DOMAIN Table |-> Table[p].needs]
EngineReplies == [p \in DOMAIN Table |-> Table[p].replies]
EngineLeaks == [p \in DOMAIN Table |-> Table[p].leaks]
=============================================================================
