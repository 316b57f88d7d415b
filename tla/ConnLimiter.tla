---------------------------- MODULE ConnLimiter -----------------------------
(***************************************************************************)
(* The connection limiter of a node (go-gost/x/limiter/conn): limits for   *)
(* all clients together ("$"), for single addresses, for networks and for  *)
(* every other address ("$$"), re-read periodically, and the listener      *)
(* wrapper that charges a connection when it is accepted and credits it    *)
(* when it is closed, every time.  Some are closed twice (by the mtcp,     *)
(* mtls and mws listeners always, by the tunnel handler and the binds over *)
(* a session at times): a counter is then lower than it should be.         *)
(*                                                                         *)
(* The counters are atomic, but a connection is charged to a group of them *)
(* one after the other and other connections come and go in between.  The  *)
(* syntax of the limits is left out.                                       *)
(***************************************************************************)
EXTENDS Integers, Sequences, FiniteSets

CONSTANTS
    Clients,    \* client addresses
    Arrivals,   \* connections, each of which is made once
    HostOf,     \* the client of a connection
    Configs,    \* limits a load may yield: see Config; 0 is "no limit"
    MaxReloads, \* bound on the reloads
    Repeats     \* bound: calls of Close on connections that were closed before

\* global: "$"; own: an entry of the address; net: the network of the address;
\* each: "$$".
Config == [global : Nat, own : [Clients -> Nat], net : [Clients -> Nat], each : Nat]

\* The key of the limit for all clients together.
All == "$"

LimiterAssumption ==
    /\ IsFiniteSet(Arrivals)
    /\ All \notin Clients
    /\ HostOf \in [Arrivals -> Clients]
    /\ Configs \subseteq Config

VARIABLES
    config,   \* the limits in force
    loads,    \* how many there were before
    limiters, \* the counters made so far: limit and current value; history: surplus,
              \* how often it was lowered for a connection closed before
    made,     \* ... of them, those made for one look-up
    group,    \* l.limits: the counters a host is charged to, once looked up
    known,    \* the hosts of that cache
    conn,     \* every connection
    again     \* ... and the further calls of Close

limitVars == <<config, loads, limiters, made, group, known, conn, again>>

New == [pc |-> "new", lims |-> <<>>, i |-> 0]

\* The single generators hold a counter of their own, for "$" and for every
\* address with an entry; other counters are numbered as they are made.
Single(w) == <<loads, w, 0>>
Fresh(h) == <<loads, h, made + 1>>
LimitOf(c, w) == IF w = All THEN c.global ELSE c.own[w]
Singles(c, n) == [l \in {<<n, w, 0>> : w \in Clients \cup {All}} |->
                    [limit |-> LimitOf(c, l[2]), current |-> 0, surplus |-> 0]]
Adding(counters) ==
    limiters' = [l \in DOMAIN limiters \cup DOMAIN counters |->
                    IF l \in DOMAIN limiters THEN limiters[l] ELSE counters[l]]

LimitInit ==
    /\ config \in Configs
    /\ loads = 0 /\ made = 0
    /\ limiters = Singles(config, 0)
    /\ group = [h \in Clients |-> <<>>]
    /\ known = {}
    /\ conn = [x \in Arrivals |-> New]
    /\ again = [c \in Repeats |-> New]

-----------------------------------------------------------------------------
\* reload: new counters, all at zero, and an empty cache; connections that are
\* open keep the counters they were charged to.
reload ==
    /\ loads < MaxReloads
    /\ \E c \in Configs : config' = c /\ Adding(Singles(c, loads + 1))
    /\ loads' = loads + 1
    /\ group' = [h \in Clients |-> <<>>]
    /\ known' = {}
    /\ UNCHANGED <<made, conn, again>>

\* The limit that a counter made for this host alone would have: its network's
\* or the one of "$$"; none when the address has an entry of its own.
OwnLimit(h) ==
    IF config.own[h] > 0 THEN 0
    ELSE IF config.net[h] > 0 THEN config.net[h] ELSE config.each

\* newLimiterGroup: the smaller limit first.
newLimiterGroup(lims, all) ==
    IF Len(lims) = 2 /\ all[lims[2]].limit < all[lims[1]].limit THEN <<lims[2], lims[1]>> ELSE lims

\* Limiter(host): looked up in the cache, or made and cached, under one lock.
Limiter(h) ==
    /\ h \notin known
    /\ known' = known \cup {h}
    /\ LET n == OwnLimit(h)
           mine == IF n > 0 THEN <<Fresh(h)>> ELSE IF config.own[h] > 0 THEN <<Single(h)>> ELSE <<>>
           lims == IF config.global > 0 THEN Append(mine, Single(All)) ELSE mine
       IN /\ IF n > 0 THEN /\ Adding([l \in {Fresh(h)} |-> [limit |-> n, current |-> 0, surplus |-> 0]])
                           /\ made' = made + 1
                    ELSE UNCHANGED <<limiters, made>>
          /\ group' = [group EXCEPT ![h] = newLimiterGroup(lims, limiters')]
    /\ UNCHANGED <<config, loads, conn, again>>

-----------------------------------------------------------------------------
Move(x, label, k) == conn' = [conn EXCEPT ![x].pc = label, ![x].i = k]
Bump(l, n) == limiters' = [limiters EXCEPT ![l].current = @ + n]
Counter(x) == conn[x].lims[conn[x].i]

\* listener.Accept: without limits the connection is not wrapped.
Accept(x) ==
    /\ conn[x].pc = "new"
    /\ HostOf[x] \in known
    /\ LET g == group[HostOf[x]]
       IN conn' = [conn EXCEPT ![x] = [pc |-> IF g = <<>> THEN "open" ELSE "charge", lims |-> g, i |-> 1]]
    /\ UNCHANGED <<config, loads, limiters, made, group, known, again>>

\* Mutant of Charge: a connection more than the limit is let in.
ChargeOffByOne(x) ==
    /\ conn[x].pc = "charge"
    /\ Bump(Counter(x), 1)
    /\ IF limiters[Counter(x)].current > limiters[Counter(x)].limit
       THEN Move(x, "back", conn[x].i)
       ELSE IF conn[x].i < Len(conn[x].lims) THEN Move(x, "charge", conn[x].i + 1) ELSE Move(x, "open", 1)
    /\ UNCHANGED <<config, loads, made, group, known, again>>

\* limiterGroup.Allow(1): the next counter is raised; above its limit, the
\* connection is refused.
Charge(x) ==
    /\ conn[x].pc = "charge"
    /\ Bump(Counter(x), 1)
    /\ IF limiters[Counter(x)].current + 1 > limiters[Counter(x)].limit
       THEN Move(x, "back", conn[x].i)
       ELSE IF conn[x].i < Len(conn[x].lims) THEN Move(x, "charge", conn[x].i + 1) ELSE Move(x, "open", 1)
    /\ UNCHANGED <<config, loads, made, group, known, again>>

\* Mutant of TakeBack: the counters before the one that refused stay raised.
TakeBackOne(x) ==
    /\ conn[x].pc = "back"
    /\ Bump(Counter(x), -1)
    /\ Move(x, "refused", 0)
    /\ UNCHANGED <<config, loads, made, group, known, again>>

\* llimiter.Allow lowers the counter that refused again, and limiterGroup.Allow
\* those before it; the connection is closed, which is not wrapped.
TakeBack(x) ==
    /\ conn[x].pc = "back"
    /\ Bump(Counter(x), -1)
    /\ IF conn[x].i > 1 THEN Move(x, "back", conn[x].i - 1) ELSE Move(x, "refused", 0)
    /\ UNCHANGED <<config, loads, made, group, known, again>>

\* serverConn.Close, the first time: Allow(-1) starts with the first counter.
CloseConn(x) ==
    /\ conn[x].pc = "open"
    /\ IF conn[x].lims = <<>> THEN Move(x, "gone", 0) ELSE Move(x, "credit", 1)
    /\ UNCHANGED <<config, loads, limiters, made, group, known, again>>

\* limiterGroup.Allow(-1): a counter that is still above its limit, because of
\* connections that are about to be refused, ends the loop.
Credit(x) ==
    /\ conn[x].pc = "credit"
    /\ Bump(Counter(x), -1)
    /\ IF conn[x].i < Len(conn[x].lims) /\ limiters[Counter(x)].current - 1 <= limiters[Counter(x)].limit
       THEN Move(x, "credit", conn[x].i + 1)
       ELSE Move(x, "gone", 0)
    /\ UNCHANGED <<config, loads, made, group, known, again>>

\* serverConn.Close of a connection that was closed, or is being closed, already.
CloseAgain(c, x) ==
    /\ again[c].pc = "new"
    /\ conn[x].pc \in {"credit", "gone"} /\ conn[x].lims # <<>>
    /\ again' = [again EXCEPT ![c] = [pc |-> "credit", lims |-> conn[x].lims, i |-> 1]]
    /\ UNCHANGED <<config, loads, limiters, made, group, known, conn>>

\* It lowers the counters as the first one did.
CreditAgain(c) ==
    LET r == again[c]
        l == r.lims[r.i]
        more == r.i < Len(r.lims) /\ limiters[l].current - 1 <= limiters[l].limit
    IN  /\ r.pc = "credit"
        /\ limiters' = [limiters EXCEPT ![l].current = @ - 1, ![l].surplus = @ + 1]
        /\ again' = [again EXCEPT ![c].pc = IF more THEN "credit" ELSE "gone",
                                 ![c].i = IF more THEN r.i + 1 ELSE 0]
        /\ UNCHANGED <<config, loads, made, group, known, conn>>

LimitNext ==
    \/ reload
    \/ \E h \in Clients : Limiter(h)
    \/ \E x \in Arrivals : Accept(x) \/ Charge(x) \/ TakeBack(x) \/ CloseConn(x) \/ Credit(x)
    \/ \E c \in Repeats : CreditAgain(c) \/ \E x \in Arrivals : CloseAgain(c, x)

LimitSpec == LimitInit /\ [][LimitNext]_limitVars

-----------------------------------------------------------------------------
(***************************************************************************)
(* Properties.                                                             *)
(***************************************************************************)

Charged(l) == {x \in Arrivals : conn[x].pc = "open" /\ \E k \in DOMAIN conn[x].lims : conn[x].lims[k] = l}

\* However accepts, refusals, closes and reloads interleave, no counter has
\* more open connections than its limit, and one more for every time it was
\* lowered for a connection that had been closed before.
LimitHeld ==
    \A l \in DOMAIN limiters : Cardinality(Charged(l)) <= limiters[l].limit + limiters[l].surplus

Settled ==
    /\ \A x \in Arrivals : conn[x].pc \in {"new", "open", "refused", "gone"}
    /\ \A c \in Repeats : again[c].pc \in {"new", "gone"}

\* The capacity a connection takes of the smallest limit that applies to it is
\* given back once for every Close: when nothing is in progress, that counter is
\* exact but for the surplus.  (The larger limits of a group are not: see Credit.)
FirstExact ==
    Settled =>
        \A h \in known : group[h] # <<>> =>
            LET l == group[h][1] IN
            \/ limiters[l].current = Cardinality(Charged(l)) - limiters[l].surplus
            \/ \E g \in known : \E k \in 2..Len(group[g]) : group[g][k] = l
=============================================================================
