--------------------------- MODULE TrafficReport ---------------------------
(***************************************************************************)
(* How the bytes a service carries reach the panel: connections add to     *)
(* the service's Stats, observeStats reads them on every tick, posts them  *)
(* to /flow/upload and takes what was reported off the counter.  None of   *)
(* it is locked: each step below is one atomic load, store, add or swap.   *)
(*                                                                         *)
(* The input and output counters are handled alike and are one counter     *)
(* here.  The panel configures no observer of its own, so Observe, which   *)
(* finds no "console" observer registered, always succeeds and the backlog *)
(* of events stays empty.  Two services of one name, of which the older    *)
(* one still drains its connections, share no state and are not modelled   *)
(* together.                                                               *)
(***************************************************************************)
EXTENDS Integers

CONSTANTS
    Chunks,     \* the sizes a Read or Write may have
    MaxUsed,    \* bound: bytes carried
    MaxConns,   \* bound: connections at a time
    Slots,      \* bound: requests given up on that the panel may still execute
    MaxTwice    \* bound: bytes billed twice before no report fails any more

ASSUME TrafficAssumption ==
    /\ Chunks \subseteq Nat \ {0}
    /\ MaxUsed \in Nat /\ MaxConns \in Nat /\ MaxTwice \in Nat

VARIABLES
    bytes,      \* Stats.inputBytes / outputBytes
    updated,    \* Stats.updated
    accepting,  \* the listener is open
    open,       \* connections being served
    marking,    \* ... of which so many are between inputBytes.Add and updated.Store
    live,       \* Serve has not returned: its context is not cancelled
    loop,       \* where observeStats is
    sent,       \* the value it read and posted
    rest,       \* the value it is about to store back
    request,    \* the posted request, as the panel sees it
    late,       \* requests observeStats gave up on that the panel may still execute
    billed,     \* bytes the panel has added up
    carried,    \* history: bytes carried
    twice,      \* history: bytes billed that were left in the counter
    dropped,    \* history: bytes taken off the counter that were not billed
    stale       \* history: the last report failed and nothing was read since

stats == <<bytes, updated>>
conns == <<accepting, open, marking>>
node == <<loop, sent, rest, stale>>
net == <<request, late>>
vars == <<stats, conns, live, node, net, billed, carried, twice, dropped>>

Init ==
    /\ bytes = 0 /\ updated = FALSE
    /\ accepting = TRUE /\ open = 0 /\ marking = 0 /\ live = TRUE
    /\ loop = "tick" /\ sent = 0 /\ rest = 0 /\ stale = FALSE
    /\ request = "none" /\ late = {}
    /\ billed = 0 /\ carried = 0 /\ twice = 0 /\ dropped = 0

-----------------------------------------------------------------------------
\* A connection is accepted: Add(KindTotalConns, 1), Add(KindCurrentConns, 1).
OpenConn ==
    /\ accepting /\ open < MaxConns
    /\ open' = open + 1
    /\ updated' = TRUE
    /\ UNCHANGED <<bytes, accepting, marking, live, node, net, billed, carried, twice, dropped>>

\* Read or Write of a connection: the bytes are added first ...
AddBytes(n) ==
    /\ marking < open
    /\ carried + n <= MaxUsed
    /\ bytes' = bytes + n
    /\ carried' = carried + n
    /\ marking' = marking + 1
    /\ UNCHANGED <<updated, accepting, open, live, node, net, billed, twice, dropped>>

\* ... and then the flag is set.
Mark ==
    /\ marking > 0
    /\ updated' = TRUE
    /\ marking' = marking - 1
    /\ UNCHANGED <<bytes, accepting, open, live, node, net, billed, carried, twice, dropped>>

\* A connection ends: Add(KindCurrentConns, -1).
CloseConn ==
    /\ marking < open
    /\ open' = open - 1
    /\ updated' = TRUE
    /\ UNCHANGED <<bytes, accepting, marking, live, node, net, billed, carried, twice, dropped>>

\* The service is deleted, updated or paused: only the listener is closed.
Close ==
    /\ accepting
    /\ accepting' = FALSE
    /\ UNCHANGED <<stats, open, marking, live, node, net, billed, carried, twice, dropped>>

\* Serve returns: the deferred wg.Wait runs before the deferred cancel.
ServeReturns ==
    /\ ~accepting /\ open = 0 /\ live
    /\ live' = FALSE
    /\ UNCHANGED <<stats, conns, node, net, billed, carried, twice, dropped>>

-----------------------------------------------------------------------------
\* A tick with IsUpdated() true, which clears the flag; others change nothing.
Tick ==
    /\ loop = "tick" /\ updated
    /\ updated' = FALSE
    /\ loop' = "read"
    /\ UNCHANGED <<bytes, conns, live, sent, rest, stale, net, billed, carried, twice, dropped>>

Read ==
    /\ loop = "read"
    /\ sent' = bytes
    /\ stale' = FALSE
    /\ loop' = IF bytes > 0 THEN "post" ELSE "tick"
    /\ UNCHANGED <<stats, conns, live, rest, net, billed, carried, twice, dropped>>

\* Mutant of Post: the flag is only cleared when the report is on its way.
PostClears ==
    /\ loop = "post"
    /\ updated' = FALSE
    /\ IF live
       THEN /\ request' = "sent" /\ loop' = "wait"
            /\ UNCHANGED stale
       ELSE /\ loop' = "tick" /\ stale' = TRUE
            /\ UNCHANGED request
    /\ UNCHANGED <<bytes, conns, live, sent, rest, late, billed, carried, twice, dropped>>

\* sendTrafficReport; with its context cancelled nothing is sent at all.
Post ==
    /\ loop = "post"
    /\ IF live
       THEN /\ request' = "sent" /\ loop' = "wait"
            /\ UNCHANGED stale
       ELSE /\ loop' = "tick" /\ stale' = TRUE
            /\ UNCHANGED request
    /\ UNCHANGED <<stats, conns, live, sent, rest, late, billed, carried, twice, dropped>>

\* The panel executes the request: /flow/upload adds the bytes up.
Apply ==
    /\ request = "sent"
    /\ request' = "applied"
    /\ billed' = billed + sent
    /\ UNCHANGED <<stats, conns, live, node, late, carried, twice, dropped>>

\* Its "ok" arrives in time.
Answer ==
    /\ loop = "wait" /\ request = "applied"
    /\ request' = "none"
    /\ loop' = "get"
    /\ UNCHANGED <<stats, conns, live, sent, rest, stale, late, billed, carried, twice, dropped>>

\* Mutant of GiveUp: what was posted is taken off the counter all the same.
GiveUpForgets ==
    /\ loop = "wait"
    /\ request' = "none"
    /\ loop' = "get"
    /\ stale' = TRUE
    /\ UNCHANGED <<stats, conns, live, sent, rest, late, billed, carried, twice, dropped>>

\* No answer, or another one: connection refused or lost, 5 s timeout, error
\* status, context cancelled.  The panel may have executed the request, may
\* still execute it, or may never have seen it.
GiveUp ==
    /\ loop = "wait"
    /\ request' = "none"
    /\ IF request = "applied"
       THEN twice < MaxTwice /\ twice' = twice + sent /\ UNCHANGED late
       ELSE /\ \/ UNCHANGED late
               \/ \E s \in Slots \ {r.slot : r \in late} : late' = late \cup {[slot |-> s, n |-> sent]}
            /\ UNCHANGED twice
    /\ loop' = "tick"
    /\ stale' = TRUE
    /\ UNCHANGED <<stats, conns, live, sent, rest, billed, carried, dropped>>

\* The panel executes a request nobody waits for any more.
ApplyLate ==
    \E r \in late :
        /\ twice < MaxTwice
        /\ late' = late \ {r}
        /\ billed' = billed + r.n
        /\ twice' = twice + r.n
        /\ UNCHANGED <<stats, conns, live, node, request, carried, dropped>>

\* Mutants of Get: what was reported is not subtracted, or the wrong way round.
GetKeeps ==
    /\ loop = "get"
    /\ rest' = bytes
    /\ loop' = "reset"
    /\ UNCHANGED <<stats, conns, live, sent, stale, net, billed, carried, twice, dropped>>

GetSwapped ==
    /\ loop = "get"
    /\ rest' = sent - bytes
    /\ loop' = "reset"
    /\ UNCHANGED <<stats, conns, live, sent, stale, net, billed, carried, twice, dropped>>

\* After a success: Get(KindInputBytes) - inputBytes ...
Get ==
    /\ loop = "get"
    /\ rest' = bytes - sent
    /\ loop' = "reset"
    /\ UNCHANGED <<stats, conns, live, sent, stale, net, billed, carried, twice, dropped>>

\* ... is stored by ResetTraffic; what was added in between is lost.
Reset ==
    /\ loop = "reset"
    /\ bytes' = rest
    /\ dropped' = dropped + (bytes - sent - rest)
    /\ loop' = "tick"
    /\ UNCHANGED <<updated, conns, live, sent, rest, stale, net, billed, carried, twice>>

\* select sees ctx.Done.
LoopEnds ==
    /\ loop = "tick" /\ ~live
    /\ loop' = "ended"
    /\ UNCHANGED <<stats, conns, live, sent, rest, stale, net, billed, carried, twice, dropped>>

\* A service of that name is parsed again, with Stats of its own.
Renew ==
    /\ loop = "ended"
    /\ bytes' = 0 /\ updated' = FALSE
    /\ accepting' = TRUE /\ live' = TRUE
    /\ loop' = "tick" /\ sent' = 0 /\ rest' = 0 /\ stale' = FALSE
    /\ dropped' = dropped + bytes
    /\ UNCHANGED <<open, marking, net, billed, carried, twice>>

Connections ==
    OpenConn \/ (\E n \in Chunks : AddBytes(n)) \/ Mark \/ CloseConn \/ Close \/ ServeReturns

ObserveStats == Tick \/ Read \/ Post \/ Answer \/ GiveUp \/ Get \/ Reset \/ LoopEnds

Next == Connections \/ ObserveStats \/ Apply \/ ApplyLate \/ Renew

Spec == Init /\ [][Next]_vars

\* The goroutines of the node run on, and a reachable panel executes requests.
FairSpec == Spec /\ WF_vars(ObserveStats) /\ WF_vars(Mark) /\ WF_vars(Apply)

-----------------------------------------------------------------------------
(***************************************************************************)
(* Properties.                                                             *)
(***************************************************************************)

TypeOK ==
    /\ bytes \in Nat /\ updated \in BOOLEAN
    /\ accepting \in BOOLEAN /\ live \in BOOLEAN /\ stale \in BOOLEAN
    /\ open \in Nat /\ marking \in Nat
    /\ loop \in {"tick", "read", "post", "wait", "get", "reset", "ended"}
    /\ sent \in Nat /\ rest \in Nat
    /\ request \in {"none", "sent", "applied"}
    /\ late \subseteq [slot : Slots, n : Nat]
    /\ billed \in Nat /\ carried \in Nat /\ twice \in Nat /\ dropped \in Nat

\* Bytes that are billed and not yet taken off the counter.
Settling == IF request = "applied" \/ loop \in {"get", "reset"} THEN sent ELSE 0

\* The unsigned subtraction of what was reported never wraps around, whatever
\* the connections add meanwhile.
NoUnderflow ==
    /\ loop \in {"post", "wait", "get", "reset"} => sent <= bytes
    /\ loop = "reset" => rest + sent <= bytes

\* Every byte is accounted for: what the panel has billed differs from what the
\* service carried only by the counter's contents, by reports that were
\* executed although the node saw them fail, and by bytes lost in ResetTraffic
\* or left in the counter of a service that ended.
Balance == carried + twice + Settling = billed + bytes + dropped

\* No lost wake-up: bytes that were not read are flagged, or about to be.
Flagged ==
    /\ loop \in {"tick", "ended"} /\ bytes > 0 => updated \/ marking > 0 \/ stale
    /\ loop \in {"post", "wait", "get", "reset"} /\ bytes > sent => updated \/ marking > 0
    /\ loop = "reset" /\ rest > 0 => updated \/ marking > 0

\* The requests of a service are in step with its loop.
Waiting == request # "none" => loop = "wait"

\* The panel never charges more than was carried, except for reports that were
\* executed although the node saw them fail.
M == INSTANCE Meter WITH used <- carried + twice, charged <- billed
MeterSpec == M!Spec

\* Every byte is eventually billed for good, unless it fell into the gap of
\* ResetTraffic, the last report failed, or the service ends.
EventuallyBilled ==
    \A n \in 1..MaxUsed :
        (carried >= n) ~> (billed + dropped >= n + twice \/ stale \/ ~live)
=============================================================================
