------------------------ MODULE TrafficReportProofs ------------------------
(***************************************************************************)
(* The theorems of TrafficReport: for any number of connections, of bytes  *)
(* and of failed or late reports, no byte is unaccounted for, the counter  *)
(* never wraps around, and no wake-up of observeStats is lost.             *)
(***************************************************************************)
EXTENDS TrafficReport, TLAPS

Inv == TypeOK /\ Waiting /\ NoUnderflow /\ Balance /\ Flagged

USE DEF stats, conns, node, net

\* Steps that touch neither the billing nor the bytes: the flag is only set,
\* or cleared by observeStats itself, which then reads the counter.
LEMMA TypeStep == TypeOK /\ Waiting /\ NoUnderflow /\ [Next]_vars => TypeOK' /\ Waiting'
  <1> SUFFICES ASSUME TypeOK, Waiting, NoUnderflow, [Next]_vars PROVE TypeOK' /\ Waiting'
    OBVIOUS
  <1> USE TrafficAssumption
  <1>1. CASE UNCHANGED vars
    BY <1>1 DEF TypeOK, Waiting, vars
  <1>2. CASE Connections
    <2>1. ASSUME NEW n \in Chunks, AddBytes(n) PROVE TypeOK' /\ Waiting'
      <3>1. bytes + n \in Nat /\ carried + n \in Nat /\ marking + 1 \in Nat
        BY DEF TypeOK
      <3> QED BY <2>1, <3>1 DEF TypeOK, Waiting, AddBytes
    <2>2. CASE OpenConn \/ Mark \/ CloseConn \/ Close \/ ServeReturns
      <3>1. CASE OpenConn
        BY <3>1 DEF TypeOK, Waiting, OpenConn
      <3>2. CASE Mark
        BY <3>2 DEF TypeOK, Waiting, Mark
      <3>3. CASE CloseConn
        <4>1. open - 1 \in Nat
          BY <3>3 DEF CloseConn, TypeOK
        <4> QED BY <3>3, <4>1 DEF TypeOK, Waiting, CloseConn
      <3>4. CASE Close \/ ServeReturns
        BY <3>4 DEF TypeOK, Waiting, Close, ServeReturns
      <3> QED BY <2>2, <3>1, <3>2, <3>3, <3>4
    <2> QED BY <1>2, <2>1, <2>2 DEF Connections
  <1>3. CASE ObserveStats
    <2>1. CASE Tick \/ Read \/ Post \/ Answer
      BY <2>1 DEF TypeOK, Waiting, Tick, Read, Post, Answer
    <2>2. CASE GiveUp
      BY <2>2 DEF TypeOK, Waiting, GiveUp
    <2>3. CASE Get \/ Reset \/ LoopEnds
      BY <2>3 DEF TypeOK, Waiting, NoUnderflow, Get, Reset, LoopEnds
    <2> QED BY <1>3, <2>1, <2>2, <2>3 DEF ObserveStats
  <1>4. CASE Apply \/ Renew
    <2>1. billed + sent \in Nat /\ dropped + bytes \in Nat
      BY DEF TypeOK
    <2>2. CASE Apply
      BY <2>1, <2>2 DEF TypeOK, Waiting, Apply
    <2>3. CASE Renew
      BY <2>1, <2>3 DEF TypeOK, Waiting, Renew
    <2> QED BY <1>4, <2>2, <2>3
  <1>5. CASE ApplyLate
    <2>1. PICK r \in late : ApplyLate!(r)
      BY <1>5 DEF ApplyLate
    <2>2. r.n \in Nat
      BY DEF TypeOK
    <2> QED BY <2>1, <2>2 DEF TypeOK, Waiting
  <1> QED BY <1>1, <1>2, <1>3, <1>4, <1>5 DEF Next

\* The counters: only observeStats takes bytes off, and only what it has read.
LEMMA UnderflowStep == TypeOK /\ NoUnderflow /\ [Next]_vars => NoUnderflow'
  <1> SUFFICES ASSUME TypeOK, NoUnderflow, [Next]_vars PROVE NoUnderflow'
    OBVIOUS
  <1> USE TrafficAssumption DEF TypeOK, NoUnderflow
  <1>1. CASE UNCHANGED vars
    BY <1>1 DEF vars
  <1>2. CASE Connections
    <2>1. ASSUME NEW n \in Chunks, AddBytes(n) PROVE NoUnderflow'
      BY <2>1 DEF AddBytes
    <2>2. CASE OpenConn \/ Mark \/ CloseConn \/ Close \/ ServeReturns
      BY <2>2 DEF OpenConn, Mark, CloseConn, Close, ServeReturns
    <2> QED BY <1>2, <2>1, <2>2 DEF Connections
  <1>3. CASE ObserveStats
    BY <1>3 DEF ObserveStats, Tick, Read, Post, Answer, GiveUp, Get, Reset, LoopEnds
  <1>4. CASE Apply \/ ApplyLate \/ Renew
    BY <1>4 DEF Apply, ApplyLate, Renew
  <1> QED BY <1>1, <1>2, <1>3, <1>4 DEF Next

\* Every step moves bytes from one side of the balance to the other.
LEMMA BalanceStep == TypeOK /\ Waiting /\ NoUnderflow /\ Balance /\ [Next]_vars => Balance'
  <1> SUFFICES ASSUME TypeOK, Waiting, NoUnderflow, Balance, [Next]_vars PROVE Balance'
    OBVIOUS
  <1> USE TrafficAssumption DEF TypeOK, Balance, Settling
  <1>1. CASE UNCHANGED vars
    BY <1>1 DEF vars
  <1>2. CASE Connections
    <2>1. ASSUME NEW n \in Chunks, AddBytes(n) PROVE Balance'
      BY <2>1 DEF AddBytes
    <2>2. CASE OpenConn \/ Mark \/ CloseConn \/ Close \/ ServeReturns
      BY <2>2 DEF OpenConn, Mark, CloseConn, Close, ServeReturns
    <2> QED BY <1>2, <2>1, <2>2 DEF Connections
  <1>3. CASE ObserveStats
    <2>1. CASE Tick \/ Read \/ Post \/ LoopEnds
      BY <2>1 DEF Tick, Read, Post, LoopEnds, Waiting
    <2>2. CASE Answer \/ GiveUp
      BY <2>2 DEF Answer, GiveUp
    <2>3. CASE Get \/ Reset
      BY <2>3 DEF Get, Reset, Waiting, NoUnderflow
    <2> QED BY <1>3, <2>1, <2>2, <2>3 DEF ObserveStats
  <1>4. CASE Apply \/ Renew
    BY <1>4 DEF Apply, Renew, Waiting
  <1>5. CASE ApplyLate
    <2>1. PICK r \in late : ApplyLate!(r)
      BY <1>5 DEF ApplyLate
    <2>2. r.n \in Nat
      OBVIOUS
    <2> QED BY <2>1, <2>2
  <1> QED BY <1>1, <1>2, <1>3, <1>4, <1>5 DEF Next

\* A byte added after the counter was read is flagged after the flag was
\* cleared: the flag is cleared first.
LEMMA FlagStep == TypeOK /\ NoUnderflow /\ Flagged /\ [Next]_vars => Flagged'
  <1> SUFFICES ASSUME TypeOK, NoUnderflow, Flagged, [Next]_vars PROVE Flagged'
    OBVIOUS
  <1> USE TrafficAssumption DEF TypeOK, Flagged
  <1>1. CASE UNCHANGED vars
    BY <1>1 DEF vars
  <1>2. CASE Connections
    <2>1. ASSUME NEW n \in Chunks, AddBytes(n) PROVE Flagged'
      BY <2>1 DEF AddBytes
    <2>2. CASE OpenConn \/ Mark \/ CloseConn \/ Close \/ ServeReturns
      BY <2>2 DEF OpenConn, Mark, CloseConn, Close, ServeReturns
    <2> QED BY <1>2, <2>1, <2>2 DEF Connections
  <1>3. CASE ObserveStats
    <2>1. CASE Tick \/ Read \/ Post \/ LoopEnds
      BY <2>1 DEF Tick, Read, Post, LoopEnds
    <2>2. CASE Answer \/ GiveUp
      BY <2>2 DEF Answer, GiveUp
    <2>3. CASE Get \/ Reset
      BY <2>3 DEF Get, Reset, NoUnderflow
    <2> QED BY <1>3, <2>1, <2>2, <2>3 DEF ObserveStats
  <1>4. CASE Apply \/ ApplyLate \/ Renew
    BY <1>4 DEF Apply, ApplyLate, Renew
  <1> QED BY <1>1, <1>2, <1>3, <1>4 DEF Next

LEMMA Inductive == Spec => []Inv
  <1>1. Init => Inv
    <2>1. Init => TypeOK
      <3>1. Init => late \subseteq [slot : Slots, n : Nat]
        BY DEF Init
      <3>2. Init => updated \in BOOLEAN /\ accepting \in BOOLEAN /\ live \in BOOLEAN /\ stale \in BOOLEAN
        BY DEF Init
      <3>3. Init => /\ bytes \in Nat /\ open \in Nat /\ marking \in Nat /\ sent \in Nat /\ rest \in Nat
                    /\ billed \in Nat /\ carried \in Nat /\ twice \in Nat /\ dropped \in Nat
        BY DEF Init
      <3>4. Init => loop = "tick" /\ request = "none"
        BY DEF Init
      <3> QED BY <3>1, <3>2, <3>3, <3>4 DEF TypeOK
    <2>2. Init => Waiting /\ NoUnderflow /\ Flagged
      BY DEF Init, Waiting, NoUnderflow, Flagged
    <2>3. Init => Balance
      BY DEF Init, Balance, Settling
    <2> QED BY <2>1, <2>2, <2>3 DEF Inv
  <1>2. Inv /\ [Next]_vars => Inv'
    BY TypeStep, UnderflowStep, BalanceStep, FlagStep DEF Inv
  <1> QED BY <1>1, <1>2, PTL DEF Spec

\* The panel's figure never passes the other one: nothing is billed that is not
\* in the counter, or was carried twice.
LEMMA NeverAhead == Inv => billed <= carried + twice
  <1> SUFFICES ASSUME Inv PROVE billed <= carried + twice
    OBVIOUS
  <1> USE DEF Inv, TypeOK
  <1>1. Settling \in Nat /\ Settling <= bytes
    BY DEF Settling, Waiting, NoUnderflow
  <1> QED BY <1>1 DEF Balance

\* ... and neither figure shrinks.
LEMMA MeterStep == Inv /\ Inv' /\ [Next]_vars => [M!Next]_<<carried + twice, billed>>
  <1> SUFFICES ASSUME Inv, Inv', [Next]_vars PROVE [M!Next]_<<carried + twice, billed>>
    OBVIOUS
  <1>1. (billed <= carried + twice)'
    BY NeverAhead, PTL
  <1> USE TrafficAssumption DEF Inv, TypeOK
  <1>2. billed <= billed'
    <2>1. CASE ApplyLate
      <3>1. PICK r \in late : ApplyLate!(r)
        BY <2>1 DEF ApplyLate
      <3>2. r.n \in Nat
        OBVIOUS
      <3> QED BY <3>1, <3>2
    <2>2. CASE Apply
      BY <2>2 DEF Apply
    <2>3. CASE ~Apply /\ ~ApplyLate
      BY <2>3 DEF Next, vars, Connections, OpenConn, AddBytes, Mark, CloseConn, Close, ServeReturns,
                  ObserveStats, Tick, Read, Post, Answer, GiveUp, Get, Reset, LoopEnds, Renew
    <2> QED BY <2>1, <2>2, <2>3
  <1>3. carried + twice <= (carried + twice)'
    <2>1. CASE ApplyLate
      <3>1. PICK r \in late : ApplyLate!(r)
        BY <2>1 DEF ApplyLate
      <3>2. r.n \in Nat
        OBVIOUS
      <3> QED BY <3>1, <3>2
    <2>2. CASE Connections
      <3>1. ASSUME NEW n \in Chunks, AddBytes(n) PROVE carried + twice <= (carried + twice)'
        BY <3>1 DEF AddBytes
      <3>2. CASE OpenConn \/ Mark \/ CloseConn \/ Close \/ ServeReturns
        <4>1. UNCHANGED <<carried, twice>>
          BY <3>2 DEF OpenConn, Mark, CloseConn, Close, ServeReturns
        <4> QED BY <4>1
      <3> QED BY <2>2, <3>1, <3>2 DEF Connections
    <2>3. CASE ~Connections /\ ~ApplyLate
      BY <2>3 DEF Next, vars, ObserveStats, Tick, Read, Post, Answer, GiveUp, Get, Reset, LoopEnds,
                  Apply, Renew
    <2> QED BY <2>1, <2>2, <2>3
  <1> QED BY <1>1, <1>2, <1>3 DEF M!Next

-----------------------------------------------------------------------------
\* Every variable of the specification keeps its type.
THEOREM TypeCorrect == Spec => []TypeOK
  <1>1. Inv => TypeOK
    BY DEF Inv
  <1> QED BY <1>1, Inductive, PTL

\* The report implements the promise of Meter: what the panel has charged never
\* passes what the service carried and failed reports repeated.
THEOREM ReportImplementsMeter == Spec => MeterSpec
  <1>1. Init => M!Init
    BY DEF Init, M!Init
  <1>2. Inv /\ Inv' /\ [Next]_vars => [M!Next]_<<carried + twice, billed>>
    BY MeterStep
  <1> QED BY <1>1, <1>2, Inductive, PTL DEF Spec, MeterSpec, M!Spec

\* The unsigned subtraction in observeStats never wraps around.
THEOREM CounterNeverWraps == Spec => []NoUnderflow
  <1>1. Inv => NoUnderflow
    BY DEF Inv
  <1> QED BY <1>1, Inductive, PTL

\* Every byte a service carried is billed, still counted, or accounted for by
\* one of the three causes Balance names.
THEOREM EveryByteAccountedFor == Spec => []Balance
  <1>1. Inv => Balance
    BY DEF Inv
  <1> QED BY <1>1, Inductive, PTL

\* A byte observeStats has not read is flagged, unless the last report failed.
THEOREM NoLostWakeup == Spec => []Flagged
  <1>1. Inv => Flagged
    BY DEF Inv
  <1> QED BY <1>1, Inductive, PTL
=============================================================================
