-------------------------- MODULE ConnectionProofs --------------------------
(* The connections that a node accepts and the ones that it dials.  No      *)
(* counter of the connection limiter has more open connections than its     *)
(* limit, and the first counter of a group gets everything back, for any    *)
(* clients, connections, limits and reloads.  And the sessions of a         *)
(* multiplexing dialer, for any number of calls and connections, where the  *)
(* keys of Dial and Handshake are the same.                                 *)
EXTENDS ConnLimiter, MuxDialer, FiniteSetTheorems, SequenceTheorems, TLAPS

-----------------------------------------------------------------------------
(* ConnLimiter: the connections that are accepted.                          *)

Distinct(s) == \A j, k \in DOMAIN s : s[j] = s[k] => j = k

Labels == {"new", "charge", "back", "open", "credit", "refused", "gone"}

\* Connection x is counted by l for a place of its group that satisfies P.
Holds(x, l) == \E k \in DOMAIN conn[x].lims :
    /\ conn[x].lims[k] = l
    /\ \/ conn[x].pc = "open"
       \/ conn[x].pc = "charge" /\ k < conn[x].i
       \/ conn[x].pc = "back" /\ k <= conn[x].i
       \/ conn[x].pc = "credit" /\ k >= conn[x].i
Passed(x, l) == \E k \in DOMAIN conn[x].lims :
    /\ conn[x].lims[k] = l
    /\ \/ conn[x].pc = "open"
       \/ conn[x].pc = "charge" /\ k < conn[x].i
HeldBy(l) == {x \in Arrivals : Holds(x, l)}
PassedBy(l) == {x \in Arrivals : Passed(x, l)}

Limits == [limit : Nat, current : Int, surplus : Nat]

CountersOK ==
    /\ config \in Config
    /\ loads \in Nat /\ made \in Nat
    /\ limiters \in [DOMAIN limiters -> Limits]
    /\ \A w \in Clients \cup {All} : Single(w) \in DOMAIN limiters
    /\ group \in [Clients -> Seq(DOMAIN limiters)]
    /\ \A h \in Clients : Distinct(group[h])
    /\ conn \in [Arrivals -> [pc : Labels, lims : Seq(DOMAIN limiters), i : Nat]]
    /\ \A x \in Arrivals :
          /\ Distinct(conn[x].lims)
          /\ conn[x].pc \in {"charge", "back", "credit"} => conn[x].i \in DOMAIN conn[x].lims

AgainOK ==
    /\ again \in [Repeats -> [pc : Labels, lims : Seq(DOMAIN limiters), i : Nat]]
    /\ \A c \in Repeats : again[c].pc = "credit" => again[c].i \in DOMAIN again[c].lims

\* What a counter would be without the surplus, and what it lets pass with it.
Net(l) == limiters[l].current + limiters[l].surplus
Room(l) == limiters[l].limit + limiters[l].surplus

\* A counter counts, but for the surplus, at least those it was raised for and
\* not lowered again, and lets no more pass than its limit and the surplus.
Counted == \A l \in DOMAIN limiters : Cardinality(HeldBy(l)) <= Net(l)
Bounded == \A l \in DOMAIN limiters : Cardinality(PassedBy(l)) <= Room(l)

LimitInv == LimiterAssumption /\ CountersOK /\ AgainOK /\ Counted /\ Bounded

-----------------------------------------------------------------------------
\* Sets of connections.
LEMMA Fewer ==
    ASSUME LimiterAssumption, NEW S \in SUBSET Arrivals, NEW T \in SUBSET S
    PROVE  Cardinality(T) <= Cardinality(S) /\ Cardinality(S) \in Nat /\ Cardinality(T) \in Nat
  <1>1. IsFiniteSet(S) BY FS_Subset DEF LimiterAssumption
  <1>2. IsFiniteSet(T) BY <1>1, FS_Subset
  <1> QED BY <1>1, <1>2, FS_Subset, FS_CardinalityType

LEMMA Joined ==
    ASSUME LimiterAssumption, NEW S \in SUBSET Arrivals, NEW x \in Arrivals, NEW T \in SUBSET (S \cup {x})
    PROVE  Cardinality(T) <= Cardinality(S) + 1
  <1>1. IsFiniteSet(S) BY FS_Subset DEF LimiterAssumption
  <1>2. Cardinality(S) \in Nat BY <1>1, FS_CardinalityType
  <1>3. S \cup {x} \in SUBSET Arrivals OBVIOUS
  <1>4. Cardinality(T) <= Cardinality(S \cup {x}) /\ Cardinality(T) \in Nat BY <1>3, Fewer
  <1>5. Cardinality(S \cup {x}) = IF x \in S THEN Cardinality(S) ELSE Cardinality(S) + 1
    BY <1>1, FS_AddElement
  <1>6. Cardinality(S \cup {x}) <= Cardinality(S) + 1 /\ Cardinality(S \cup {x}) \in Nat
    BY <1>2, <1>5
  <1> QED BY <1>2, <1>4, <1>6

LEMMA Left ==
    ASSUME LimiterAssumption, NEW S \in SUBSET Arrivals, NEW x \in S, NEW T \in SUBSET (S \ {x})
    PROVE  Cardinality(T) <= Cardinality(S) - 1
  <1>1. IsFiniteSet(S) BY FS_Subset DEF LimiterAssumption
  <1>2. Cardinality(S \ {x}) = Cardinality(S) - 1 BY <1>1, FS_RemoveElement
  <1>3. Cardinality(T) <= Cardinality(S \ {x}) BY Fewer
  <1> QED BY <1>2, <1>3

LEMMA Nobody == Cardinality({}) = 0
  BY FS_EmptySet

-----------------------------------------------------------------------------
LEMMA LimitInitInv == LimiterAssumption /\ LimitInit => LimitInv
  <1> SUFFICES ASSUME LimiterAssumption, LimitInit PROVE LimitInv
    OBVIOUS
  <1>1. CountersOK
    BY DEF LimiterAssumption, LimitInit, CountersOK, Config, Singles, Single, LimitOf, New, Labels, Distinct, All, Limits
  <1>5. AgainOK
    BY DEF LimitInit, AgainOK, New, Labels
  <1>2. \A l \in DOMAIN limiters : HeldBy(l) = {} /\ PassedBy(l) = {}
    BY DEF LimitInit, HeldBy, PassedBy, Holds, Passed, New
  <1>3. \A l \in DOMAIN limiters : Room(l) \in Nat /\ Net(l) = 0
    BY <1>1 DEF LimitInit, CountersOK, Singles, Limits, Net, Room
  <1>4. Counted /\ Bounded
    <2> SUFFICES ASSUME NEW l \in DOMAIN limiters
                 PROVE  Cardinality(HeldBy(l)) <= Net(l) /\ Cardinality(PassedBy(l)) <= Room(l)
      BY DEF Counted, Bounded
    <2>1. Cardinality(HeldBy(l)) = 0 /\ Cardinality(PassedBy(l)) = 0 BY <1>2, Nobody
    <2> QED BY <1>3, <2>1
  <1> QED BY <1>1, <1>4, <1>5 DEF LimitInv

LEMMA AgainKept ==
    ASSUME LimitInv, UNCHANGED again, DOMAIN limiters \subseteq DOMAIN limiters'
    PROVE  AgainOK'
  BY DEF LimitInv, AgainOK

\* Steps that make counters and charge none.
LEMMA MoreCounters ==
    ASSUME LimitInv, CountersOK', UNCHANGED <<conn, again>>, DOMAIN limiters \subseteq DOMAIN limiters',
           \A l \in DOMAIN limiters : limiters'[l] = limiters[l],
           \A l \in DOMAIN limiters' \ DOMAIN limiters : limiters'[l].current = 0 /\ limiters'[l].surplus = 0
    PROVE  LimitInv'
  <1> SUFFICES ASSUME NEW l \in DOMAIN limiters'
               PROVE  Cardinality(HeldBy(l)') <= Net(l)' /\ Cardinality(PassedBy(l)') <= Room(l)'
    BY AgainKept DEF LimitInv, Counted, Bounded, LimiterAssumption
  <1>1. HeldBy(l)' = HeldBy(l) /\ PassedBy(l)' = PassedBy(l)
    BY DEF HeldBy, PassedBy, Holds, Passed
  <1>2. CASE l \in DOMAIN limiters
    BY <1>1, <1>2 DEF LimitInv, Counted, Bounded, Net, Room
  <1>3. CASE l \notin DOMAIN limiters
    <2>1. \A x \in Arrivals : \A k \in DOMAIN conn[x].lims : conn[x].lims[k] # l
      BY <1>3 DEF LimitInv, CountersOK
    <2>2. HeldBy(l) = {} /\ PassedBy(l) = {} BY <2>1 DEF HeldBy, PassedBy, Holds, Passed
    <2>3. Net(l)' = 0 /\ Room(l)' \in Nat BY <1>3 DEF CountersOK, Limits, Net, Room
    <2> QED BY <1>1, <2>2, <2>3, Nobody
  <1> QED BY <1>2, <1>3

LEMMA ReloadStep == LimitInv /\ reload => LimitInv'
  <1> SUFFICES ASSUME LimitInv, reload PROVE LimitInv'
    OBVIOUS
  <1>1. PICK c \in Configs : config' = c /\ Adding(Singles(c, loads + 1)) BY DEF reload
  <1>2. c \in Config BY DEF LimitInv, LimiterAssumption
  <1>3. \A l \in DOMAIN Singles(c, loads + 1) :
            /\ Singles(c, loads + 1)[l] \in Limits
            /\ Singles(c, loads + 1)[l].current = 0 /\ Singles(c, loads + 1)[l].surplus = 0
    BY <1>2 DEF Limits, Singles, LimitOf, Config, All
  <1>4. /\ DOMAIN limiters' = DOMAIN limiters \cup DOMAIN Singles(c, loads + 1)
        /\ \A l \in DOMAIN limiters' : limiters'[l] =
              IF l \in DOMAIN limiters THEN limiters[l] ELSE Singles(c, loads + 1)[l]
        /\ limiters' = [l \in DOMAIN limiters' |-> limiters'[l]]
    BY <1>1 DEF Adding
  <1>5. CountersOK'
    <2>1. limiters' \in [DOMAIN limiters' -> Limits]
      BY <1>3, <1>4 DEF LimitInv, CountersOK
    <2>2. \A w \in Clients \cup {All} : Single(w)' \in DOMAIN limiters'
      BY <1>4 DEF reload, Single, Singles
    <2>3. group' \in [Clients -> Seq(DOMAIN limiters')] /\ \A h \in Clients : Distinct(group[h])'
      BY DEF reload, Distinct
    <2>4. conn' \in [Arrivals -> [pc : Labels, lims : Seq(DOMAIN limiters'), i : Nat]]
      BY <1>4 DEF reload, LimitInv, CountersOK
    <2>5. \A x \in Arrivals : /\ Distinct(conn[x].lims)'
                              /\ conn'[x].pc \in {"charge", "back", "credit"} => conn'[x].i \in DOMAIN conn'[x].lims
      BY DEF reload, LimitInv, CountersOK, Distinct
    <2> QED BY <1>1, <1>2, <2>1, <2>2, <2>3, <2>4, <2>5 DEF reload, LimitInv, CountersOK
  <1> QED BY <1>3, <1>4, <1>5, MoreCounters DEF reload

LEMMA Pair ==
    ASSUME NEW D, NEW a \in D, NEW b \in D, a # b
    PROVE  <<a, b>> \in Seq(D) /\ Distinct(<<a, b>>)
  BY DEF Distinct

\* A group has at most two counters, and not the same one twice.
LEMMA Grouped ==
    ASSUME NEW D, NEW l \in D, NEW g \in D, l # g, NEW all,
           NEW s \in {<<>>, <<l>>}, NEW t \in {s, Append(s, g)}
    PROVE  newLimiterGroup(t, all) \in Seq(D) /\ Distinct(newLimiterGroup(t, all))
  <1>1. s \in Seq(D) /\ Len(s) <= 1 /\ (Len(s) = 1 => s[1] = l) /\ Distinct(s)
    <2>1. CASE s = <<>> BY <2>1 DEF Distinct
    <2>2. CASE s = <<l>> BY <2>2 DEF Distinct
    <2> QED BY <2>1, <2>2
  <1>2. t \in Seq(D) /\ Len(t) \in 0..2 /\ Distinct(t)
    <2>1. CASE t = s BY <1>1, <2>1, LenProperties
    <2>2. CASE t = Append(s, g)
      <3>1. /\ t \in Seq(D) /\ Len(t) = Len(s) + 1 /\ Len(s) \in {0, 1}
            /\ \A i \in 1..Len(s) : t[i] = s[i]
            /\ t[Len(s) + 1] = g
        BY <1>1, <2>2, AppendProperties, LenProperties
      <3>2. DOMAIN t = 1..Len(t) BY <3>1, LenProperties
      <3>3. \A j, k \in DOMAIN t : t[j] = t[k] => j = k
        BY <1>1, <3>1, <3>2
      <3> QED BY <3>1, <3>3 DEF Distinct
    <2> QED BY <2>1, <2>2
  <1>3. CASE newLimiterGroup(t, all) = t BY <1>2, <1>3
  <1>4. CASE newLimiterGroup(t, all) # t
    <2>1. Len(t) = 2 /\ newLimiterGroup(t, all) = <<t[2], t[1]>>
      BY <1>4 DEF newLimiterGroup
    <2>2. 1 \in DOMAIN t /\ 2 \in DOMAIN t /\ t[1] \in D /\ t[2] \in D
      BY <1>2, <2>1, LenProperties, ElementOfSeq
    <2>3. t[1] # t[2] BY <1>2, <2>2 DEF Distinct
    <2> QED BY <2>1, <2>2, <2>3, Pair
  <1> QED BY <1>3, <1>4

LEMMA LimiterStep ==
    ASSUME LimitInv, NEW h \in Clients, Limiter(h)
    PROVE  LimitInv'
  <1> DEFINE n == OwnLimit(h)
             mine == IF n > 0 THEN <<Fresh(h)>> ELSE IF config.own[h] > 0 THEN <<Single(h)>> ELSE <<>>
             lims == IF config.global > 0 THEN Append(mine, Single(All)) ELSE mine
             counters == [l \in {Fresh(h)} |-> [limit |-> n, current |-> 0, surplus |-> 0]]
  <1>1. n \in Nat
    BY DEF OwnLimit, LimitInv, CountersOK, Config
  <1>2. /\ IF n > 0 THEN Adding(counters) /\ made' = made + 1 ELSE UNCHANGED <<limiters, made>>
        /\ group' = [group EXCEPT ![h] = newLimiterGroup(lims, limiters')]
    BY DEF Limiter
  <1>3. /\ DOMAIN limiters' = DOMAIN limiters \cup (IF n > 0 THEN {Fresh(h)} ELSE {})
        /\ \A l \in DOMAIN limiters : limiters'[l] = limiters[l]
        /\ \A l \in DOMAIN limiters' \ DOMAIN limiters : limiters'[l] = [limit |-> n, current |-> 0, surplus |-> 0]
        /\ limiters' = [l \in DOMAIN limiters' |-> limiters'[l]]
    <2>1. CASE n > 0 BY <1>2, <2>1 DEF Adding
    <2>2. CASE ~(n > 0) BY <1>2, <2>2 DEF LimitInv, CountersOK
    <2> QED BY <2>1, <2>2
  <1>4. limiters' \in [DOMAIN limiters' -> Limits]
    BY <1>1, <1>3 DEF LimitInv, CountersOK, Limits
  <1>5. made' \in Nat BY <1>2 DEF LimitInv, CountersOK
  <1>6. newLimiterGroup(lims, limiters') \in Seq(DOMAIN limiters') /\ Distinct(newLimiterGroup(lims, limiters'))
    <2> DEFINE l == IF n > 0 THEN Fresh(h) ELSE Single(h)
               g == Single(All)
    <2>1. l \in DOMAIN limiters' /\ g \in DOMAIN limiters' BY <1>3 DEF LimitInv, CountersOK
    <2>2. l # g
      BY DEF Fresh, Single, LimitInv, LimiterAssumption, CountersOK
    <2>3. mine \in {<<>>, <<l>>} /\ lims \in {mine, Append(mine, g)} OBVIOUS
    <2> HIDE DEF l, g, mine, lims
    <2> QED BY <2>1, <2>2, <2>3, Grouped
  <1> HIDE DEF n, mine, lims, counters
  <1>7. group' \in [Clients -> Seq(DOMAIN limiters')] /\ \A k \in Clients : Distinct(group[k])'
    <2>1. \A k \in Clients : group[k] \in Seq(DOMAIN limiters') BY <1>3 DEF LimitInv, CountersOK
    <2> QED BY <1>2, <1>6, <2>1 DEF LimitInv, CountersOK, Distinct
  <1>8. CountersOK'
    <2>1. \A w \in Clients \cup {All} : Single(w)' \in DOMAIN limiters'
      BY <1>3 DEF Limiter, Single, LimitInv, CountersOK
    <2>2. conn' \in [Arrivals -> [pc : Labels, lims : Seq(DOMAIN limiters'), i : Nat]]
      BY <1>3 DEF Limiter, LimitInv, CountersOK
    <2>3. \A x \in Arrivals : /\ Distinct(conn[x].lims)'
                              /\ conn'[x].pc \in {"charge", "back", "credit"} => conn'[x].i \in DOMAIN conn'[x].lims
      BY DEF Limiter, LimitInv, CountersOK, Distinct
    <2> QED BY <1>4, <1>5, <1>7, <2>1, <2>2, <2>3 DEF Limiter, LimitInv, CountersOK
  <1> QED BY <1>3, <1>8, MoreCounters DEF Limiter

-----------------------------------------------------------------------------
\* A step of one connection that moves it to another place and raises or lowers
\* the counter it is at.
LEMMA Moved ==
    ASSUME LimitInv, NEW x \in Arrivals, NEW p \in Labels, NEW j \in Nat, Move(x, p, j),
           p \in {"charge", "back", "credit"} => j \in DOMAIN conn[x].lims,
           NEW n \in Int, NEW l \in DOMAIN limiters, Bump(l, n),
           UNCHANGED <<config, loads, made, group, known, again>>
    PROVE  /\ CountersOK' /\ AgainOK' /\ DOMAIN limiters' = DOMAIN limiters
           /\ \A y \in Arrivals : y # x => conn'[y] = conn[y]
           /\ conn'[x] = [pc |-> p, lims |-> conn[x].lims, i |-> j]
           /\ \A m \in DOMAIN limiters : Room(m)' = Room(m) /\ Net(m)' = IF m = l THEN Net(m) + n ELSE Net(m)
  <1>1. /\ limiters' \in [DOMAIN limiters -> Limits]
        /\ \A m \in DOMAIN limiters : Room(m)' = Room(m) /\ Net(m)' = IF m = l THEN Net(m) + n ELSE Net(m)
    <2> DEFINE r == [limiters[l] EXCEPT !.current = @ + n]
    <2>1. limiters[l] \in Limits BY DEF LimitInv, CountersOK
    <2>2. /\ r \in Limits /\ r.limit = limiters[l].limit
          /\ r.current = limiters[l].current + n /\ r.surplus = limiters[l].surplus
      BY <2>1 DEF Limits
    <2>3. limiters' = [limiters EXCEPT ![l] = r] BY DEF Bump
    <2> HIDE DEF r
    <2>4. limiters' \in [DOMAIN limiters -> Limits] BY <2>2, <2>3 DEF LimitInv, CountersOK
    <2>5. \A m \in DOMAIN limiters : limiters'[m] = IF m = l THEN r ELSE limiters[m]
      BY <2>3 DEF LimitInv, CountersOK
    <2>6. Room(l)' = Room(l) /\ Net(l)' = Net(l) + n
      BY <2>1, <2>2, <2>5 DEF Limits, Room, Net
    <2>7. \A m \in DOMAIN limiters : m # l => Room(m)' = Room(m) /\ Net(m)' = Net(m)
      BY <2>5 DEF Room, Net
    <2> QED BY <2>4, <2>6, <2>7
  <1>2. DOMAIN limiters' = DOMAIN limiters BY <1>1
  <1>3. /\ conn' \in [Arrivals -> [pc : Labels, lims : Seq(DOMAIN limiters), i : Nat]]
        /\ \A y \in Arrivals : y # x => conn'[y] = conn[y]
        /\ conn'[x] = [pc |-> p, lims |-> conn[x].lims, i |-> j]
    BY DEF LimitInv, CountersOK, Move
  <1>4. \A y \in Arrivals : /\ Distinct(conn[y].lims)'
                            /\ conn'[y].pc \in {"charge", "back", "credit"} => conn'[y].i \in DOMAIN conn'[y].lims
    <2> SUFFICES ASSUME NEW y \in Arrivals
                 PROVE  /\ Distinct(conn'[y].lims)
                        /\ conn'[y].pc \in {"charge", "back", "credit"} => conn'[y].i \in DOMAIN conn'[y].lims
      OBVIOUS
    <2>1. CASE y = x BY <1>3, <2>1 DEF LimitInv, CountersOK
    <2>2. CASE y # x BY <1>3, <2>2 DEF LimitInv, CountersOK
    <2> QED BY <2>1, <2>2
  <1>5. \A w \in Clients \cup {All} : Single(w)' = Single(w) BY DEF Single
  <1>6. \A h \in Clients : Distinct(group[h])' BY DEF LimitInv, CountersOK, Distinct
  <1>7. AgainOK' BY <1>2, AgainKept
  <1> QED BY <1>1, <1>2, <1>3, <1>4, <1>5, <1>6, <1>7 DEF LimitInv, CountersOK

\* Such a step keeps the counts when it counts what it adds and only what was
\* counted leaves.
LEMMA CountKept ==
    ASSUME LimitInv, CountersOK', AgainOK', DOMAIN limiters' = DOMAIN limiters,
           \A m \in DOMAIN limiters :
              /\ Cardinality(HeldBy(m)') <= Net(m)'
              /\ Cardinality(PassedBy(m)') <= Room(m)'
    PROVE  LimitInv'
  BY DEF LimitInv, Counted, Bounded, LimiterAssumption

\* The connections other than x are counted as before.
LEMMA Others ==
    ASSUME NEW x, NEW m, \A y \in Arrivals : y # x => conn'[y] = conn[y]
    PROVE  /\ \A y \in Arrivals : y # x => (Holds(y, m)' <=> Holds(y, m)) /\ (Passed(y, m)' <=> Passed(y, m))
           /\ (Holds(x, m)' => Holds(x, m)) => HeldBy(m)' \subseteq HeldBy(m)
           /\ (Passed(x, m)' => Passed(x, m)) => PassedBy(m)' \subseteq PassedBy(m)
           /\ HeldBy(m)' \subseteq HeldBy(m) \cup {x}
           /\ ~Holds(x, m)' => HeldBy(m)' \subseteq HeldBy(m) \ {x}
  <1>1. \A y \in Arrivals : y # x => (Holds(y, m)' <=> Holds(y, m)) /\ (Passed(y, m)' <=> Passed(y, m))
    BY DEF Holds, Passed
  <1> QED BY <1>1 DEF HeldBy, PassedBy

\* The sizes of the sets of a counter that no step of x raised.
LEMMA Sizes ==
    ASSUME LimitInv, NEW m \in DOMAIN limiters
    PROVE  /\ Cardinality(HeldBy(m)) \in Nat /\ Cardinality(HeldBy(m)) <= Net(m)
           /\ Cardinality(PassedBy(m)) \in Nat /\ Cardinality(PassedBy(m)) <= Room(m)
           /\ Room(m) \in Nat /\ Net(m) \in Int
           /\ \A T \in SUBSET HeldBy(m) : Cardinality(T) <= Net(m)
           /\ \A T \in SUBSET PassedBy(m) : Cardinality(T) <= Room(m)
           /\ \A x \in Arrivals : \A T \in SUBSET (HeldBy(m) \cup {x}) : Cardinality(T) <= Net(m) + 1
           /\ \A x \in HeldBy(m) : \A T \in SUBSET (HeldBy(m) \ {x}) : Cardinality(T) <= Net(m) - 1
  <1>1. HeldBy(m) \in SUBSET Arrivals /\ PassedBy(m) \in SUBSET Arrivals BY DEF HeldBy, PassedBy
  <1>2. LimiterAssumption BY DEF LimitInv
  <1>3. /\ Cardinality(HeldBy(m)) \in Nat /\ Cardinality(HeldBy(m)) <= Net(m)
        /\ Cardinality(PassedBy(m)) \in Nat /\ Cardinality(PassedBy(m)) <= Room(m)
        /\ Room(m) \in Nat /\ Net(m) \in Int
    <2>1. limiters[m] \in Limits BY DEF LimitInv, CountersOK
    <2>2. Room(m) \in Nat /\ Net(m) \in Int BY <2>1 DEF Limits, Net, Room
    <2>3. Cardinality(HeldBy(m)) \in Nat /\ Cardinality(PassedBy(m)) \in Nat BY <1>1, <1>2, Fewer
    <2>4. Cardinality(HeldBy(m)) <= Net(m) /\ Cardinality(PassedBy(m)) <= Room(m)
      BY DEF LimitInv, Counted, Bounded
    <2> QED BY <2>2, <2>3, <2>4
  <1>4. \A T \in SUBSET HeldBy(m) : Cardinality(T) <= Net(m)
    <2> SUFFICES ASSUME NEW T \in SUBSET HeldBy(m) PROVE Cardinality(T) <= Net(m)
      OBVIOUS
    <2>1. Cardinality(T) <= Cardinality(HeldBy(m)) /\ Cardinality(T) \in Nat BY <1>1, <1>2, Fewer
    <2> QED BY <1>3, <2>1
  <1>5. \A T \in SUBSET PassedBy(m) : Cardinality(T) <= Room(m)
    <2> SUFFICES ASSUME NEW T \in SUBSET PassedBy(m) PROVE Cardinality(T) <= Room(m)
      OBVIOUS
    <2>1. Cardinality(T) <= Cardinality(PassedBy(m)) /\ Cardinality(T) \in Nat BY <1>1, <1>2, Fewer
    <2> QED BY <1>3, <2>1
  <1>6. \A x \in Arrivals : \A T \in SUBSET (HeldBy(m) \cup {x}) : Cardinality(T) <= Net(m) + 1
    <2> SUFFICES ASSUME NEW x \in Arrivals, NEW T \in SUBSET (HeldBy(m) \cup {x})
                 PROVE  Cardinality(T) <= Net(m) + 1
      OBVIOUS
    <2>1. T \in SUBSET Arrivals BY <1>1
    <2>2. Cardinality(T) <= Cardinality(HeldBy(m)) + 1 /\ Cardinality(T) \in Nat
      BY <1>1, <1>2, <2>1, Joined, Fewer
    <2> QED BY <1>3, <2>2
  <1>7. \A x \in HeldBy(m) : \A T \in SUBSET (HeldBy(m) \ {x}) : Cardinality(T) <= Net(m) - 1
    <2> SUFFICES ASSUME NEW x \in HeldBy(m), NEW T \in SUBSET (HeldBy(m) \ {x})
                 PROVE  Cardinality(T) <= Net(m) - 1
      OBVIOUS
    <2>1. T \in SUBSET HeldBy(m) OBVIOUS
    <2>2. Cardinality(T) <= Cardinality(HeldBy(m)) - 1 /\ Cardinality(T) \in Nat
      BY <1>1, <1>2, <2>1, Left, Fewer
    <2> QED BY <1>3, <2>2
  <1> QED BY <1>3, <1>4, <1>5, <1>6, <1>7

LEMMA AcceptStep ==
    ASSUME LimitInv, NEW x \in Arrivals, Accept(x)
    PROVE  LimitInv'
  <1> DEFINE g == group[HostOf[x]]
             c == [pc |-> IF g = <<>> THEN "open" ELSE "charge", lims |-> g, i |-> 1]
  <1>1. conn' = [conn EXCEPT ![x] = c] /\ conn[x].pc = "new" BY DEF Accept
  <1>2. HostOf[x] \in Clients BY DEF LimitInv, LimiterAssumption
  <1>3. g \in Seq(DOMAIN limiters) /\ Distinct(g) BY <1>2 DEF LimitInv, CountersOK
  <1>4. c.pc = "charge" => c.i \in DOMAIN c.lims BY <1>3
  <1>5. c \in [pc : Labels, lims : Seq(DOMAIN limiters), i : Nat] BY <1>3 DEF Labels
  <1>6. c.lims = g /\ c.pc \in {"open", "charge"} /\ (c.pc = "open" => c.lims = <<>>) /\ c.i = 1 OBVIOUS
  <1> HIDE DEF c, g
  <1>7. conn'[x] = c /\ \A y \in Arrivals : y # x => conn'[y] = conn[y]
    BY <1>1 DEF LimitInv, CountersOK
  <1>8. CountersOK'
    <2>1. conn' \in [Arrivals -> [pc : Labels, lims : Seq(DOMAIN limiters), i : Nat]]
      BY <1>1, <1>5 DEF LimitInv, CountersOK
    <2>2. \A y \in Arrivals : /\ Distinct(conn[y].lims)'
                              /\ conn'[y].pc \in {"charge", "back", "credit"} => conn'[y].i \in DOMAIN conn'[y].lims
      <3> SUFFICES ASSUME NEW y \in Arrivals
                   PROVE  /\ Distinct(conn'[y].lims)
                          /\ conn'[y].pc \in {"charge", "back", "credit"} => conn'[y].i \in DOMAIN conn'[y].lims
        OBVIOUS
      <3>1. CASE y = x BY <1>3, <1>4, <1>6, <1>7, <3>1
      <3>2. CASE y # x BY <1>7, <3>2 DEF LimitInv, CountersOK
      <3> QED BY <3>1, <3>2
    <2>3. \A w \in Clients \cup {All} : Single(w)' \in DOMAIN limiters' BY DEF Accept, Single, LimitInv, CountersOK
    <2>4. \A h \in Clients : Distinct(group[h])' BY DEF Accept, LimitInv, CountersOK, Distinct
    <2> QED BY <2>1, <2>2, <2>3, <2>4 DEF Accept, LimitInv, CountersOK
  <1>9. \A m \in DOMAIN limiters : HeldBy(m)' \subseteq HeldBy(m) /\ PassedBy(m)' \subseteq PassedBy(m)
    <2> SUFFICES ASSUME NEW m \in DOMAIN limiters
                 PROVE  HeldBy(m)' \subseteq HeldBy(m) /\ PassedBy(m)' \subseteq PassedBy(m)
      OBVIOUS
    <2>1. \A k \in DOMAIN c.lims : k \in Int /\ ~(k < c.i) /\ c.pc = "charge"
      <3>1. \A k \in DOMAIN c.lims : k \in Int /\ k >= 1 BY <1>3, <1>6, LenProperties
      <3>2. c.pc = "open" => DOMAIN c.lims = {} BY <1>6
      <3> QED BY <1>6, <3>1, <3>2
    <2>2. ~Holds(x, m)' /\ ~Passed(x, m)' BY <1>7, <2>1 DEF Holds, Passed
    <2> QED BY <1>7, <2>2, Others
  <1>10. limiters' = limiters BY DEF Accept
  <1>11. AgainOK' /\ \A m : Net(m)' = Net(m) /\ Room(m)' = Room(m) BY <1>10, AgainKept DEF Accept, Net, Room
  <1> QED BY <1>8, <1>9, <1>10, <1>11, Sizes, CountKept

LEMMA ChargeStep ==
    ASSUME LimitInv, NEW x \in Arrivals, Charge(x)
    PROVE  LimitInv'
  <1>0. PICK l : l = Counter(x) OBVIOUS
  <1> DEFINE i == conn[x].i
             p == IF limiters[l].current + 1 > limiters[l].limit THEN "back"
                  ELSE IF i < Len(conn[x].lims) THEN "charge" ELSE "open"
             j == IF p = "back" THEN i ELSE IF p = "charge" THEN i + 1 ELSE 1
  <1>1. /\ conn[x].pc = "charge" /\ i \in DOMAIN conn[x].lims
        /\ conn[x].lims \in Seq(DOMAIN limiters) /\ Distinct(conn[x].lims)
    BY DEF Charge, LimitInv, CountersOK
  <1>2. /\ i \in Nat /\ i >= 1 /\ Len(conn[x].lims) \in Nat /\ i <= Len(conn[x].lims)
        /\ DOMAIN conn[x].lims = 1..Len(conn[x].lims) /\ l \in DOMAIN limiters
    BY <1>1, LenProperties, ElementOfSeq, <1>0 DEF Counter
  <1>3. Move(x, p, j) /\ Bump(l, 1) BY <1>0 DEF Charge
  <1>4. p \in Labels /\ j \in Nat /\ (p \in {"charge", "back", "credit"} => j \in DOMAIN conn[x].lims)
    BY <1>2 DEF Labels
  <1>5. UNCHANGED <<config, loads, made, group, known, again>> BY DEF Charge
  <1>6. /\ p = "back" => j = i
        /\ p = "charge" => j = i + 1
        /\ p = "open" => i = Len(conn[x].lims)
        /\ p \in {"back", "charge", "open"}
        /\ p # "back" => Net(l) + 1 <= Room(l)
    <2>1. limiters[l] \in Limits BY <1>2 DEF LimitInv, CountersOK
    <2> QED BY <1>2, <2>1 DEF Limits, Net, Room
  <1>7. conn[x].lims[i] = l BY <1>0 DEF Counter
  <1> HIDE DEF i, p, j
  <1>8. /\ CountersOK' /\ AgainOK' /\ DOMAIN limiters' = DOMAIN limiters
        /\ \A y \in Arrivals : y # x => conn'[y] = conn[y]
        /\ conn'[x] = [pc |-> p, lims |-> conn[x].lims, i |-> j]
        /\ \A m \in DOMAIN limiters : Room(m)' = Room(m) /\ Net(m)' = IF m = l THEN Net(m) + 1 ELSE Net(m)
    <2>1. l \in DOMAIN limiters /\ 1 \in Int BY <1>2
    <2> QED BY <1>3, <1>4, <1>5, <2>1, Moved
  <1>9. /\ Net(l)' = Net(l) + 1
        /\ \A m \in DOMAIN limiters : m # l => Net(m)' = Net(m)
    BY <1>2, <1>8
  <1>10. ASSUME NEW m \in DOMAIN limiters, m # l
         PROVE  HeldBy(m)' \subseteq HeldBy(m) /\ PassedBy(m)' \subseteq PassedBy(m)
    <2>1. Holds(x, m)' => Holds(x, m)
      BY <1>1, <1>2, <1>6, <1>7, <1>8, <1>10 DEF Holds, i
    <2>2. Passed(x, m)' => Passed(x, m)
      <3> SUFFICES ASSUME NEW k \in DOMAIN conn[x].lims, conn[x].lims[k] = m,
                          p = "open" \/ (p = "charge" /\ k < j)
                   PROVE  k < i
        BY <1>1, <1>8 DEF Passed, i
      <3>1. k \in 1..Len(conn[x].lims) /\ k # i BY <1>2, <1>7, <1>10
      <3> QED BY <1>2, <1>6, <3>1
    <2> QED BY <1>8, <2>1, <2>2, Others
  <1>11. HeldBy(l)' \subseteq HeldBy(l) \cup {x} BY <1>8, Others
  <1>12. Cardinality(HeldBy(l)') <= Net(l) + 1 BY <1>2, <1>11, Sizes
  <1>13. Cardinality(PassedBy(l)') <= Room(l)
    <2>1. CASE p = "back"
      <3>1. ~Passed(x, l)' BY <1>8, <2>1 DEF Passed
      <3>2. PassedBy(l)' \subseteq PassedBy(l) BY <1>8, <3>1, Others
      <3> QED BY <1>2, <3>2, Sizes
    <2>2. CASE p # "back"
      <3>1. PassedBy(l)' \subseteq HeldBy(l)' BY DEF PassedBy, HeldBy, Passed, Holds
      <3>2. HeldBy(l)' \in SUBSET Arrivals BY DEF HeldBy
      <3>3. LimiterAssumption BY DEF LimitInv
      <3>4. /\ Cardinality(PassedBy(l)') <= Cardinality(HeldBy(l)')
            /\ Cardinality(PassedBy(l)') \in Nat /\ Cardinality(HeldBy(l)') \in Nat
        BY <3>1, <3>2, <3>3, Fewer
      <3>5. Net(l) \in Int /\ Room(l) \in Nat BY <1>2, Sizes
      <3> QED BY <1>6, <1>12, <2>2, <3>4, <3>5
    <2> QED BY <2>1, <2>2
  <1>14. \A m \in DOMAIN limiters : /\ Cardinality(HeldBy(m)') <= Net(m)'
                                    /\ Cardinality(PassedBy(m)') <= Room(m)'
    <2> SUFFICES ASSUME NEW m \in DOMAIN limiters
                 PROVE  /\ Cardinality(HeldBy(m)') <= Net(m)'
                        /\ Cardinality(PassedBy(m)') <= Room(m)'
      OBVIOUS
    <2>1. CASE m = l BY <1>2, <1>8, <1>9, <1>12, <1>13, <2>1
    <2>2. CASE m # l BY <1>8, <1>9, <1>10, <2>2, Sizes
    <2> QED BY <2>1, <2>2
  <1> QED BY <1>8, <1>14, CountKept

\* Lowering a counter that x is counted by, and moving x so that it no longer is.
LEMMA Lowered ==
    ASSUME LimitInv, NEW x \in Arrivals, NEW p \in Labels \ {"open", "charge"}, NEW j \in Nat, Move(x, p, j),
           p \in {"charge", "back", "credit"} => j \in DOMAIN conn[x].lims,
           NEW l \in DOMAIN limiters, Bump(l, -1), Holds(x, l), ~Holds(x, l)',
           \A m \in DOMAIN limiters : Holds(x, m)' => Holds(x, m),
           UNCHANGED <<config, loads, made, group, known, again>>
    PROVE  LimitInv'
  <1>1. /\ CountersOK' /\ AgainOK' /\ DOMAIN limiters' = DOMAIN limiters
        /\ \A y \in Arrivals : y # x => conn'[y] = conn[y]
        /\ conn'[x] = [pc |-> p, lims |-> conn[x].lims, i |-> j]
        /\ \A m \in DOMAIN limiters : Room(m)' = Room(m) /\ Net(m)' = IF m = l THEN Net(m) + (-1) ELSE Net(m)
    <2>1. PICK n \in Int : n = -1 OBVIOUS
    <2>2. Bump(l, n) BY <2>1
    <2>3. p \in Labels OBVIOUS
    <2>4. /\ CountersOK' /\ AgainOK' /\ DOMAIN limiters' = DOMAIN limiters
          /\ \A y \in Arrivals : y # x => conn'[y] = conn[y]
          /\ conn'[x] = [pc |-> p, lims |-> conn[x].lims, i |-> j]
          /\ \A m \in DOMAIN limiters : Room(m)' = Room(m) /\ Net(m)' = IF m = l THEN Net(m) + n ELSE Net(m)
      BY <2>2, <2>3, Moved
    <2> QED BY <2>1, <2>4
  <1>2. /\ Net(l)' = Net(l) - 1
        /\ \A m \in DOMAIN limiters : m # l => Net(m)' = Net(m)
    BY <1>1, Sizes
  <1>3. ASSUME NEW m \in DOMAIN limiters
        PROVE  /\ Cardinality(HeldBy(m)') <= Net(m)'
               /\ Cardinality(PassedBy(m)') <= Room(m)'
    <2>1. ~Passed(x, m)' BY <1>1 DEF Passed
    <2>2. PassedBy(m)' \subseteq PassedBy(m) BY <1>1, <2>1, Others
    <2>3. Cardinality(PassedBy(m)') <= Room(m)' BY <1>1, <2>2, Sizes
    <2>4. CASE m = l
      <3>1. x \in HeldBy(l) BY DEF HeldBy
      <3>2. HeldBy(l)' \subseteq HeldBy(l) \ {x} BY <1>1, Others
      <3> QED BY <1>2, <2>3, <2>4, <3>1, <3>2, Sizes
    <2>5. CASE m # l
      <3>1. HeldBy(m)' \subseteq HeldBy(m) BY <1>1, Others
      <3> QED BY <1>2, <2>3, <2>5, <3>1, Sizes
    <2> QED BY <2>4, <2>5
  <1> QED BY <1>1, <1>3, CountKept

LEMMA TakeBackStep ==
    ASSUME LimitInv, NEW x \in Arrivals, TakeBack(x)
    PROVE  LimitInv'
  <1>0. PICK l, i, p, j : /\ l = Counter(x) /\ i = conn[x].i
                          /\ p = (IF conn[x].i > 1 THEN "back" ELSE "refused")
                          /\ j = (IF conn[x].i > 1 THEN conn[x].i - 1 ELSE 0)
    OBVIOUS
  <1>1. /\ conn[x].pc = "back" /\ i \in DOMAIN conn[x].lims
        /\ conn[x].lims \in Seq(DOMAIN limiters) /\ Distinct(conn[x].lims)
    BY <1>0 DEF TakeBack, LimitInv, CountersOK
  <1>2. /\ i = conn[x].i /\ i \in Nat /\ i >= 1 /\ i <= Len(conn[x].lims) /\ Len(conn[x].lims) \in Nat
        /\ DOMAIN conn[x].lims = 1..Len(conn[x].lims) /\ l \in DOMAIN limiters /\ conn[x].lims[i] = l
    BY <1>0, <1>1, LenProperties, ElementOfSeq DEF Counter
  <1>3. Move(x, p, j) /\ Bump(l, -1) BY <1>0 DEF TakeBack
  <1>4. /\ p \in Labels \ {"open", "charge"} /\ j \in Nat
        /\ p \in {"charge", "back", "credit"} => j \in DOMAIN conn[x].lims
        /\ p = "back" => j = i - 1
        /\ p \in {"back", "refused"}
    BY <1>0, <1>2 DEF Labels
  <1>5. conn'[x] = [pc |-> p, lims |-> conn[x].lims, i |-> j] BY <1>3 DEF Move, LimitInv, CountersOK
  <1>6. Holds(x, l)
    <2>1. i \in DOMAIN conn[x].lims /\ conn[x].lims[i] = l /\ i <= conn[x].i /\ i >= conn[x].i
      BY <1>1, <1>2
    <2> QED BY <1>1, <2>1 DEF Holds
  <1>7. ~Holds(x, l)'
    <2>1. \A k \in DOMAIN conn[x].lims : conn[x].lims[k] = l => k = i BY <1>1, <1>2 DEF Distinct
    <2>2. p = "back" => ~(i <= j) BY <1>2, <1>4
    <2> QED BY <1>4, <1>5, <2>1, <2>2 DEF Holds
  <1>8. \A m \in DOMAIN limiters : Holds(x, m)' => Holds(x, m)
    <2>1. \A k \in DOMAIN conn[x].lims : p = "back" /\ k <= j => k <= conn[x].i BY <1>2, <1>4
    <2> QED BY <1>1, <1>4, <1>5, <2>1 DEF Holds
  <1> QED BY <1>2, <1>3, <1>4, <1>6, <1>7, <1>8, Lowered DEF TakeBack

LEMMA CreditStep ==
    ASSUME LimitInv, NEW x \in Arrivals, Credit(x)
    PROVE  LimitInv'
  <1> DEFINE more == conn[x].i < Len(conn[x].lims) /\ limiters[Counter(x)].current - 1 <= limiters[Counter(x)].limit
  <1>0. PICK l, i, p, j : /\ l = Counter(x) /\ i = conn[x].i
                          /\ p = (IF more THEN "credit" ELSE "gone")
                          /\ j = (IF more THEN conn[x].i + 1 ELSE 0)
    OBVIOUS
  <1>1. /\ conn[x].pc = "credit" /\ i \in DOMAIN conn[x].lims
        /\ conn[x].lims \in Seq(DOMAIN limiters) /\ Distinct(conn[x].lims)
    BY <1>0 DEF Credit, LimitInv, CountersOK
  <1>2. /\ i = conn[x].i /\ i \in Nat /\ i >= 1 /\ i <= Len(conn[x].lims) /\ Len(conn[x].lims) \in Nat
        /\ DOMAIN conn[x].lims = 1..Len(conn[x].lims) /\ l \in DOMAIN limiters /\ conn[x].lims[i] = l
    BY <1>0, <1>1, LenProperties, ElementOfSeq DEF Counter
  <1>3. Move(x, p, j) /\ Bump(l, -1) BY <1>0 DEF Credit
  <1>4. /\ p \in Labels \ {"open", "charge"} /\ j \in Nat
        /\ p \in {"charge", "back", "credit"} => j \in DOMAIN conn[x].lims
        /\ p = "credit" => j = i + 1
        /\ p \in {"credit", "gone"}
    BY <1>0, <1>2 DEF Labels
  <1>5. conn'[x] = [pc |-> p, lims |-> conn[x].lims, i |-> j] BY <1>3 DEF Move, LimitInv, CountersOK
  <1>6. Holds(x, l)
    <2>1. i \in DOMAIN conn[x].lims /\ conn[x].lims[i] = l /\ i <= conn[x].i /\ i >= conn[x].i
      BY <1>1, <1>2
    <2> QED BY <1>1, <2>1 DEF Holds
  <1>7. ~Holds(x, l)'
    <2>1. \A k \in DOMAIN conn[x].lims : conn[x].lims[k] = l => k = i BY <1>1, <1>2 DEF Distinct
    <2>2. p = "credit" => ~(i >= j) BY <1>2, <1>4
    <2> QED BY <1>4, <1>5, <2>1, <2>2 DEF Holds
  <1>8. \A m \in DOMAIN limiters : Holds(x, m)' => Holds(x, m)
    <2>1. \A k \in DOMAIN conn[x].lims : p = "credit" /\ k >= j => k >= conn[x].i BY <1>2, <1>4
    <2> QED BY <1>1, <1>4, <1>5, <2>1 DEF Holds
  <1> QED BY <1>2, <1>3, <1>4, <1>6, <1>7, <1>8, Lowered DEF Credit

LEMMA CloseConnStep ==
    ASSUME LimitInv, NEW x \in Arrivals, CloseConn(x)
    PROVE  LimitInv'
  <1>0. PICK p, j : /\ p = (IF conn[x].lims = <<>> THEN "gone" ELSE "credit")
                    /\ j = (IF conn[x].lims = <<>> THEN 0 ELSE 1)
    OBVIOUS
  <1>1. conn[x].pc = "open" /\ conn[x].lims \in Seq(DOMAIN limiters) BY DEF CloseConn, LimitInv, CountersOK
  <1>2. Len(conn[x].lims) \in Nat /\ DOMAIN conn[x].lims = 1..Len(conn[x].lims) BY <1>1, LenProperties
  <1>3. p \in Labels /\ j \in Nat /\ (p \in {"charge", "back", "credit"} => j \in DOMAIN conn[x].lims)
    BY <1>0, <1>1, <1>2 DEF Labels
  <1>4. Move(x, p, j) /\ limiters' = limiters BY <1>0 DEF CloseConn
  <1>5. /\ p \in {"gone", "credit"}
        /\ conn'[x] = [pc |-> p, lims |-> conn[x].lims, i |-> j]
        /\ \A y \in Arrivals : y # x => conn'[y] = conn[y]
    BY <1>0, <1>4 DEF Move, LimitInv, CountersOK
  <1>6. CountersOK'
    <2>1. \A w \in Clients \cup {All} : Single(w)' \in DOMAIN limiters'
      BY <1>4 DEF CloseConn, Single, LimitInv, CountersOK
    <2>2. conn' \in [Arrivals -> [pc : Labels, lims : Seq(DOMAIN limiters), i : Nat]]
      BY <1>3, <1>4 DEF Move, LimitInv, CountersOK
    <2>3. \A y \in Arrivals : /\ Distinct(conn[y].lims)'
                              /\ conn'[y].pc \in {"charge", "back", "credit"} => conn'[y].i \in DOMAIN conn'[y].lims
      <3> SUFFICES ASSUME NEW y \in Arrivals
                   PROVE  /\ Distinct(conn'[y].lims)
                          /\ conn'[y].pc \in {"charge", "back", "credit"} => conn'[y].i \in DOMAIN conn'[y].lims
        OBVIOUS
      <3>1. CASE y = x BY <1>3, <1>5, <3>1 DEF LimitInv, CountersOK
      <3>2. CASE y # x BY <1>5, <3>2 DEF LimitInv, CountersOK
      <3> QED BY <3>1, <3>2
    <2>4. \A h \in Clients : Distinct(group[h])' BY DEF CloseConn, LimitInv, CountersOK, Distinct
    <2> QED BY <1>4, <2>1, <2>2, <2>3, <2>4 DEF CloseConn, LimitInv, CountersOK
  <1>7. \A m \in DOMAIN limiters : HeldBy(m)' \subseteq HeldBy(m) /\ PassedBy(m)' \subseteq PassedBy(m)
    <2> SUFFICES ASSUME NEW m \in DOMAIN limiters
                 PROVE  HeldBy(m)' \subseteq HeldBy(m) /\ PassedBy(m)' \subseteq PassedBy(m)
      OBVIOUS
    <2>1. Holds(x, m)' => Holds(x, m) BY <1>1, <1>5 DEF Holds
    <2>2. ~Passed(x, m)' BY <1>5 DEF Passed
    <2> QED BY <1>5, <2>1, <2>2, Others
  <1>8. AgainOK' /\ \A m : Net(m)' = Net(m) /\ Room(m)' = Room(m) BY <1>4, AgainKept DEF CloseConn, Net, Room
  <1> QED BY <1>4, <1>6, <1>7, <1>8, Sizes, CountKept

\* A further Close begins.
LEMMA CloseAgainStep ==
    ASSUME LimitInv, NEW c \in Repeats, NEW x \in Arrivals, CloseAgain(c, x)
    PROVE  LimitInv'
  <1>1. /\ UNCHANGED <<config, loads, limiters, made, group, known, conn>>
        /\ conn[x].lims # <<>> /\ conn[x].lims \in Seq(DOMAIN limiters)
    BY DEF CloseAgain, LimitInv, CountersOK
  <1>2. PICK r : r = [pc |-> "credit", lims |-> conn[x].lims, i |-> 1] OBVIOUS
  <1>3. r \in [pc : Labels, lims : Seq(DOMAIN limiters), i : Nat] /\ r.i \in DOMAIN r.lims
    BY <1>1, <1>2, EmptySeq, LenProperties DEF Labels
  <1>4. again' = [again EXCEPT ![c] = r] BY <1>2 DEF CloseAgain
  <1>5. AgainOK'
    <2>1. again' \in [Repeats -> [pc : Labels, lims : Seq(DOMAIN limiters), i : Nat]]
      BY <1>3, <1>4 DEF LimitInv, AgainOK
    <2>2. \A d \in Repeats : again'[d].pc = "credit" => again'[d].i \in DOMAIN again'[d].lims
      BY <1>3, <1>4 DEF LimitInv, AgainOK
    <2> QED BY <1>1, <2>1, <2>2 DEF AgainOK
  <1>6. CountersOK' BY <1>1 DEF LimitInv, CountersOK, Single, Distinct
  <1>7. \A m : HeldBy(m)' = HeldBy(m) /\ PassedBy(m)' = PassedBy(m) /\ Net(m)' = Net(m) /\ Room(m)' = Room(m)
    BY <1>1 DEF HeldBy, PassedBy, Holds, Passed, Net, Room
  <1> QED BY <1>1, <1>5, <1>6, <1>7 DEF LimitInv, LimiterAssumption, Counted, Bounded

\* A further Close lowers a counter: what it takes from the value it adds to the
\* surplus, and so lets one more pass.
LEMMA Repeated ==
    ASSUME LimitInv, NEW c \in Repeats, CreditAgain(c)
    PROVE  /\ CountersOK' /\ AgainOK' /\ DOMAIN limiters' = DOMAIN limiters
           /\ \A m \in DOMAIN limiters : /\ Net(m)' = Net(m) /\ Net(m) \in Int
                                         /\ Room(m)' \in {Room(m), Room(m) + 1} /\ Room(m) \in Int
           /\ UNCHANGED <<config, loads, made, group, known, conn>>
  <1>1. PICK l, n : l = again[c].lims[again[c].i] /\ n = Len(again[c].lims) OBVIOUS
  <1>2. /\ again[c].pc = "credit" /\ again[c].lims \in Seq(DOMAIN limiters) /\ again[c].i \in Nat
        /\ again[c].i \in DOMAIN again[c].lims
    BY DEF CreditAgain, LimitInv, AgainOK
  <1>3. l \in DOMAIN limiters /\ n \in Nat /\ DOMAIN again[c].lims = 1..n
    BY <1>1, <1>2, LenProperties, ElementOfSeq
  <1>4. limiters' = [limiters EXCEPT ![l].current = @ - 1, ![l].surplus = @ + 1]
    BY <1>1 DEF CreditAgain
  <1>5. PICK r : r = [limiters[l] EXCEPT !.current = @ - 1, !.surplus = @ + 1] OBVIOUS
  <1>6. limiters[l] \in Limits BY <1>3 DEF LimitInv, CountersOK
  <1>7. /\ r \in Limits /\ r.limit = limiters[l].limit
        /\ r.current = limiters[l].current - 1 /\ r.surplus = limiters[l].surplus + 1
    <2>1. PICK a, b, d : a = limiters[l].limit /\ b = limiters[l].current /\ d = limiters[l].surplus
      OBVIOUS
    <2>2. limiters[l] = [limit |-> a, current |-> b, surplus |-> d] /\ a \in Nat /\ b \in Int /\ d \in Nat
      BY <1>6, <2>1 DEF Limits
    <2>3. r = [[limiters[l] EXCEPT !.current = b - 1] EXCEPT !.surplus = d + 1] BY <1>5, <2>1, <2>2
    <2>4. [limiters[l] EXCEPT !.current = b - 1] = [limit |-> a, current |-> b - 1, surplus |-> d] BY <2>2
    <2>5. r = [limit |-> a, current |-> b - 1, surplus |-> d + 1] BY <2>3, <2>4
    <2> QED BY <2>1, <2>2, <2>5 DEF Limits
  <1>8. limiters' = [limiters EXCEPT ![l] = r] BY <1>4, <1>5
  <1>9. /\ limiters' \in [DOMAIN limiters -> Limits] /\ DOMAIN limiters' = DOMAIN limiters
        /\ \A m \in DOMAIN limiters : limiters'[m] = IF m = l THEN r ELSE limiters[m]
    BY <1>7, <1>8 DEF LimitInv, CountersOK
  <1>10. UNCHANGED <<config, loads, made, group, known, conn>> BY DEF CreditAgain
  <1>11. CountersOK' BY <1>9, <1>10 DEF LimitInv, CountersOK, Single, Distinct
  <1>12. AgainOK'
    <2>1. PICK p, j : /\ again' = [again EXCEPT ![c].pc = p, ![c].i = j]
                      /\ p \in {"credit", "gone"} /\ j \in Nat /\ (p = "credit" => j \in DOMAIN again[c].lims)
      <3>1. PICK more \in BOOLEAN : more = (again[c].i < n /\ limiters[l].current - 1 <= limiters[l].limit)
        OBVIOUS
      <3>2. PICK p, j : p = (IF more THEN "credit" ELSE "gone") /\ j = (IF more THEN again[c].i + 1 ELSE 0)
        OBVIOUS
      <3>3. again' = [again EXCEPT ![c].pc = p, ![c].i = j]
        BY <1>1, <3>1, <3>2 DEF CreditAgain
      <3>4. p \in {"credit", "gone"} /\ j \in Nat /\ (p = "credit" => j \in DOMAIN again[c].lims)
        <4>1. CASE more
          <5>1. again[c].i < n /\ again[c].i \in 1..n BY <1>2, <1>3, <3>1, <4>1
          <5>2. again[c].i + 1 \in 1..n /\ p = "credit" /\ j = again[c].i + 1 BY <1>3, <3>2, <4>1, <5>1
          <5> QED BY <1>3, <5>2
        <4>2. CASE ~more BY <3>2, <4>2
        <4> QED BY <4>1, <4>2
      <3> QED BY <3>3, <3>4
    <2>2. PICK q : q = [again[c] EXCEPT !.pc = p, !.i = j] OBVIOUS
    <2>3. again' = [again EXCEPT ![c] = q] BY <2>1, <2>2 DEF LimitInv, AgainOK
    <2>4. /\ q \in [pc : Labels, lims : Seq(DOMAIN limiters), i : Nat]
          /\ q.pc = "credit" => q.i \in DOMAIN q.lims
      BY <2>1, <2>2 DEF LimitInv, AgainOK, Labels
    <2> QED BY <1>9, <2>3, <2>4 DEF LimitInv, AgainOK
  <1>13. \A m \in DOMAIN limiters : m # l => Net(m)' = Net(m) /\ Room(m)' = Room(m)
    BY <1>9 DEF Net, Room
  <1>14. Net(l)' = Net(l) /\ Room(l)' = Room(l) + 1
    <2>1. limiters'[l] = r BY <1>3, <1>9
    <2>2. limiters[l].limit \in Nat /\ limiters[l].current \in Int /\ limiters[l].surplus \in Nat
      BY <1>6 DEF Limits
    <2> QED BY <1>7, <2>1, <2>2 DEF Net, Room
  <1>15. \A m \in DOMAIN limiters : Net(m) \in Int /\ Room(m) \in Int
    BY DEF LimitInv, CountersOK, Limits, Net, Room
  <1> QED BY <1>9, <1>10, <1>11, <1>12, <1>13, <1>14, <1>15

LEMMA CreditAgainStep ==
    ASSUME LimitInv, NEW c \in Repeats, CreditAgain(c)
    PROVE  LimitInv'
  <1>1. /\ CountersOK' /\ AgainOK' /\ DOMAIN limiters' = DOMAIN limiters
        /\ \A m \in DOMAIN limiters : /\ Net(m)' = Net(m) /\ Net(m) \in Int
                                      /\ Room(m)' \in {Room(m), Room(m) + 1} /\ Room(m) \in Int
        /\ UNCHANGED conn
    BY Repeated
  <1>2. \A m : HeldBy(m)' = HeldBy(m) /\ PassedBy(m)' = PassedBy(m)
    BY <1>1 DEF HeldBy, PassedBy, Holds, Passed
  <1>3. ASSUME NEW m \in DOMAIN limiters
        PROVE  Cardinality(HeldBy(m)') <= Net(m)' /\ Cardinality(PassedBy(m)') <= Room(m)'
    BY <1>1, <1>2, Sizes
  <1> QED BY <1>1, <1>3, CountKept

-----------------------------------------------------------------------------
LEMMA LimitInvStep == LimitInv /\ [LimitNext]_limitVars => LimitInv'
  <1> SUFFICES ASSUME LimitInv, [LimitNext]_limitVars PROVE LimitInv'
    OBVIOUS
  <1>1. CASE reload BY <1>1, ReloadStep
  <1>2. CASE \E h \in Clients : Limiter(h) BY <1>2, LimiterStep
  <1>3. CASE \E x \in Arrivals : Accept(x) BY <1>3, AcceptStep
  <1>4. CASE \E x \in Arrivals : Charge(x) BY <1>4, ChargeStep
  <1>5. CASE \E x \in Arrivals : TakeBack(x) BY <1>5, TakeBackStep
  <1>6. CASE \E x \in Arrivals : CloseConn(x) BY <1>6, CloseConnStep
  <1>7. CASE \E x \in Arrivals : Credit(x) BY <1>7, CreditStep
  <1>9. CASE \E c \in Repeats, x \in Arrivals : CloseAgain(c, x) BY <1>9, CloseAgainStep
  <1>10. CASE \E c \in Repeats : CreditAgain(c) BY <1>10, CreditAgainStep
  <1>8. CASE UNCHANGED limitVars
    <2>1. UNCHANGED <<config, loads, limiters, made, group, known, conn, again>> BY <1>8 DEF limitVars
    <2>2. CountersOK' BY <2>1 DEF LimitInv, CountersOK, Single, Distinct
    <2>3. \A l \in DOMAIN limiters : HeldBy(l)' = HeldBy(l) /\ PassedBy(l)' = PassedBy(l)
      BY <2>1 DEF HeldBy, PassedBy, Holds, Passed
    <2>4. Counted' /\ Bounded' BY <2>1, <2>3 DEF LimitInv, Counted, Bounded, Net, Room
    <2>5. AgainOK' BY <2>1, AgainKept
    <2> QED BY <2>2, <2>4, <2>5 DEF LimitInv, LimiterAssumption
  <1> QED BY <1>1, <1>2, <1>3, <1>4, <1>5, <1>6, <1>7, <1>8, <1>9, <1>10 DEF LimitNext

\* However accepts, refusals, closes and reloads interleave between the steps
\* from one counter of a group to the next, no counter of a connection limiter
\* has more open connections than its limit, and one more for every time it was
\* lowered for a connection that had been closed before.
THEOREM LimitsHold == LimiterAssumption /\ LimitSpec => []LimitHeld
  <1>1. LimiterAssumption /\ LimitInit => LimitInv BY LimitInitInv
  <1>2. LimitInv /\ [LimitNext]_limitVars => LimitInv' BY LimitInvStep
  <1>3. LimitInv => LimitHeld
    <2> SUFFICES ASSUME LimitInv, NEW l \in DOMAIN limiters
                 PROVE  Cardinality(Charged(l)) <= Room(l)
      BY DEF LimitHeld, Room
    <2>1. Charged(l) \subseteq PassedBy(l) BY DEF Charged, PassedBy, Passed
    <2> QED BY <2>1, Sizes
  <1> QED BY <1>1, <1>2, <1>3, PTL DEF LimitSpec

-----------------------------------------------------------------------------
(***************************************************************************)
(* The first counter of a group is exact.  A counter that no connection    *)
(* has behind another one is raised once and lowered once for each; the    *)
(* loop over a group can end early only between its first and its second.  *)
(***************************************************************************)
OnlyFirst(l) == \A x \in Arrivals : \A k \in DOMAIN conn[x].lims : conn[x].lims[k] = l => k = 1
Exact == \A l \in DOMAIN limiters : OnlyFirst(l) => Net(l) = Cardinality(HeldBy(l))

\* A counter tells which load made it.
OfLoad(l, n) == \E w \in Clients \cup {All}, m \in Nat : l = <<n, w, m>>

\* The cache has counters of the present load, and so has every connection that
\* was accepted since; it took them from the cache.
Present ==
    /\ known \subseteq Clients
    /\ \A h \in Clients : h \notin known => group[h] = <<>>
    /\ \A h \in Clients : \A k \in DOMAIN group[h] : OfLoad(group[h][k], loads)
    /\ \A x \in Arrivals : conn[x].pc = "new" => conn[x].lims = <<>>
    /\ \A x \in Arrivals : \A k \in DOMAIN conn[x].lims : \E n \in 0..loads : OfLoad(conn[x].lims[k], n)
    /\ \A x \in Arrivals : \A k \in DOMAIN conn[x].lims :
          OfLoad(conn[x].lims[k], loads) => HostOf[x] \in known /\ conn[x].lims = group[HostOf[x]]

LEMMA HeldFinite ==
    ASSUME LimitInv, NEW l
    PROVE  IsFiniteSet(HeldBy(l)) /\ Cardinality(HeldBy(l)) \in Nat
  BY FS_Subset, FS_CardinalityType, HeldBy(l) \in SUBSET Arrivals DEF HeldBy, LimitInv, LimiterAssumption

LEMMA SameHeld ==
    ASSUME NEW x, NEW m, \A y \in Arrivals : y # x => conn'[y] = conn[y], Holds(x, m)' <=> Holds(x, m)
    PROVE  HeldBy(m)' = HeldBy(m)
  BY Others DEF HeldBy

\* A connection keeps its counters, once it has them.
LEMMA SameLims ==
    ASSUME NEW m, \A y \in Arrivals : conn'[y].lims = conn[y].lims
    PROVE  OnlyFirst(m)' <=> OnlyFirst(m)
  BY DEF OnlyFirst

LEMMA ExactStep == ASSUME LimitInv, Present, Exact, LimitInv', LimitNext PROVE Exact'
  <1>1. ASSUME UNCHANGED conn, \A l \in DOMAIN limiters : l \in DOMAIN limiters' /\ limiters'[l] = limiters[l],
               \A l \in DOMAIN limiters' \ DOMAIN limiters : limiters'[l].current = 0 /\ limiters'[l].surplus = 0
        PROVE  Exact'
    <2> SUFFICES ASSUME NEW l \in DOMAIN limiters', OnlyFirst(l)
                 PROVE  Net(l)' = Cardinality(HeldBy(l)')
      BY <1>1 DEF Exact, OnlyFirst
    <2>1. HeldBy(l)' = HeldBy(l)
      BY <1>1 DEF HeldBy, Holds
    <2>2. CASE l \in DOMAIN limiters
      BY <1>1, <2>1, <2>2 DEF Exact, Net
    <2>3. CASE l \notin DOMAIN limiters
      <3>1. HeldBy(l) = {}
        BY <2>3 DEF LimitInv, CountersOK, HeldBy, Holds
      <3> QED BY <1>1, <2>1, <2>3, <3>1, Nobody DEF Net
    <2> QED BY <2>2, <2>3
  <1>2. CASE reload
    <2>1. PICK c \in Configs : Adding(Singles(c, loads + 1))
      BY <1>2 DEF reload
    <2>2. \A l \in DOMAIN Singles(c, loads + 1) : /\ Singles(c, loads + 1)[l].current = 0
                                                  /\ Singles(c, loads + 1)[l].surplus = 0
      BY DEF Singles
    <2> QED BY <1>1, <1>2, <2>1, <2>2 DEF reload, Adding
  <1>3. ASSUME NEW h \in Clients, Limiter(h) PROVE Exact'
    <2> DEFINE counters == [l \in {Fresh(h)} |-> [limit |-> OwnLimit(h), current |-> 0, surplus |-> 0]]
    <2>1. Adding(counters) \/ limiters' = limiters
      BY <1>3 DEF Limiter
    <2>2. \A l \in DOMAIN counters : counters[l].current = 0 /\ counters[l].surplus = 0
      OBVIOUS
    <2> HIDE DEF counters
    <2> QED BY <1>1, <1>3, <2>1, <2>2 DEF Limiter, Adding
  <1>4. ASSUME NEW x \in Arrivals, Accept(x) PROVE Exact'
    <2>1. /\ limiters' = limiters /\ conn[x].pc = "new" /\ conn[x].lims = <<>>
          /\ \A y \in Arrivals : y # x => conn'[y] = conn[y]
      BY <1>4 DEF Accept, Present, LimitInv, CountersOK
    <2>2. PICK g : /\ g = group[HostOf[x]] /\ g \in Seq(DOMAIN limiters)
                   /\ conn'[x] = [pc |-> IF g = <<>> THEN "open" ELSE "charge", lims |-> g, i |-> 1]
      BY <1>4 DEF Accept, LimitInv, CountersOK, LimiterAssumption
    <2>3. \A m : OnlyFirst(m)' => OnlyFirst(m)
      BY <2>1 DEF OnlyFirst
    <2>4. \A m : ~Holds(x, m) /\ ~Holds(x, m)'
      <3>1. \A k \in DOMAIN g : k \in Nat /\ k >= 1
        BY <2>2, LenProperties
      <3> QED BY <2>1, <2>2, <3>1 DEF Holds
    <2>5. \A m : HeldBy(m)' = HeldBy(m)
      BY <2>1, <2>4, SameHeld
    <2>6. \A m : Net(m)' = Net(m)
      BY <2>1 DEF Net
    <2> QED BY <2>1, <2>3, <2>5, <2>6 DEF Exact
  <1>5. ASSUME NEW x \in Arrivals, NEW l, l = Counter(x), NEW i, i = conn[x].i, NEW p, NEW j \in Nat, NEW n,
               \/ Charge(x) /\ n = 1 /\ p \in {"back", "charge", "open"}
               \/ TakeBack(x) /\ n = -1 /\ p \in {"back", "refused"}
               \/ Credit(x) /\ n = -1 /\ p \in {"credit", "gone"},
               Move(x, p, j), Bump(l, n),
               Charge(x) => (p = "charge" => j > i) /\ (p = "back" => j = i),
               TakeBack(x) => (p = "back" => j = i - 1 /\ j >= 1) /\ (p = "refused" => i = 1),
               Credit(x) => (p = "credit" => j > i)
        PROVE  Exact'
    <2>0. /\ Charge(x) => /\ conn[x].pc = "charge" /\ n = 1 /\ p \in {"back", "charge", "open"}
                          /\ (p = "charge" => j > i) /\ (p = "back" => j = i)
          /\ TakeBack(x) => /\ conn[x].pc = "back" /\ n = -1 /\ p \in {"back", "refused"}
                            /\ (p = "back" => j = i - 1 /\ j >= 1) /\ (p = "refused" => i = 1)
          /\ Credit(x) => /\ conn[x].pc = "credit" /\ n = -1 /\ p \in {"credit", "gone"}
                          /\ (p = "credit" => j > i)
      BY <1>5 DEF Charge, TakeBack, Credit
    <2>1. /\ i \in DOMAIN conn[x].lims /\ i \in Nat /\ i >= 1 /\ l = conn[x].lims[i] /\ l \in DOMAIN limiters
          /\ \A k \in DOMAIN conn[x].lims : k \in Nat /\ k >= 1
          /\ \A k \in DOMAIN conn[x].lims : conn[x].lims[k] = l => k = i
      <3>1. conn[x].pc \in {"charge", "back", "credit"}
        BY <1>5 DEF Charge, TakeBack, Credit
      <3>2. conn[x].lims \in Seq(DOMAIN limiters) /\ i \in DOMAIN conn[x].lims
        BY <1>5, <3>1 DEF LimitInv, CountersOK
      <3>3. \A k \in DOMAIN conn[x].lims : k \in Nat /\ k >= 1 /\ conn[x].lims[k] \in DOMAIN limiters
        BY <3>2, LenProperties, ElementOfSeq
      <3> QED BY <1>5, <3>2, <3>3 DEF Counter, LimitInv, CountersOK, Distinct
    <2>2. /\ conn'[x] = [conn[x] EXCEPT !.pc = p, !.i = j] /\ \A y \in Arrivals : y # x => conn'[y] = conn[y]
          /\ conn'[x].lims = conn[x].lims /\ conn'[x].pc = p /\ conn'[x].i = j
      BY <1>5 DEF Move, LimitInv, CountersOK
    <2>3. /\ DOMAIN limiters' = DOMAIN limiters /\ Net(l)' = Net(l) + n /\ Net(l) \in Int
          /\ \A m \in DOMAIN limiters : m # l => Net(m)' = Net(m)
      <3>1. limiters[l] \in Limits BY <2>1 DEF LimitInv, CountersOK
      <3>2. limiters' = [limiters EXCEPT ![l].current = @ + n] BY <1>5 DEF Bump
      <3>3. /\ DOMAIN limiters' = DOMAIN limiters
            /\ limiters'[l].current = limiters[l].current + n /\ limiters'[l].surplus = limiters[l].surplus
            /\ \A m \in DOMAIN limiters : m # l => limiters'[m] = limiters[m]
        BY <2>1, <3>1, <3>2 DEF LimitInv, CountersOK, Limits
      <3>4. n \in Int BY <2>0, <1>5
      <3>5. limiters[l].current \in Int /\ limiters[l].surplus \in Int BY <3>1 DEF Limits
      <3>6. Net(l)' = Net(l) + n /\ Net(l) \in Int BY <3>3, <3>4, <3>5 DEF Net
      <3> QED BY <3>3, <3>6 DEF Net
    <2>4. \A y \in Arrivals : conn'[y].lims = conn[y].lims
      BY <2>2
    <2>5. ASSUME NEW m \in DOMAIN limiters, m # l, OnlyFirst(m)
          PROVE  Holds(x, m)' <=> Holds(x, m)
      <3>1. \A k \in DOMAIN conn[x].lims : conn[x].lims[k] = m => k = 1 /\ i > 1
        BY <2>1, <2>5 DEF OnlyFirst
      <3>2. CASE Charge(x)
        BY <1>5, <2>0, <2>1, <2>2, <3>1, <3>2 DEF Holds
      <3>3. CASE TakeBack(x)
        BY <1>5, <2>0, <2>1, <2>2, <3>1, <3>3 DEF Holds
      <3>4. CASE Credit(x)
        BY <1>5, <2>0, <2>1, <2>2, <3>1, <3>4 DEF Holds
      <3> QED BY <1>5, <3>2, <3>3, <3>4
    <2>6. ASSUME OnlyFirst(l)
          PROVE  Net(l)' = Cardinality(HeldBy(l)')
      <3>1. i = 1
        BY <2>1, <2>6 DEF OnlyFirst
      <3>2. Net(l) = Cardinality(HeldBy(l)) /\ IsFiniteSet(HeldBy(l))
        BY <2>1, <2>6, HeldFinite DEF Exact
      <3>3. CASE Charge(x)
        <4>1. ~Holds(x, l) /\ Holds(x, l)'
          BY <1>5, <2>0, <2>1, <2>2, <3>1, <3>3 DEF Holds
        <4>2. HeldBy(l)' = HeldBy(l) \cup {x} /\ x \notin HeldBy(l)
          BY <2>2, <4>1, Others DEF HeldBy
        <4>3. Cardinality(HeldBy(l) \cup {x}) = Cardinality(HeldBy(l)) + 1
          BY <3>2, <4>2, FS_AddElement
        <4>4. n = 1
          BY <2>0, <3>3
        <4> QED BY <2>3, <3>2, <4>2, <4>3, <4>4
      <3>4. CASE TakeBack(x) \/ Credit(x)
        <4>1. Holds(x, l) /\ ~Holds(x, l)'
          <5>1. CASE TakeBack(x)
            BY <1>5, <2>0, <2>1, <2>2, <3>1, <5>1 DEF Holds
          <5>2. CASE Credit(x)
            BY <1>5, <2>0, <2>1, <2>2, <3>1, <5>2 DEF Holds
          <5> QED BY <3>4, <5>1, <5>2
        <4>2. HeldBy(l)' = HeldBy(l) \ {x} /\ x \in HeldBy(l)
          BY <2>2, <4>1, Others DEF HeldBy
        <4>3. Cardinality(HeldBy(l) \ {x}) = Cardinality(HeldBy(l)) - 1
          BY <3>2, <4>2, FS_RemoveElement
        <4>4. n = -1
          BY <2>0, <3>4
        <4>5. Cardinality(HeldBy(l)) \in Nat
          BY HeldFinite
        <4> QED BY <2>3, <3>2, <4>2, <4>3, <4>4, <4>5
      <3> QED BY <1>5, <3>3, <3>4
    <2>7. ASSUME NEW m \in DOMAIN limiters, m # l, OnlyFirst(m)
          PROVE  Net(m)' = Cardinality(HeldBy(m)')
      <3>1. HeldBy(m)' = HeldBy(m)
        BY <2>2, <2>5, <2>7, SameHeld
      <3> QED BY <2>3, <2>7, <3>1 DEF Exact
    <2> QED BY <2>3, <2>4, <2>6, <2>7, SameLims DEF Exact
  <1>6. ASSUME NEW x \in Arrivals, conn[x].pc \in {"charge", "back", "credit"}
        PROVE  conn[x].i \in Nat /\ Len(conn[x].lims) \in Nat /\ 1 <= conn[x].i /\ conn[x].i <= Len(conn[x].lims)
    <2>1. /\ conn[x].lims \in Seq(DOMAIN limiters) /\ conn[x].i \in Nat
          /\ conn[x].i \in 1..Len(conn[x].lims)
      BY <1>6 DEF LimitInv, CountersOK
    <2>2. PICK m \in Seq(DOMAIN limiters) : m = conn[x].lims
      BY <2>1
    <2>3. Len(m) \in Nat
      BY LenProperties
    <2> QED BY <2>1, <2>2, <2>3
  <1>7. ASSUME NEW x \in Arrivals, Charge(x) PROVE Exact'
    <2>1. PICK l, i, p, j :
              /\ l = Counter(x) /\ i = conn[x].i
              /\ p = (IF limiters[Counter(x)].current + 1 > limiters[Counter(x)].limit THEN "back"
                      ELSE IF conn[x].i < Len(conn[x].lims) THEN "charge" ELSE "open")
              /\ j = (IF p = "back" THEN i ELSE IF p = "charge" THEN i + 1 ELSE 1)
      OBVIOUS
    <2>2. Move(x, p, j) /\ Bump(l, 1) /\ i \in Nat /\ j \in Nat
      BY <1>6, <1>7, <2>1 DEF Charge
    <2> QED BY <1>5, <1>7, <2>1, <2>2 DEF Charge, TakeBack, Credit
  <1>8. ASSUME NEW x \in Arrivals, TakeBack(x) PROVE Exact'
    <2>1. PICK l, i, p, j : /\ l = Counter(x) /\ i = conn[x].i
                            /\ p = (IF i > 1 THEN "back" ELSE "refused")
                            /\ j = (IF i > 1 THEN i - 1 ELSE 0)
      OBVIOUS
    <2>2. Move(x, p, j) /\ Bump(l, -1) /\ i \in Nat /\ i >= 1 /\ j \in Nat
      BY <1>6, <1>8, <2>1 DEF TakeBack
    <2> QED BY <1>5, <1>8, <2>1, <2>2 DEF Charge, TakeBack, Credit
  <1>9. ASSUME NEW x \in Arrivals, Credit(x) PROVE Exact'
    <2>1. PICK l, i, p, j :
              /\ l = Counter(x) /\ i = conn[x].i
              /\ p = (IF conn[x].i < Len(conn[x].lims) /\ limiters[Counter(x)].current - 1 <= limiters[Counter(x)].limit
                      THEN "credit" ELSE "gone")
              /\ j = (IF p = "credit" THEN i + 1 ELSE 0)
      OBVIOUS
    <2>2. Move(x, p, j) /\ Bump(l, -1) /\ i \in Nat /\ j \in Nat
      BY <1>6, <1>9, <2>1 DEF Credit
    <2> QED BY <1>5, <1>9, <2>1, <2>2 DEF Charge, TakeBack, Credit
  <1>10. ASSUME NEW x \in Arrivals, CloseConn(x) PROVE Exact'
    <2>1. /\ limiters' = limiters /\ conn[x].pc = "open" /\ conn[x].lims \in Seq(DOMAIN limiters)
          /\ \A y \in Arrivals : y # x => conn'[y] = conn[y]
      BY <1>10 DEF CloseConn, Move, LimitInv, CountersOK
    <2>2. /\ conn'[x].lims = conn[x].lims
          /\ (conn'[x].pc = "credit" /\ conn'[x].i = 1) \/ conn[x].lims = <<>>
      BY <1>10 DEF CloseConn, Move, LimitInv, CountersOK
    <2>3. \A k \in DOMAIN conn[x].lims : k \in Nat /\ k >= 1
      BY <2>1, LenProperties
    <2>4. \A m : Holds(x, m)' <=> Holds(x, m)
      BY <2>1, <2>2, <2>3 DEF Holds
    <2>5. \A m : HeldBy(m)' = HeldBy(m) /\ (OnlyFirst(m)' <=> OnlyFirst(m))
      BY <2>1, <2>2, <2>4, SameHeld, SameLims
    <2>6. \A m : Net(m)' = Net(m)
      BY <2>1 DEF Net
    <2> QED BY <2>1, <2>5, <2>6 DEF Exact
  <1>11. ASSUME UNCHANGED conn, DOMAIN limiters' = DOMAIN limiters, \A m \in DOMAIN limiters : Net(m)' = Net(m)
         PROVE  Exact'
    <2>1. \A m : HeldBy(m)' = HeldBy(m) /\ (OnlyFirst(m)' <=> OnlyFirst(m))
      BY <1>11 DEF HeldBy, Holds, OnlyFirst
    <2> QED BY <1>11, <2>1 DEF Exact
  <1>12. ASSUME NEW c \in Repeats, CreditAgain(c) PROVE Exact'
    BY <1>11, <1>12, Repeated
  <1>13. ASSUME NEW c \in Repeats, NEW x \in Arrivals, CloseAgain(c, x) PROVE Exact'
    BY <1>11, <1>13 DEF CloseAgain, Net
  <1> QED BY <1>2, <1>3, <1>4, <1>7, <1>8, <1>9, <1>10, <1>12, <1>13 DEF LimitNext

-----------------------------------------------------------------------------
LEMMA InitExact == ASSUME LimiterAssumption, LimitInit PROVE Present /\ Exact
  <1>1. Present
    BY DEF LimitInit, Present, New
  <1>2. \A l \in DOMAIN limiters : HeldBy(l) = {} /\ Net(l) = 0
    BY DEF LimitInit, HeldBy, Holds, New, Singles, Net
  <1> QED BY <1>1, <1>2, Nobody DEF Exact

\* A step that leaves the cache alone, and the counters that a connection has.
LEMMA PresentKept ==
    ASSUME Present, UNCHANGED <<loads, group, known>>,
           \A y \in Arrivals : conn'[y].lims = conn[y].lims /\ (conn'[y].pc = "new" => conn[y].pc = "new")
    PROVE  Present'
  <1>1. \A y \in Arrivals : \A k \in DOMAIN conn[y].lims : \E n \in 0..loads : OfLoad(conn[y].lims[k], n)'
    <2>1. \A y \in Arrivals : \A k \in DOMAIN conn[y].lims : \E n \in 0..loads : OfLoad(conn[y].lims[k], n)
      BY DEF Present
    <2>2. \A y \in Arrivals : \A k, n : OfLoad(conn[y].lims[k], n)' <=> OfLoad(conn[y].lims[k], n)
      BY DEF OfLoad
    <2> QED BY <2>1, <2>2
  <1>2. \A h \in Clients : \A k \in DOMAIN group[h] : OfLoad(group[h][k], loads)'
    BY DEF Present, OfLoad
  <1>3. \A y \in Arrivals : \A k \in DOMAIN conn[y].lims :
           OfLoad(conn[y].lims[k], loads)' => HostOf[y] \in known' /\ conn'[y].lims = group'[HostOf[y]]
    BY DEF Present, OfLoad
  <1>4. \A x \in Arrivals : conn'[x].pc = "new" => conn'[x].lims = <<>>
    BY DEF Present
  <1> QED BY <1>1, <1>2, <1>3, <1>4 DEF Present

LEMMA PresentStep == ASSUME LimitInv, Present, LimitNext PROVE Present'
  <1>1. CASE reload
    <2>1. /\ loads' = loads + 1 /\ loads \in Nat /\ known' = {} /\ conn' = conn
          /\ group' = [h \in Clients |-> <<>>]
      BY <1>1 DEF reload, LimitInv, CountersOK
    <2>2. \A x \in Arrivals : \A k \in DOMAIN conn[x].lims :
             /\ \E n \in 0..(loads + 1) : OfLoad(conn[x].lims[k], n)
             /\ ~OfLoad(conn[x].lims[k], loads + 1)
      <3>1. \A m, n, j : OfLoad(m, n) /\ OfLoad(m, j) => n = j
        BY DEF OfLoad
      <3>2. 0..loads \subseteq 0..(loads + 1) /\ loads + 1 \notin 0..loads
        BY <2>1
      <3> QED BY <3>1, <3>2 DEF Present
    <2> QED BY <2>1, <2>2 DEF Present, OfLoad
  <1>2. ASSUME NEW h \in Clients, Limiter(h) PROVE Present'
    <2> DEFINE n == OwnLimit(h)
               mine == IF n > 0 THEN <<Fresh(h)>> ELSE IF config.own[h] > 0 THEN <<Single(h)>> ELSE <<>>
               lims == IF config.global > 0 THEN Append(mine, Single(All)) ELSE mine
               l == IF n > 0 THEN Fresh(h) ELSE Single(h)
    <2>1. /\ group' = [group EXCEPT ![h] = newLimiterGroup(lims, limiters')]
          /\ h \notin known /\ known' = known \cup {h} /\ loads' = loads /\ conn' = conn
      BY <1>2 DEF Limiter
    <2>2. \A m \in {l, Single(All)} : OfLoad(m, loads)
      BY DEF OfLoad, Fresh, Single, LimitInv, CountersOK
    <2>3. l # Single(All)
      BY DEF Fresh, Single, LimitInv, LimiterAssumption, CountersOK
    <2>4. mine \in {<<>>, <<l>>} /\ lims \in {mine, Append(mine, Single(All))}
      OBVIOUS
    <2> HIDE DEF n, mine, lims, l
    <2>5. newLimiterGroup(lims, limiters') \in Seq({l, Single(All)})
      BY <2>3, <2>4, Grouped
    <2>6. \A k \in DOMAIN newLimiterGroup(lims, limiters') : OfLoad(newLimiterGroup(lims, limiters')[k], loads)
      BY <2>2, <2>5, ElementOfSeq, LenProperties
    <2>7. group \in [Clients -> Seq(DOMAIN limiters)]
      BY DEF LimitInv, CountersOK
    <2>8. /\ group'[h] = newLimiterGroup(lims, limiters')
          /\ \A k \in Clients : k # h => group'[k] = group[k]
      BY <2>1, <2>7
    <2>9. \A x \in Arrivals : \A k \in DOMAIN conn[x].lims :
             OfLoad(conn[x].lims[k], loads) => HostOf[x] \in known' /\ conn[x].lims = group'[HostOf[x]]
      BY <2>1, <2>8 DEF Present
    <2>10. /\ known' \subseteq Clients
           /\ \A k \in Clients : k \notin known' => group'[k] = <<>>
      BY <2>1, <2>8 DEF Present
    <2>11. \A k \in Clients : \A j \in DOMAIN group'[k] : OfLoad(group'[k][j], loads)
      BY <2>6, <2>8 DEF Present
    <2>12. \A x \in Arrivals : \A k \in DOMAIN conn'[x].lims :
             \E j \in 0..loads' : OfLoad(conn'[x].lims[k], j)
      BY <2>1 DEF Present
    <2>13. /\ \A x \in Arrivals : \A k \in DOMAIN conn'[x].lims :
                 OfLoad(conn'[x].lims[k], loads') => HostOf[x] \in known' /\ conn'[x].lims = group'[HostOf[x]]
           /\ \A x \in Arrivals : conn'[x].pc = "new" => conn'[x].lims = <<>>
      BY <2>1, <2>9 DEF Present
    <2>14. \A k \in Clients : \A j \in DOMAIN group'[k] : OfLoad(group[k][j], loads)'
      BY <2>1, <2>11 DEF OfLoad
    <2>15. \A x \in Arrivals : \A k \in DOMAIN conn'[x].lims : \E j \in 0..loads' : OfLoad(conn[x].lims[k], j)'
      BY <2>12 DEF OfLoad
    <2>16. \A x \in Arrivals : \A k \in DOMAIN conn'[x].lims :
              OfLoad(conn[x].lims[k], loads)' => HostOf[x] \in known' /\ conn'[x].lims = group'[HostOf[x]]
      BY <2>1, <2>13 DEF OfLoad
    <2> QED BY <2>10, <2>13, <2>14, <2>15, <2>16 DEF Present
  <1>3. ASSUME NEW x \in Arrivals, Accept(x) PROVE Present'
    <2>1. /\ HostOf[x] \in known /\ HostOf[x] \in Clients
          /\ UNCHANGED <<loads, group, known>>
          /\ \A y \in Arrivals : y # x => conn'[y] = conn[y]
          /\ conn'[x].lims = group[HostOf[x]] /\ conn'[x].pc \in {"open", "charge"}
          /\ loads \in Nat
      BY <1>3 DEF Accept, LimitInv, CountersOK, LimiterAssumption
    <2>2. \A k \in DOMAIN group[HostOf[x]] : OfLoad(group[HostOf[x]][k], loads) /\ loads \in 0..loads
      BY <2>1 DEF Present
    <2>3. /\ known' \subseteq Clients
          /\ \A h \in Clients : h \notin known' => group'[h] = <<>>
          /\ \A y \in Arrivals : conn'[y].pc = "new" => conn'[y].lims = <<>>
      BY <2>1 DEF Present
    <2>4. \A h \in Clients : \A k \in DOMAIN group'[h] : OfLoad(group[h][k], loads)'
      BY <2>1 DEF Present, OfLoad
    <2>5. \A y \in Arrivals : \A k \in DOMAIN conn'[y].lims :
             /\ \E n \in 0..loads : OfLoad(conn'[y].lims[k], n)
             /\ OfLoad(conn'[y].lims[k], loads) => HostOf[y] \in known /\ conn'[y].lims = group[HostOf[y]]
      <3> SUFFICES ASSUME NEW y \in Arrivals, NEW k \in DOMAIN conn'[y].lims
                   PROVE  /\ \E n \in 0..loads : OfLoad(conn'[y].lims[k], n)
                          /\ OfLoad(conn'[y].lims[k], loads)
                                => HostOf[y] \in known /\ conn'[y].lims = group[HostOf[y]]
        OBVIOUS
      <3>1. CASE y = x BY <2>1, <2>2, <3>1
      <3>2. CASE y # x BY <2>1, <3>2 DEF Present
      <3> QED BY <3>1, <3>2
    <2>6. /\ \A y \in Arrivals : \A k \in DOMAIN conn'[y].lims : \E n \in 0..loads' : OfLoad(conn[y].lims[k], n)'
          /\ \A y \in Arrivals : \A k \in DOMAIN conn'[y].lims :
                OfLoad(conn[y].lims[k], loads)' => HostOf[y] \in known' /\ conn'[y].lims = group'[HostOf[y]]
      BY <2>1, <2>5 DEF OfLoad
    <2> QED BY <2>3, <2>4, <2>6 DEF Present
  <1>4. ASSUME NEW x \in Arrivals, Charge(x) \/ TakeBack(x) \/ CloseConn(x) \/ Credit(x) PROVE Present'
    <2>1. UNCHANGED <<loads, group, known>>
      BY <1>4 DEF Charge, TakeBack, CloseConn, Credit
    <2>2. ASSUME NEW p, p # "new", NEW j, Move(x, p, j)
          PROVE  \A y \in Arrivals : conn'[y].lims = conn[y].lims /\ (conn'[y].pc = "new" => conn[y].pc = "new")
      BY <2>2 DEF Move, LimitInv, CountersOK
    <2>3. \A y \in Arrivals : conn'[y].lims = conn[y].lims /\ (conn'[y].pc = "new" => conn[y].pc = "new")
      BY <1>4, <2>2 DEF Charge, TakeBack, CloseConn, Credit
    <2> QED BY <2>1, <2>3, PresentKept
  <1>5. ASSUME NEW c \in Repeats, CreditAgain(c) \/ \E x \in Arrivals : CloseAgain(c, x) PROVE Present'
    <2>1. UNCHANGED <<loads, group, known, conn>>
      BY <1>5 DEF CreditAgain, CloseAgain
    <2> QED BY <2>1, PresentKept
  <1> QED BY <1>1, <1>2, <1>3, <1>4, <1>5 DEF LimitNext

\* Where nothing is in progress, a counter is held by its open connections.
LEMMA ExactThen == ASSUME LimitInv, Present, Exact PROVE FirstExact
  <1> SUFFICES ASSUME Settled, NEW h \in known, group[h] # <<>>,
                      \A g \in known : \A k \in 2..Len(group[g]) : group[g][k] # group[h][1]
               PROVE  limiters[group[h][1]].current
                        = Cardinality(Charged(group[h][1])) - limiters[group[h][1]].surplus
    BY DEF FirstExact
  <1>1. PICK l : l = group[h][1]
    OBVIOUS
  <1>2. h \in Clients /\ group[h] \in Seq(DOMAIN limiters)
    BY DEF Present, LimitInv, CountersOK
  <1>3. 1 \in DOMAIN group[h] /\ l \in DOMAIN limiters
    BY <1>1, <1>2, EmptySeq, LenProperties, ElementOfSeq
  <1>4. OfLoad(l, loads)
    BY <1>1, <1>2, <1>3 DEF Present
  <1>5. OnlyFirst(l)
    <2> SUFFICES ASSUME NEW x \in Arrivals, NEW k \in DOMAIN conn[x].lims, conn[x].lims[k] = l
                 PROVE  k = 1
      BY DEF OnlyFirst
    <2>1. HostOf[x] \in known /\ conn[x].lims = group[HostOf[x]]
      BY <1>4 DEF Present
    <2>2. group[HostOf[x]] \in Seq(DOMAIN limiters)
      BY <2>1 DEF Present, LimitInv, CountersOK
    <2>3. k \in 1..Len(group[HostOf[x]]) /\ Len(group[HostOf[x]]) \in Nat /\ group[HostOf[x]][k] = l
      BY <2>1, <2>2, LenProperties
    <2> QED BY <1>1, <2>1, <2>3
  <1>6. HeldBy(l) = Charged(l)
    BY DEF HeldBy, Holds, Charged, Settled
  <1>7. limiters[l].current \in Int /\ limiters[l].surplus \in Int
    BY <1>3 DEF LimitInv, CountersOK, Limits
  <1>8. limiters[l].current + limiters[l].surplus = Cardinality(Charged(l))
    BY <1>3, <1>5, <1>6 DEF Exact, Net
  <1> QED BY <1>1, <1>7, <1>8

\* When no accept, refusal or close is in progress, the counter that comes first
\* in the group of an address counts exactly its open connections, but for the
\* times it was lowered for a connection closed before, unless it is also a later
\* counter of another group: what Allow takes the first Close gives back, over
\* refusals and reloads.
THEOREM FirstIsExact == LimiterAssumption /\ LimitSpec => []FirstExact
  <1>1. LimiterAssumption /\ LimitInit => LimitInv /\ Present /\ Exact
    BY LimitInitInv, InitExact
  <1>2. LimitInv /\ Present /\ Exact /\ [LimitNext]_limitVars => LimitInv' /\ Present' /\ Exact'
    <2> SUFFICES ASSUME LimitInv, Present, Exact, [LimitNext]_limitVars PROVE LimitInv' /\ Present' /\ Exact'
      OBVIOUS
    <2>1. LimitInv'
      BY LimitInvStep
    <2>2. CASE LimitNext
      BY <2>1, <2>2, PresentStep, ExactStep
    <2>3. CASE UNCHANGED limitVars
      <3>1. Present'
        BY <2>3 DEF limitVars, Present, OfLoad
      <3>2. Exact'
        BY <2>3 DEF limitVars, Exact, OnlyFirst, HeldBy, Holds, Net
      <3> QED BY <2>1, <3>1, <3>2
    <2> QED BY <2>2, <2>3
  <1>3. LimitInv /\ Present /\ Exact => FirstExact
    BY ExactThen
  <1> QED BY <1>1, <1>2, <1>3, PTL DEF LimitSpec

-----------------------------------------------------------------------------
(* MuxDialer: the connections that are dialed.                              *)

InUse(c) == call[c].at \in {"opened", "using"} /\ call[c].conn \in live

\* A stream on an open connection belongs to the session of the table.
Streams == \A c \in Callers : InUse(c) => Up(Name) /\ sessions[Name].conn = call[c].conn

\* What was dialed last is in the table.
Newest == \A c \in Callers : At(c, "dialed") /\ call[c].conn = newest /\ newest \in live
             => Has(Name) /\ sessions[Name].conn = newest

IInv == OneKey /\ TypeOK /\ Streams /\ NoOrphan /\ Newest

LEMMA InitInv == OneKey /\ Init => IInv
  BY DEF OneKey, Init, IInv, TypeOK, Streams, NoOrphan, Newest, InUse, At, Idle

USE DEF OneKey, Has, Up, IsClosed, NeedsNew, Recognized, At, Goto, With, Without, Unused, InUse

LEMMA TypeStep == OneKey /\ TypeOK /\ [Next]_vars => TypeOK'
  <1> SUFFICES ASSUME OneKey, TypeOK, [Next]_vars PROVE TypeOK'
    OBVIOUS
  <1>1. ASSUME NEW c \in Callers, Reuse(c) PROVE TypeOK'
    BY <1>1 DEF Reuse, TypeOK
  <1>2. ASSUME NEW c \in Callers, Dial(c) PROVE TypeOK'
    BY <1>2 DEF Dial, TypeOK
  <1>3. ASSUME NEW c \in Callers, DialFails(c) PROVE TypeOK'
    BY <1>3 DEF DialFails, TypeOK
  <1>4. ASSUME NEW c \in Callers, Unrecognized(c) PROVE TypeOK'
    BY <1>4 DEF Unrecognized, TypeOK
  <1>5. ASSUME NEW c \in Callers, Handshake(c) PROVE TypeOK'
    <2>1. call[c].conn \in Conns \union {None} /\ live \subseteq Conns BY DEF TypeOK
    <2>2. CASE call[c].conn \in live /\ sessions' = With(Name, call[c].conn, TRUE)
               /\ Goto(c, "opened", call[c].conn) /\ UNCHANGED live
      BY <2>1, <2>2 DEF TypeOK
    <2>3. CASE live' = live \ {call[c].conn} /\ sessions' = Without(Name) /\ Goto(c, "idle", None)
      BY <2>3 DEF TypeOK
    <2> QED BY <1>5, <2>2, <2>3 DEF Handshake
  <1>6. ASSUME NEW c \in Callers, Greeted(c) \/ Ungreeted(c) \/ Close(c) PROVE TypeOK'
    BY <1>6 DEF Greeted, Ungreeted, Close, TypeOK
  <1>7. ASSUME NEW n \in Conns, Break(n) PROVE TypeOK'
    BY <1>7 DEF Break, TypeOK
  <1>8. ASSUME UNCHANGED vars PROVE TypeOK'
    BY <1>8 DEF vars, TypeOK
  <1> QED BY <1>1, <1>2, <1>3, <1>4, <1>5, <1>6, <1>7, <1>8 DEF Next

\* What the steps have to keep besides the types.
Kept == Streams /\ NoOrphan /\ Newest

LEMMA KeptStep == IInv /\ [Next]_vars => Kept'
  <1> SUFFICES ASSUME IInv, [Next]_vars PROVE Kept'
    OBVIOUS
  <1> USE DEF IInv, TypeOK, Kept
  <1>1. ASSUME NEW c \in Callers, Reuse(c) PROVE Kept'
    BY <1>1 DEF Reuse, Streams, NoOrphan, Newest
  <1>2. ASSUME NEW c \in Callers, Dial(c) PROVE Kept'
    <2>1. Streams' BY <1>2 DEF Dial, Streams
    <2>2. NoOrphan' BY <1>2 DEF Dial, NoOrphan
    <2>3. Newest' BY <1>2 DEF Dial, Newest
    <2> QED BY <2>1, <2>2, <2>3
  <1>3. ASSUME NEW c \in Callers, DialFails(c) PROVE Kept'
    <2>1. Streams' BY <1>3 DEF DialFails, Streams
    <2>2. NoOrphan' BY <1>3 DEF DialFails, NoOrphan
    <2>3. Newest' BY <1>3 DEF DialFails, Newest
    <2> QED BY <2>1, <2>2, <2>3
  <1>4. ASSUME NEW c \in Callers, Unrecognized(c) PROVE Kept'
    BY <1>4 DEF Unrecognized, Streams, NoOrphan, Newest
  <1>5. ASSUME NEW c \in Callers, Handshake(c) PROVE Kept'
    <2>1. Streams' BY <1>5 DEF Handshake, Streams
    <2>2. NoOrphan' BY <1>5 DEF Handshake, NoOrphan
    <2>3. Newest' BY <1>5 DEF Handshake, Newest
    <2> QED BY <2>1, <2>2, <2>3
  <1>6. ASSUME NEW c \in Callers, Greeted(c) \/ Ungreeted(c) \/ Close(c) PROVE Kept'
    BY <1>6 DEF Greeted, Ungreeted, Close, Streams, NoOrphan, Newest
  <1>7. ASSUME NEW n \in Conns, Break(n) PROVE Kept'
    BY <1>7 DEF Break, Streams, NoOrphan, Newest
  <1>8. ASSUME UNCHANGED vars PROVE Kept'
    BY <1>8 DEF vars, Streams, NoOrphan, Newest
  <1> QED BY <1>1, <1>2, <1>3, <1>4, <1>5, <1>6, <1>7, <1>8 DEF Next

LEMMA Inductive == OneKey /\ Spec => []IInv
  <1>1. IInv /\ [Next]_vars => IInv'
    BY TypeStep, KeptStep DEF IInv, Kept
  <1> QED BY InitInv, <1>1, PTL DEF Spec

\* However calls interleave between Dial and Handshake and whatever breaks, no
\* connection is left behind that neither the table nor a call knows.
THEOREM Orphans == OneKey /\ Spec => []NoOrphan
  <1>1. IInv => NoOrphan BY DEF IInv
  <1> QED BY Inductive, <1>1, PTL

\* All streams that work go over one connection to the node.
THEOREM Sessions == OneKey /\ Spec => []OneSession
  <1>1. IInv => OneSession BY DEF IInv, Streams, OneSession
  <1> QED BY Inductive, <1>1, PTL

\* A call that no other has followed to the node is not turned away.
THEOREM Taken == OneKey /\ Spec => []NewestTaken
  <1>1. IInv => NewestTaken BY DEF IInv, Newest, NewestTaken
  <1> QED BY Inductive, <1>1, PTL

\* Only a failed greeting or the network ends the streams of other calls.
THEOREM KeptStreams == OneKey /\ Spec => StreamsKept
  <1> DEFINE A == \A c, d \in Callers : c # d /\ At(c, "dialed") /\ ~UNCHANGED call[c]
          /\ At(d, "using") /\ call[d].conn \in live => call[d].conn \in live'
  <1>1. IInv /\ [Next]_vars => [A]_vars
    <2> SUFFICES ASSUME IInv, Next, NEW c \in Callers, NEW d \in Callers, c # d, At(c, "dialed"),
                        call'[c] # call[c], At(d, "using"), call[d].conn \in live
                 PROVE  call[d].conn \in live'
      OBVIOUS
    <2> USE DEF IInv, TypeOK, Streams
    <2>1. ASSUME NEW e \in Callers, Reuse(e) \/ Dial(e) \/ DialFails(e) PROVE call[d].conn \in live'
      BY <2>1 DEF Reuse, Dial, DialFails
    <2>2. ASSUME NEW e \in Callers, Unrecognized(e) PROVE call[d].conn \in live'
      BY <2>2 DEF Unrecognized
    <2>3. ASSUME NEW e \in Callers, Handshake(e) PROVE call[d].conn \in live'
      BY <2>3 DEF Handshake
    <2>4. ASSUME NEW e \in Callers, Greeted(e) \/ Ungreeted(e) \/ Close(e) PROVE FALSE
      BY <2>4 DEF Greeted, Ungreeted, Close
    <2>5. ASSUME NEW n \in Conns, Break(n) PROVE FALSE
      BY <2>5 DEF Break
    <2> QED BY <2>1, <2>2, <2>3, <2>4, <2>5 DEF Next
  <1> QED BY Inductive, <1>1, PTL DEF Spec, StreamsKept
=============================================================================
