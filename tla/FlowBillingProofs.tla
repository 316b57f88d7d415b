------------------------ MODULE FlowBillingProofs ------------------------
(***************************************************************************)
(* Theorems about FlowBilling, for any number of users, grants, forwards,  *)
(* uploads, resets and requests: what an account is charged, what the      *)
(* ledger shows and what a forward's counters hold, related to what was    *)
(* reported, and that an upload over a limit silences its forward.         *)
(*                                                                         *)
(* The first part is about Total, the sum of a function over a finite set. *)
(***************************************************************************)
EXTENDS FlowBilling, FiniteSetTheorems, WellFoundedInduction, TLAPS

-----------------------------------------------------------------------------
\* What Total computes, spelled out: g gives the sum over every subset of S.
Any(s) == CHOOSE x \in s : TRUE
Unfolds(g, f, S) == g = [s \in SUBSET S |-> IF s = {} THEN 0 ELSE f[Any(s)] + g[s \ {Any(s)}]]

\* Total is a fold, which is a recursive function on the subsets of S.
LEMMA TotalIsFold ==
    ASSUME NEW f, NEW S
    PROVE  Total(f, S) = (CHOOSE g : Unfolds(g, f, S))[S]
  BY DEF Total, MapThenSumSet, MapThenFoldSet, Unfolds, Any

\* A set of naturals that is not empty has a least element.
LEMMA Least ==
    ASSUME NEW T \in SUBSET Nat, T # {}
    PROVE  \E n \in T : \A m \in T : ~(m < n)
  <1>1. IsWellFoundedOn({ss \in Nat \X Nat : ss[1] < ss[2]}, Nat)
    BY NatLessThanWellFounded DEF OpToRel
  <1>2. \E x \in T : \A y \in T : ~ (<<y, x>> \in {ss \in Nat \X Nat : ss[1] < ss[2]})
    BY <1>1, WFMin
  <1> QED BY <1>2

\* Induction on the subsets of a finite set: among those for which a claim
\* fails, one has no proper subset for which it fails.
LEMMA Smallest ==
    ASSUME NEW S, IsFiniteSet(S), NEW Bad \in SUBSET (SUBSET S), Bad # {}
    PROVE  \E s \in Bad : IsFiniteSet(s) /\ \A q \in SUBSET s : q # s => q \notin Bad
  <1> DEFINE T == {Cardinality(s) : s \in Bad}
  <1>1. \A s \in Bad : IsFiniteSet(s) /\ Cardinality(s) \in Nat
    BY FS_Subset, FS_CardinalityType
  <1>2. T \in SUBSET Nat /\ T # {}
    BY <1>1
  <1>3. PICK n \in T : \A m \in T : ~(m < n)
    BY <1>2, Least
  <1>4. PICK s \in Bad : n = Cardinality(s)
    BY <1>3
  <1>5. ASSUME NEW q \in SUBSET s, q # s, q \in Bad PROVE FALSE
    <2>1. Cardinality(q) <= Cardinality(s) /\ (Cardinality(q) = Cardinality(s) => q = s)
      BY <1>1, <1>4, FS_Subset
    <2>2. Cardinality(q) \in T /\ Cardinality(q) \in Nat /\ Cardinality(s) \in Nat
      BY <1>1, <1>5
    <2> QED BY <1>3, <1>4, <1>5, <2>1, <2>2
  <1> QED BY <1>1, <1>4, <1>5

LEMMA AnyIn == ASSUME NEW s, s # {} PROVE Any(s) \in s
  BY DEF Any

\* Two such functions agree wherever both are defined.
LEMMA UnfoldsUnique ==
    ASSUME NEW f, NEW S, NEW R, NEW g, NEW h, IsFiniteSet(S),
           Unfolds(g, f, S), Unfolds(h, f, R), NEW p \in SUBSET (S \cap R)
    PROVE  g[p] = h[p]
  <1> DEFINE Bad == {s \in SUBSET (S \cap R) : g[s] # h[s]}
  <1> SUFFICES ASSUME Bad # {} PROVE FALSE
    OBVIOUS
  <1>1. IsFiniteSet(S \cap R)
    BY FS_Subset, S \cap R \subseteq S
  <1>2. PICK s \in Bad : \A q \in SUBSET s : q # s => q \notin Bad
    <2>1. Bad \in SUBSET (SUBSET (S \cap R))
      OBVIOUS
    <2> HIDE DEF Bad
    <2> QED BY <1>1, <2>1, Smallest
  <1>3. s \in SUBSET S /\ s \in SUBSET R /\ g[s] # h[s]
    BY <1>2
  <1>4. g[s] = IF s = {} THEN 0 ELSE f[Any(s)] + g[s \ {Any(s)}]
    BY <1>3 DEF Unfolds
  <1>5. h[s] = IF s = {} THEN 0 ELSE f[Any(s)] + h[s \ {Any(s)}]
    BY <1>3 DEF Unfolds
  <1>6. CASE s = {}
    BY <1>3, <1>4, <1>5, <1>6
  <1>7. CASE s # {}
    <2>1. Any(s) \in s
      BY <1>7, AnyIn
    <2>2. s \ {Any(s)} \in SUBSET s /\ s \ {Any(s)} # s
      BY <2>1
    <2>3. s \ {Any(s)} \notin Bad
      BY <1>2, <2>2
    <2>4. g[s \ {Any(s)}] = h[s \ {Any(s)}]
      BY <1>3, <2>2, <2>3
    <2> QED BY <1>3, <1>4, <1>5, <1>7, <2>4
  <1> QED BY <1>6, <1>7

\* Total is one of them, wherever there is one.
LEMMA TotalUnfolds ==
    ASSUME NEW f, NEW S, NEW R, NEW g, IsFiniteSet(R), R \subseteq S, Unfolds(g, f, S)
    PROVE  Total(f, R) = g[R]
  <1> DEFINE k == [s \in SUBSET R |-> g[s]]
  <1>1. k = [s \in SUBSET R |-> IF s = {} THEN 0 ELSE f[Any(s)] + k[s \ {Any(s)}]]
    <2>1. ASSUME NEW s \in SUBSET R
          PROVE  g[s] = IF s = {} THEN 0 ELSE f[Any(s)] + k[s \ {Any(s)}]
      <3>1. g[s] = IF s = {} THEN 0 ELSE f[Any(s)] + g[s \ {Any(s)}]
        BY <2>1 DEF Unfolds
      <3>2. k[s \ {Any(s)}] = g[s \ {Any(s)}]
        BY <2>1
      <3> QED BY <3>1, <3>2
    <2> QED BY <2>1
  <1>2. Unfolds(k, f, R)
    BY <1>1 DEF Unfolds
  <1> HIDE DEF k
  <1>3. PICK h : h = (CHOOSE w : Unfolds(w, f, R))
    OBVIOUS
  <1>4. Unfolds(h, f, R)
    BY <1>2, <1>3
  <1>5. R \in SUBSET (R \cap S)
    OBVIOUS
  <1>6. h[R] = g[R]
    BY <1>4, <1>5, UnfoldsUnique
  <1>7. Total(f, R) = h[R]
    BY <1>3, TotalIsFold
  <1> QED BY <1>6, <1>7

\* And for a finite set there is one.
LEMMA UnfoldsExists ==
    ASSUME NEW f, NEW S, IsFiniteSet(S)
    PROVE  \E g : Unfolds(g, f, S)
  <1> DEFINE Bad == {s \in SUBSET S : ~ \E g : Unfolds(g, f, s)}
  <1> SUFFICES ASSUME Bad # {} PROVE FALSE
    OBVIOUS
  <1>1. PICK s \in Bad : IsFiniteSet(s) /\ \A q \in SUBSET s : q # s => q \notin Bad
    <2>1. Bad \in SUBSET (SUBSET S)
      OBVIOUS
    <2> HIDE DEF Bad
    <2> QED BY <2>1, Smallest
  <1> DEFINE g == [q \in SUBSET s |->
                      IF q = {} THEN 0 ELSE f[Any(q)] + Total(f, q \ {Any(q)})]
  <1>2. ASSUME NEW p \in SUBSET s, p # s
        PROVE  Total(f, p) = g[p]
    <2>1. p \in SUBSET S /\ p \notin Bad
      BY <1>1, <1>2
    <2>2. PICK h : Unfolds(h, f, p)
      BY <2>1
    <2>3. IsFiniteSet(p)
      BY <1>1, FS_Subset
    <2>4. Total(f, p) = h[p]
      BY <2>2, <2>3, TotalUnfolds
    <2>5. h[p] = IF p = {} THEN 0 ELSE f[Any(p)] + h[p \ {Any(p)}]
      BY <2>2 DEF Unfolds
    <2>6. Total(f, p \ {Any(p)}) = h[p \ {Any(p)}]
      <3>1. IsFiniteSet(p \ {Any(p)}) /\ p \ {Any(p)} \subseteq p
        BY <2>3, FS_Subset
      <3> QED BY <2>2, <3>1, TotalUnfolds
    <2> QED BY <2>4, <2>5, <2>6
  <1>3. ASSUME NEW q \in SUBSET s, q # {}
        PROVE  Total(f, q \ {Any(q)}) = g[q \ {Any(q)}]
    <2>1. Any(q) \in q
      BY <1>3, AnyIn
    <2>2. q \ {Any(q)} \in SUBSET s /\ q \ {Any(q)} # s
      BY <2>1
    <2> QED BY <1>2, <2>2
  <1>4. g = [q \in SUBSET s |-> IF q = {} THEN 0 ELSE f[Any(q)] + g[q \ {Any(q)}]]
    <2>1. ASSUME NEW q \in SUBSET s
          PROVE  g[q] = IF q = {} THEN 0 ELSE f[Any(q)] + g[q \ {Any(q)}]
      <3>1. g[q] = IF q = {} THEN 0 ELSE f[Any(q)] + Total(f, q \ {Any(q)})
        BY <2>1
      <3> HIDE DEF g
      <3> QED BY <3>1, <1>3
    <2>2. g = [q \in SUBSET s |-> g[q]]
      OBVIOUS
    <2> HIDE DEF g
    <2>3. [q \in SUBSET s |-> g[q]]
              = [q \in SUBSET s |-> IF q = {} THEN 0 ELSE f[Any(q)] + g[q \ {Any(q)}]]
      BY <2>1
    <2> QED BY <2>2, <2>3
  <1>5. Unfolds(g, f, s)
    BY <1>4 DEF Unfolds
  <1> QED BY <1>1, <1>5

\* So Total takes any element first ...
LEMMA TotalEmpty == ASSUME NEW f PROVE Total(f, {}) = 0
  <1>1. IsFiniteSet({})
    BY FS_EmptySet
  <1>2. PICK g : Unfolds(g, f, {})
    BY <1>1, UnfoldsExists
  <1>3. Total(f, {}) = g[{}]
    BY <1>1, <1>2, TotalUnfolds
  <1>4. g[{}] = 0
    BY <1>2 DEF Unfolds
  <1> QED BY <1>3, <1>4

LEMMA TotalAny ==
    ASSUME NEW f, NEW S, IsFiniteSet(S), S # {}
    PROVE  /\ Any(S) \in S
           /\ Total(f, S) = f[Any(S)] + Total(f, S \ {Any(S)})
  <1>1. Any(S) \in S
    BY AnyIn
  <1>2. IsFiniteSet(S \ {Any(S)}) /\ S \ {Any(S)} \subseteq S
    BY FS_Subset
  <1>3. PICK g : Unfolds(g, f, S)
    BY UnfoldsExists
  <1>4. Total(f, S) = g[S]
    BY <1>3, TotalUnfolds
  <1>5. Total(f, S \ {Any(S)}) = g[S \ {Any(S)}]
    BY <1>2, <1>3, TotalUnfolds
  <1>6. g[S] = f[Any(S)] + g[S \ {Any(S)}]
    BY <1>3 DEF Unfolds
  <1> QED BY <1>1, <1>4, <1>5, <1>6

\* ... is a natural number ...
LEMMA TotalType ==
    ASSUME NEW f, NEW S, IsFiniteSet(S), \A x \in S : f[x] \in Nat
    PROVE  Total(f, S) \in Nat
  <1> DEFINE Bad == {s \in SUBSET S : Total(f, s) \notin Nat}
  <1> SUFFICES ASSUME Bad # {} PROVE FALSE
    BY S \in SUBSET S
  <1>1. PICK s \in Bad : IsFiniteSet(s) /\ \A q \in SUBSET s : q # s => q \notin Bad
    <2>1. Bad \in SUBSET (SUBSET S)
      OBVIOUS
    <2> HIDE DEF Bad
    <2> QED BY <2>1, Smallest
  <1>2. CASE s = {}
    BY <1>1, <1>2, TotalEmpty
  <1>3. CASE s # {}
    <2>1. Any(s) \in s /\ Total(f, s) = f[Any(s)] + Total(f, s \ {Any(s)})
      BY <1>1, <1>3, TotalAny
    <2>2. s \ {Any(s)} \in SUBSET S /\ s \ {Any(s)} \in SUBSET s /\ s \ {Any(s)} # s
      BY <2>1
    <2>3. Total(f, s \ {Any(s)}) \in Nat
      BY <1>1, <2>2
    <2>4. f[Any(s)] \in Nat
      BY <2>1
    <2>5. Total(f, s) \in Nat
      BY <2>1, <2>3, <2>4
    <2> QED BY <1>1, <2>5
  <1> QED BY <1>2, <1>3

\* ... and whichever element is taken, the others add up to the rest.
LEMMA TotalRemove ==
    ASSUME NEW f, NEW S, IsFiniteSet(S), \A y \in S : f[y] \in Nat, NEW z \in S
    PROVE  Total(f, S) = f[z] + Total(f, S \ {z})
  <1> DEFINE Bad == {s \in SUBSET S : \E x \in s : Total(f, s) # f[x] + Total(f, s \ {x})}
  <1> SUFFICES ASSUME Bad # {} PROVE FALSE
    BY S \in SUBSET S
  <1>1. PICK s \in Bad : IsFiniteSet(s) /\ \A q \in SUBSET s : q # s => q \notin Bad
    <2>1. Bad \in SUBSET (SUBSET S)
      OBVIOUS
    <2> HIDE DEF Bad
    <2> QED BY <2>1, Smallest
  <1>2. PICK x \in s : Total(f, s) # f[x] + Total(f, s \ {x})
    BY <1>1
  <1>3. PICK a : a = Any(s)
    OBVIOUS
  <1>4. s \in SUBSET S
    BY <1>1
  <1>5. a \in s /\ Total(f, s) = f[a] + Total(f, s \ {a})
    BY <1>1, <1>2, <1>3, TotalAny
  <1>6. a # x
    BY <1>2, <1>5
  <1>7. ASSUME NEW b \in s, NEW c \in s, b # c
        PROVE  Total(f, s \ {b}) = f[c] + Total(f, (s \ {b}) \ {c})
    <2>1. s \ {b} \in SUBSET S /\ s \ {b} \in SUBSET s /\ s \ {b} # s /\ c \in s \ {b}
      BY <1>4, <1>7
    <2>2. s \ {b} \notin Bad
      BY <1>1, <2>1
    <2> QED BY <2>1, <2>2
  <1>8. Total(f, s \ {a}) = f[x] + Total(f, (s \ {a}) \ {x})
    BY <1>5, <1>6, <1>7
  <1>9. Total(f, s \ {x}) = f[a] + Total(f, (s \ {a}) \ {x})
    <2>1. (s \ {a}) \ {x} = (s \ {x}) \ {a}
      OBVIOUS
    <2> QED BY <1>5, <1>6, <1>7, <2>1
  <1>10. f[a] \in Nat /\ f[x] \in Nat
    BY <1>4, <1>5
  <1>11. Total(f, (s \ {a}) \ {x}) \in Nat
    <2>1. IsFiniteSet((s \ {a}) \ {x})
      BY <1>1, FS_Subset, (s \ {a}) \ {x} \subseteq s
    <2>2. \A y \in (s \ {a}) \ {x} : f[y] \in Nat
      BY <1>4
    <2> QED BY <2>1, <2>2, TotalType
  <1> QED BY <1>2, <1>5, <1>8, <1>9, <1>10, <1>11

LEMMA TotalAdd ==
    ASSUME NEW f, NEW S, IsFiniteSet(S), NEW z, z \notin S, \A y \in S \cup {z} : f[y] \in Nat
    PROVE  Total(f, S \cup {z}) = f[z] + Total(f, S)
  <1>1. IsFiniteSet(S \cup {z})
    BY FS_AddElement
  <1>2. (S \cup {z}) \ {z} = S
    OBVIOUS
  <1>3. z \in S \cup {z}
    OBVIOUS
  <1> HIDE <1>2
  <1>4. Total(f, S \cup {z}) = f[z] + Total(f, (S \cup {z}) \ {z})
    BY <1>1, <1>3, TotalRemove
  <1> QED BY <1>2, <1>4

\* Only the values on S count.
LEMMA TotalSame ==
    ASSUME NEW f, NEW g, NEW S, IsFiniteSet(S), \A y \in S : f[y] = g[y]
    PROVE  Total(f, S) = Total(g, S)
  <1> DEFINE Bad == {s \in SUBSET S : Total(f, s) # Total(g, s)}
  <1> SUFFICES ASSUME Bad # {} PROVE FALSE
    BY S \in SUBSET S
  <1>1. PICK s \in Bad : IsFiniteSet(s) /\ \A q \in SUBSET s : q # s => q \notin Bad
    <2>1. Bad \in SUBSET (SUBSET S)
      OBVIOUS
    <2> HIDE DEF Bad
    <2> QED BY <2>1, Smallest
  <1>2. s \in SUBSET S /\ Total(f, s) # Total(g, s)
    BY <1>1
  <1>3. CASE s = {}
    BY <1>2, <1>3, TotalEmpty
  <1>4. CASE s # {}
    <2>1. PICK a : a = Any(s)
      OBVIOUS
    <2>2. a \in s /\ Total(f, s) = f[a] + Total(f, s \ {a})
      BY <1>1, <1>4, <2>1, TotalAny
    <2>3. Total(g, s) = g[a] + Total(g, s \ {a})
      BY <1>1, <1>4, <2>1, TotalAny
    <2>4. s \ {a} \in SUBSET S /\ s \ {a} \in SUBSET s /\ s \ {a} # s
      BY <1>2, <2>2
    <2>5. Total(f, s \ {a}) = Total(g, s \ {a})
      BY <1>1, <2>4
    <2>6. f[a] = g[a]
      BY <1>2, <2>2
    <2> QED BY <1>2, <2>2, <2>3, <2>5, <2>6
  <1> QED BY <1>3, <1>4

LEMMA TotalZero ==
    ASSUME NEW f, NEW S, IsFiniteSet(S), \A y \in S : f[y] = 0
    PROVE  Total(f, S) = 0
  <1> DEFINE Bad == {s \in SUBSET S : Total(f, s) # 0}
  <1> SUFFICES ASSUME Bad # {} PROVE FALSE
    BY S \in SUBSET S
  <1>1. PICK s \in Bad : IsFiniteSet(s) /\ \A q \in SUBSET s : q # s => q \notin Bad
    <2>1. Bad \in SUBSET (SUBSET S)
      OBVIOUS
    <2> HIDE DEF Bad
    <2> QED BY <2>1, Smallest
  <1>2. s \in SUBSET S /\ Total(f, s) # 0
    BY <1>1
  <1>3. s # {}
    BY <1>2, TotalEmpty
  <1>4. PICK a : a = Any(s)
    OBVIOUS
  <1>5. a \in s /\ Total(f, s) = f[a] + Total(f, s \ {a})
    BY <1>1, <1>3, <1>4, TotalAny
  <1>6. s \ {a} \in SUBSET S /\ s \ {a} \in SUBSET s /\ s \ {a} # s
    BY <1>2, <1>5
  <1>7. Total(f, s \ {a}) = 0
    BY <1>1, <1>6
  <1> QED BY <1>2, <1>5, <1>7

\* A value that grows by n makes the sum grow by n.
LEMMA TotalBump ==
    ASSUME NEW f, NEW g, NEW S, IsFiniteSet(S), \A y \in S : f[y] \in Nat,
           NEW z \in S, NEW n \in Nat, g[z] = f[z] + n, \A y \in S \ {z} : g[y] = f[y]
    PROVE  Total(g, S) = Total(f, S) + n
  <1>1. IsFiniteSet(S \ {z})
    BY FS_Subset, S \ {z} \subseteq S
  <1>2. \A y \in S : g[y] \in Nat
    OBVIOUS
  <1>3. Total(f, S \ {z}) = Total(g, S \ {z})
    BY <1>1, TotalSame
  <1>4. Total(f, S) = f[z] + Total(f, S \ {z})
    BY TotalRemove
  <1>5. Total(g, S) = g[z] + Total(g, S \ {z})
    BY <1>2, TotalRemove
  <1>6. Total(f, S \ {z}) \in Nat
    BY <1>1, TotalType
  <1> QED BY <1>3, <1>4, <1>5, <1>6

\* A larger set has at least the sum of a smaller one.
LEMMA TotalMonotone ==
    ASSUME NEW f, NEW S, IsFiniteSet(S), \A y \in S : f[y] \in Nat, NEW R \in SUBSET S
    PROVE  Total(f, R) <= Total(f, S)
  <1> DEFINE Bad == {s \in SUBSET S : R \subseteq s /\ ~(Total(f, R) <= Total(f, s))}
  <1> SUFFICES ASSUME Bad # {} PROVE FALSE
    BY S \in SUBSET S
  <1>1. PICK s \in Bad : IsFiniteSet(s) /\ \A q \in SUBSET s : q # s => q \notin Bad
    <2>1. Bad \in SUBSET (SUBSET S)
      OBVIOUS
    <2> HIDE DEF Bad
    <2> QED BY <2>1, Smallest
  <1>2. s \in SUBSET S /\ R \subseteq s /\ ~(Total(f, R) <= Total(f, s))
    BY <1>1
  <1>3. Total(f, R) \in Nat /\ Total(f, s) \in Nat
    <2>1. IsFiniteSet(R)
      BY FS_Subset
    <2> QED BY <1>1, <1>2, <2>1, TotalType
  <1>4. PICK a \in s \ R : TRUE
    <2>1. s # R
      BY <1>2, <1>3
    <2> QED BY <1>2, <2>1
  <1>5. Total(f, s) = f[a] + Total(f, s \ {a})
    BY <1>1, <1>2, TotalRemove
  <1>6. s \ {a} \in SUBSET S /\ s \ {a} \in SUBSET s /\ s \ {a} # s /\ R \subseteq s \ {a}
    BY <1>2, <1>4
  <1>7. Total(f, R) <= Total(f, s \ {a})
    BY <1>1, <1>6
  <1>8. Total(f, s \ {a}) \in Nat /\ f[a] \in Nat
    <2>1. IsFiniteSet(s \ {a})
      BY <1>1, <1>6, FS_Subset
    <2> QED BY <1>2, <1>6, <2>1, TotalType
  <1> QED BY <1>2, <1>3, <1>5, <1>7, <1>8
-----------------------------------------------------------------------------
\* Where the threads are, beyond the types: a loop that saves works on a
\* forward, the daily job has an account in hand exactly in its pausing loop
\* and when it closes it, what it reads is due, a request is one an owner may
\* make, and only the ends of a forward's tunnel serve it.
Where ==
    /\ \A t \in Threads : pc[t] \in {"saveUser", "saveGrant"} => current[t] # NoForward
    /\ expiring = NoRow
          <=> pc[Daily] \in {"idle", "settleUsers", "settleGrants", "expireUsers", "expireGrants"}
    /\ DOMAIN batch \subseteq Resetting \cup MayExpire
    /\ switch # Idle => <<switch.id, switch.target>> \in Switches
    /\ switch.pc = "out" => OutNode[switch.id] # NoNode
    /\ \A s \in serving : s[1] \in {InNode[s[2]], OutNode[s[2]]}

Typed == TypeOK /\ Where

\* Every copy of a forward's row that a thread may still write back holds no
\* more than was counted for the forward.
Copies ==
    /\ \A f \in Forwards : row[f].flow <= Counted(f)
    /\ \A t \in Threads : \A f \in DOMAIN todo[t] : todo[t][f].flow <= Counted(f)
    /\ switch # Idle => switch.entity.flow <= Counted(switch.id)

\* What the daily job has read of an account is at most what the row holds:
\* only the job makes the counters of a row smaller, and reads again after.
Charges ==
    /\ \A x \in Accounts \ Manual : Charged(x) <= Counted(x)
    /\ \A x \in DOMAIN batch \ Manual : batch[x].flow <= row[x].flow

\* A steady account is charged what was counted, and the ledger shows what was
\* entered, less what could not be.
EnteredFor(x) == {r \in ReportsOf(x) : Entered(r)}
Ledger ==
    \A x \in Steady :
        /\ settled[x] = 0 /\ row[x].flow = Counted(x)
        /\ Entries(x) <= Total(Billed, EnteredFor(x))
        /\ ReportsOf(x) \cap Faulty = {} => Entries(x) = Total(Billed, EnteredFor(x))

\* In the pausing loop of an upload whose commands arrive, its own forward is
\* silent or still to come; when its turn has come, the entry was told first.
Turn(r, f) ==
    /\ f \in DOMAIN todo[r]
    /\ current[r] = f => /\ <<InNode[f], f>> \notin serving
                         /\ pc[r] \in {"saveUser", "saveGrant"} => Silent(f)
Stops ==
    \A r \in Reports \ Faulty :
        InLoop(r) /\ <<ForwardOf[r], 1>> \notin Switches
            => Silent(ForwardOf[r]) \/ Turn(r, ForwardOf[r])

-----------------------------------------------------------------------------
\* Types, one lemma per group of variables.
LEMMA TypedInit == Init => Typed
  <1> SUFFICES ASSUME Init PROVE Typed
    OBVIOUS
  <1> USE BillingAssumption
  <1>1. TablesOK
    <2>1. serving \subseteq Nodes \X Forwards
      BY DEF Init, Nodes
    <2> QED BY <2>1 DEF Init, TablesOK, Row
  <1>2. ThreadsOK
    <2>1. NoForward \notin {} /\ "daily" \notin Reports
      BY DEF Daily
    <2>2. batch = Empty /\ DOMAIN batch = {}
      BY DEF Init, Empty
    <2>3. \A t \in Threads : todo[t] = Empty /\ DOMAIN todo[t] = {} /\ current[t] = NoForward
      BY DEF Init, Empty
    <2>4. pc[Daily] = "idle" /\ \A r \in Reports : pc[r] = "forward"
      BY <2>1 DEF Init, Daily, Threads
    <2>5. \A t \in Threads : ~InLoop(t)
      BY <2>4 DEF InLoop, Threads
    <2> QED BY <2>2, <2>3, <2>4, <2>5 DEF Init, ThreadsOK, ReportLabels, DailyLabels
  <1>3. RequestsOK
    BY DEF Init, RequestsOK
  <1>4. Where
    <2>1. "daily" \notin Reports
      BY DEF Daily
    <2>2. pc[Daily] = "idle" /\ \A r \in Reports : pc[r] = "forward"
      BY <2>1 DEF Init, Daily, Threads
    <2>3. \A s \in serving : s[1] \in {InNode[s[2]], OutNode[s[2]]}
      BY DEF Init
    <2> QED BY <2>2, <2>3 DEF Init, Where, Threads, Empty, Idle
  <1> QED BY <1>1, <1>2, <1>3, <1>4 DEF Typed, TypeOK

LEMMA BumpType ==
    ASSUME NEW S, NEW f \in [S -> Nat], NEW x, NEW n \in Nat
    PROVE  [f EXCEPT ![x] = @ + n] \in [S -> Nat]
  <1> DEFINE g == [f EXCEPT ![x] = @ + n]
  <1>1. \A y \in S : g[y] = IF y = x THEN f[y] + n ELSE f[y]
    OBVIOUS
  <1>2. g = [y \in S |-> g[y]]
    OBVIOUS
  <1> HIDE DEF g
  <1>3. \A y \in S : g[y] \in Nat
    BY <1>1
  <1>4. g \in [S -> Nat]
    BY <1>2, <1>3
  <1> QED BY <1>4 DEF g

LEMMA TablesStep == Typed /\ [Next]_vars => TablesOK'
  <1> SUFFICES ASSUME Typed, [Next]_vars PROVE TablesOK'
    OBVIOUS
  <1> USE BillingAssumption DEF Typed, TypeOK
  <1>1. ASSUME NEW x, NEW n \in Nat, Add(x, n), UNCHANGED <<ledger, settled, serving, expired>>
        PROVE  TablesOK'
    <2>1. row' \in [Rows -> Row]
      <3>1. ASSUME NEW y \in Rows
            PROVE  row'[y] = IF y = x THEN [row[y] EXCEPT !.flow = @ + n] ELSE row[y]
        BY <1>1 DEF TablesOK, Add
      <3>2. ASSUME NEW y \in Rows PROVE row'[y] \in Row
        <4>1. row[y] \in Row
          BY DEF TablesOK
        <4>2. row'[y] \in {row[y], [row[y] EXCEPT !.flow = @ + n]}
          BY <3>1
        <4> QED BY <4>1, <4>2 DEF Row
      <3> QED BY <1>1, <3>2 DEF TablesOK, Add
    <2> QED BY <1>1, <2>1 DEF TablesOK
  <1>2. ASSUME NEW x, NEW e \in Row, SaveEntity(x, e), UNCHANGED <<ledger, settled, serving, expired>>
        PROVE  TablesOK'
    BY <1>2 DEF TablesOK, SaveEntity
  <1>3. ASSUME UNCHANGED <<tables, expired>>, NEW n, NEW f, NEW o, serving' = Paused(n, f, o)
        PROVE  TablesOK'
    BY <1>3 DEF TablesOK, tables, Paused
  <1>4. ASSUME NEW x, NEW e \in Row, SettleAndReset(x, e), UNCHANGED <<ledger, serving, expired>>
        PROVE  TablesOK'
    <2>1. row' \in [Rows -> Row]
      <3>1. ASSUME NEW y \in Rows
            PROVE  row'[y] = IF y = x THEN [row[y] EXCEPT !.flow = 0] ELSE row[y]
        BY <1>4 DEF TablesOK, SettleAndReset
      <3>2. ASSUME NEW y \in Rows PROVE row'[y] \in Row
        <4>1. row[y] \in Row
          BY DEF TablesOK
        <4>2. row'[y] \in {row[y], [row[y] EXCEPT !.flow = 0]}
          BY <3>1
        <4> QED BY <4>1, <4>2 DEF Row
      <3> QED BY <1>4, <3>2 DEF TablesOK, SettleAndReset
    <2>2. settled' \in [Accounts -> Nat]
      <3>1. e.flow \in Nat
        BY DEF Row
      <3>2. PICK n \in Nat : n = e.flow
        BY <3>1
      <3>3. settled' = [settled EXCEPT ![x] = @ + n]
        BY <1>4, <3>2 DEF SettleAndReset
      <3>4. settled \in [Accounts -> Nat]
        BY DEF TablesOK
      <3> QED BY <3>3, <3>4, BumpType
    <2> QED BY <1>4, <2>1, <2>2 DEF TablesOK
  <1>5. ASSUME UNCHANGED <<tables, serving, expired>>
        PROVE  TablesOK'
    BY <1>5 DEF TablesOK, tables
  <1>6. \A r \in Reports : Billed[r] \in Nat /\ ForwardOf[r] \in Forwards
    OBVIOUS
  <1>7. ASSUME NEW r \in Reports, HandleReport(r) PROVE TablesOK'
    <2>1. CASE UpdateForwardFlow(r) \/ UpdateUserFlow(r) \/ UpdateUserTunnelFlow(r)
      BY <2>1, <1>1, <1>6 DEF UpdateForwardFlow, UpdateUserFlow, UpdateUserTunnelFlow
    <2>2. CASE RecordFlowLedger(r)
      BY <2>2, <1>6 DEF RecordFlowLedger, TablesOK
    <2>3. CASE CheckUserRelatedLimits(r) \/ CheckUserTunnelRelatedLimits(r)
      BY <2>3, <1>5 DEF CheckUserRelatedLimits, CheckUserTunnelRelatedLimits
    <2> QED BY <1>7, <2>1, <2>2, <2>3 DEF HandleReport
  <1>8. ASSUME NEW t \in Threads, PauseLoop(t) PROVE TablesOK'
    <2>1. CASE PauseIn(t)
      BY <2>1, <1>3 DEF PauseIn
    <2>2. CASE PauseOut(t)
      BY <2>2, <1>3, <1>5 DEF PauseOut, PauseRemote
    <2>3. CASE SavePaused(t)
      <3>1. todo[t][current[t]] \in Row
        BY <2>3 DEF SavePaused, Where, ThreadsOK
      <3>2. [todo[t][current[t]] EXCEPT !.status = 0] \in Row
        BY <3>1 DEF Row
      <3> QED BY <2>3, <3>2, <1>2 DEF SavePaused
    <2> QED BY <1>8, <2>1, <2>2, <2>3 DEF PauseLoop
  <1>9. ASSUME DailyJob PROVE TablesOK'
    <2>1. CASE ResetFlow \/ ResetUserTunnelFlow \/ ListExpired \/ ExpireUser \/ ExpireUserTunnel
      BY <2>1, <1>5 DEF ResetFlow, ResetUserTunnelFlow, ListExpired, ExpireUser, ExpireUserTunnel
    <2>2. CASE SettleNext
      BY <2>2, <1>4 DEF SettleNext, ThreadsOK
    <2>3. CASE CloseExpired
      <3>1. batch[expiring] \in Row
        BY <2>3 DEF CloseExpired, Where, ThreadsOK
      <3>2. [batch[expiring] EXCEPT !.status = 0] \in Row
        BY <3>1 DEF Row
      <3> QED BY <2>3, <3>2, <1>2 DEF CloseExpired
    <2>4. CASE PauseLoop(Daily)
      BY <2>4, <1>8 DEF Threads
    <2> QED BY <1>9, <2>1, <2>2, <2>3, <2>4 DEF DailyJob
  <1>10. ASSUME NEW m \in Managers, ResetSettle(m) PROVE TablesOK'
    <2>1. manager[m].entity \in Row
      BY <1>10 DEF ResetSettle, RequestsOK, Idle
    <2> QED BY <1>10, <2>1, <1>4 DEF ResetSettle
  <1>11. ASSUME NEW m \in Managers, NEW x \in Manual, ResetRead(m, x) PROVE TablesOK'
    BY <1>11, <1>5 DEF ResetRead
  <1>12. ASSUME NEW s \in Switches, ChangeForwardStatus(s[1], s[2]) PROVE TablesOK'
    BY <1>12, <1>5 DEF ChangeForwardStatus
  <1>13. ASSUME UNCHANGED <<tables, expired>>, NEW n \in Nodes, NEW o, SwitchService(n, o),
                switch.id \in Forwards
         PROVE  TablesOK'
    BY <1>13 DEF TablesOK, tables, SwitchService, Paused, Resumed
  <1>14. CASE SwitchIn
    <2>1. switch.id \in Forwards /\ InNode[switch.id] \in Nodes
      BY <1>14 DEF SwitchIn, RequestsOK, Idle, Nodes
    <2> QED BY <1>14, <2>1, <1>13 DEF SwitchIn
  <1>15. CASE SwitchOut
    <2>1. switch.id \in Forwards /\ OutNode[switch.id] # NoNode
      BY <1>15 DEF SwitchOut, RequestsOK, Idle, Where
    <2>2. OutNode[switch.id] \in Nodes
      BY <2>1 DEF Nodes
    <2> QED BY <1>15, <2>1, <2>2, <1>13 DEF SwitchOut
  <1>16. CASE SwitchSave
    <2>1. switch.entity \in Row /\ switch.target \in {0, 1}
      BY <1>16 DEF SwitchSave, RequestsOK, Idle
    <2>2. [switch.entity EXCEPT !.status = switch.target] \in Row
      BY <2>1 DEF Row
    <2> QED BY <1>16, <2>2, <1>2 DEF SwitchSave
  <1>17. ASSUME NEW x \in MayExpire, Expire(x) PROVE TablesOK'
    BY <1>17 DEF Expire, TablesOK, tables
  <1>18. CASE UNCHANGED vars
    BY <1>18, <1>5 DEF vars
  <1>19. \A r \in Reports : r \in Threads
    BY DEF Threads
  <1> QED BY <1>7, <1>8, <1>9, <1>10, <1>11, <1>12, <1>14, <1>15, <1>16, <1>17, <1>18, <1>19
          DEF Next
\* The threads' part of the types, one thread at a time.
Loop == {"pauseUser", "saveUser", "pauseGrant", "saveGrant"}
ThreadOK(t) ==
    /\ DOMAIN todo[t] \subseteq Forwards /\ \A f \in DOMAIN todo[t] : todo[t][f] \in Row
    /\ pc[t] \in Loop <=> DOMAIN todo[t] # {}
    /\ current[t] # NoForward => current[t] \in DOMAIN todo[t]

EachThread ==
    /\ DOMAIN pc = Threads /\ DOMAIN todo = Threads /\ DOMAIN current = Threads
    /\ \A r \in Reports : pc[r] \in ReportLabels
    /\ pc[Daily] \in DailyLabels
    /\ DOMAIN batch \subseteq Accounts /\ \A x \in DOMAIN batch : batch[x] \in Row
    /\ expiring # NoRow => expiring \in DOMAIN batch
    /\ \A t \in Threads : ThreadOK(t)

LEMMA ThreadsStep == Typed /\ [Next]_vars => ThreadsOK'
  <1> SUFFICES ASSUME Typed, [Next]_vars PROVE ThreadsOK'
    OBVIOUS
  <1> USE BillingAssumption
  <1>1. /\ DOMAIN pc = Threads /\ DOMAIN todo = Threads /\ DOMAIN current = Threads
        /\ \A r \in Reports : pc[r] \in ReportLabels
        /\ pc[Daily] \in DailyLabels
        /\ DOMAIN batch \subseteq Accounts /\ \A x \in DOMAIN batch : batch[x] \in Row
        /\ expiring # NoRow => expiring \in DOMAIN batch
        /\ \A t \in Threads : ThreadOK(t)
    BY DEF Typed, TypeOK, ThreadsOK, ThreadOK, InLoop, Loop
  <1>11. EachThread' => ThreadsOK'
    BY DEF EachThread, ThreadsOK, ThreadOK, InLoop, Loop
  <1>2. Daily \in Threads /\ \A r \in Reports : r # Daily /\ r \in Threads
    BY DEF Threads
  <1>3. row \in [Rows -> Row] /\ Forwards \subseteq Rows /\ Users \subseteq Accounts
        /\ Grants \subseteq Accounts /\ Accounts \subseteq Rows
    BY DEF Typed, TypeOK, TablesOK, Rows, Accounts
  \* A thread that goes on outside its loop.
  <1>4. ASSUME NEW t \in Threads, NEW l, Goto(t, l), UNCHANGED loops, pc[t] \notin Loop, l \notin Loop,
               t # Daily => l \in ReportLabels, t = Daily => l \in DailyLabels,
               DOMAIN batch' \subseteq Accounts, \A x \in DOMAIN batch' : batch'[x] \in Row,
               expiring' # NoRow => expiring' \in DOMAIN batch'
        PROVE  ThreadsOK'
    <2>1. \A u \in Threads : pc'[u] = IF u = t THEN l ELSE pc[u]
      BY <1>1, <1>4 DEF Goto
    <2>2. \A u \in Threads : ThreadOK(u)'
      BY <1>1, <1>4, <2>1 DEF ThreadOK, loops
    <2>3. \A r \in Reports : pc'[r] \in ReportLabels
      BY <1>1, <1>2, <1>4, <2>1
    <2>4. pc'[Daily] \in DailyLabels
      BY <1>1, <1>2, <1>4, <2>1
    <2> QED BY <1>1, <1>4, <2>2, <2>3, <2>4, <1>11 DEF EachThread, Goto, loops
  \* A thread that enters a loop over S.
  <1>5. ASSUME NEW t \in Threads, NEW S \in SUBSET Forwards, NEW in \in {"pauseUser", "pauseGrant"}, NEW next,
               StartLoop(t, S, in, next), UNCHANGED <<batch, current>>, pc[t] \notin Loop,
               expiring' # NoRow => expiring' \in DOMAIN batch,
               t # Daily => next \in {"checkGrant", "done"},
               t = Daily => next \in {"closeUser", "closeGrant"}
        PROVE  ThreadsOK'
    <2>1. PICK l : l = IF S = {} THEN next ELSE in
      OBVIOUS
    <2>2. \A u \in Threads : pc'[u] = IF u = t THEN l ELSE pc[u]
      BY <1>1, <1>5, <2>1 DEF StartLoop, Goto
    <2>3. \A u \in Threads : todo'[u] = IF u = t THEN SelectRows(S) ELSE todo[u]
      BY <1>1, <1>5 DEF StartLoop
    <2>4. DOMAIN SelectRows(S) = S /\ \A f \in S : SelectRows(S)[f] \in Row
      BY <1>3 DEF SelectRows
    <2>5. current[t] = NoForward
      BY <1>1, <1>5 DEF ThreadOK
    <2>6. l \in Loop <=> S # {}
      BY <1>5, <2>1 DEF Loop
    <2>7. ThreadOK(t)'
      BY <1>1, <1>5, <2>2, <2>3, <2>4, <2>5, <2>6 DEF ThreadOK
    <2>8. \A u \in Threads \ {t} : ThreadOK(u)'
      BY <1>1, <1>5, <2>2, <2>3 DEF ThreadOK
    <2>9. \A r \in Reports : pc'[r] \in ReportLabels
      BY <1>1, <1>2, <1>5, <2>1, <2>2 DEF ReportLabels
    <2>10. pc'[Daily] \in DailyLabels
      BY <1>1, <1>2, <1>5, <2>1, <2>2 DEF DailyLabels
    <2>11. DOMAIN pc' = Threads /\ DOMAIN todo' = Threads
      BY <1>1, <1>5 DEF StartLoop, Goto
    <2> QED BY <1>1, <1>5, <2>7, <2>8, <2>9, <2>10, <2>11, <1>11 DEF EachThread
  <1>6. ASSUME UNCHANGED <<pc, job, loops>> PROVE ThreadsOK'
    BY <1>6 DEF Typed, TypeOK, ThreadsOK, job, loops, InLoop
  <1>7. ASSUME NEW r \in Reports, HandleReport(r) PROVE ThreadsOK'
    <2>1. CASE UpdateForwardFlow(r) \/ UpdateUserFlow(r) \/ UpdateUserTunnelFlow(r) \/ RecordFlowLedger(r)
      <3>1. PICK l \in {"user", "grant", "ledger", "checkUser", "done"} :
                /\ Goto(r, l) /\ UNCHANGED <<job, loops>>
                /\ pc[r] \in {"forward", "user", "grant", "ledger"}
        BY <2>1 DEF UpdateForwardFlow, UpdateUserFlow, UpdateUserTunnelFlow, RecordFlowLedger
      <3>2. l \in ReportLabels /\ l \notin Loop /\ pc[r] \notin Loop
        BY <3>1 DEF ReportLabels, Loop
      <3> QED BY <1>1, <1>2, <1>4, <3>1, <3>2 DEF job
    <2>2. CASE CheckUserRelatedLimits(r)
      <3>1. pc[r] \notin Loop /\ UNCHANGED <<batch, current, expiring>>
        BY <2>2 DEF CheckUserRelatedLimits, Loop, job
      <3>2. PICK S \in SUBSET Forwards : StartLoop(r, S, "pauseUser", "checkGrant")
        BY <2>2 DEF CheckUserRelatedLimits, OwnedBy
      <3> QED BY <1>1, <1>2, <1>5, <3>1, <3>2
    <2>3. CASE CheckUserTunnelRelatedLimits(r)
      <3>1. pc[r] \notin Loop /\ UNCHANGED <<batch, current, expiring>>
        BY <2>3 DEF CheckUserTunnelRelatedLimits, Loop, job
      <3>2. PICK S \in SUBSET Forwards : StartLoop(r, S, "pauseGrant", "done")
        BY <2>3 DEF CheckUserTunnelRelatedLimits, GrantedBy
      <3> QED BY <1>1, <1>2, <1>5, <3>1, <3>2
    <2> QED BY <1>7, <2>1, <2>2, <2>3 DEF HandleReport
  <1>8. ASSUME NEW t \in Threads, PauseLoop(t) PROVE ThreadsOK'
    <2>1. CASE PauseIn(t)
      <3>1. PICK f \in DOMAIN todo[t] : current' = [current EXCEPT ![t] = f]
        BY <2>1 DEF PauseIn
      <3>2. UNCHANGED <<pc, job, todo>>
        BY <2>1 DEF PauseIn
      <3>3. \A u \in Threads : ThreadOK(u)'
        BY <1>1, <3>1, <3>2 DEF ThreadOK
      <3> QED BY <1>1, <3>1, <3>2, <3>3, <1>11 DEF EachThread, job
    <2>2. CASE PauseOut(t)
      <3>1. PICK l \in {"saveUser", "saveGrant"} : Goto(t, l)
        BY <2>2 DEF PauseOut
      <3>2. UNCHANGED <<job, loops>> /\ pc[t] \in Loop /\ l \in Loop
        BY <2>2, <3>1 DEF PauseOut, Pausing, Loop
      <3>3. \A u \in Threads : pc'[u] = IF u = t THEN l ELSE pc[u]
        BY <1>1, <3>1 DEF Goto
      <3>4. \A u \in Threads : ThreadOK(u)'
        BY <1>1, <3>2, <3>3 DEF ThreadOK, loops
      <3>5. \A r \in Reports : pc'[r] \in ReportLabels
        BY <1>1, <1>2, <3>1, <3>3 DEF ReportLabels
      <3>6. pc'[Daily] \in DailyLabels
        BY <1>1, <1>2, <3>1, <3>3 DEF DailyLabels
      <3> QED BY <1>1, <3>1, <3>2, <3>4, <3>5, <3>6, <1>11 DEF EachThread, Goto, job, loops
    <2>3. CASE SavePaused(t)
      <3>1. PICK f : f = current[t]
        OBVIOUS
      <3>2. f # NoForward /\ f \in DOMAIN todo[t] /\ pc[t] \in {"saveUser", "saveGrant"}
        BY <1>1, <2>3, <3>1 DEF SavePaused, Typed, Where, ThreadOK
      <3>3. PICK l : l = IF DOMAIN todo[t] # {f}
                         THEN IF pc[t] = "saveUser" THEN "pauseUser" ELSE "pauseGrant"
                         ELSE AfterLoop(t)
        OBVIOUS
      <3>4. Goto(t, l) /\ UNCHANGED job
        BY <2>3, <3>1, <3>3 DEF SavePaused
      <3>5. l \in Loop <=> DOMAIN todo[t] # {f}
        BY <3>2, <3>3 DEF Loop, AfterLoop
      <3>6. \A u \in Threads : pc'[u] = IF u = t THEN l ELSE pc[u]
        BY <1>1, <3>4 DEF Goto
      <3>7. \A u \in Threads : todo'[u] = IF u = t THEN Without(todo[t], f) ELSE todo[u]
        BY <1>1, <2>3, <3>1 DEF SavePaused
      <3>8. \A u \in Threads : current'[u] = IF u = t THEN NoForward ELSE current[u]
        BY <1>1, <2>3 DEF SavePaused
      <3>9. /\ DOMAIN Without(todo[t], f) = DOMAIN todo[t] \ {f}
            /\ \A g \in DOMAIN todo[t] \ {f} : Without(todo[t], f)[g] = todo[t][g]
        BY DEF Without
      <3>10. ThreadOK(t)'
        <4>1. todo'[t] = Without(todo[t], f) /\ pc'[t] = l /\ current'[t] = NoForward
          BY <3>6, <3>7, <3>8
        <4>2. DOMAIN todo'[t] = DOMAIN todo[t] \ {f}
          BY <4>1, <3>9
        <4>3. DOMAIN todo[t] \subseteq Forwards /\ \A g \in DOMAIN todo[t] : todo[t][g] \in Row
          BY <1>1 DEF ThreadOK
        <4>4. DOMAIN todo'[t] \subseteq Forwards
          BY <4>2, <4>3
        <4>5. \A g \in DOMAIN todo'[t] : todo'[t][g] \in Row
          BY <4>1, <4>2, <4>3, <3>9
        <4>6. pc'[t] \in Loop <=> DOMAIN todo'[t] # {}
          BY <4>1, <4>2, <3>2, <3>5
        <4> QED BY <4>1, <4>4, <4>5, <4>6 DEF ThreadOK
      <3>11. \A u \in Threads \ {t} : ThreadOK(u)'
        BY <1>1, <3>6, <3>7, <3>8 DEF ThreadOK
      <3>12. \A r \in Reports : pc'[r] \in ReportLabels
        BY <1>1, <1>2, <3>2, <3>3, <3>6 DEF ReportLabels, AfterLoop
      <3>13. pc'[Daily] \in DailyLabels
        BY <1>1, <1>2, <3>2, <3>3, <3>6 DEF DailyLabels, AfterLoop
      <3>14. DOMAIN pc' = Threads /\ DOMAIN todo' = Threads /\ DOMAIN current' = Threads
        BY <1>1, <2>3 DEF SavePaused, Goto
      <3> QED BY <1>1, <3>4, <3>10, <3>11, <3>12, <3>13, <3>14, <1>11 DEF EachThread, job
    <2> QED BY <1>8, <2>1, <2>2, <2>3 DEF PauseLoop
  <1>9. ASSUME DailyJob PROVE ThreadsOK'
    <2>1. \A S : DOMAIN SelectRows(S) = S /\ \A x \in S : SelectRows(S)[x] = row[x]
      BY DEF SelectRows
    <2>2. CASE ResetFlow \/ ResetUserTunnelFlow \/ ListExpired
      <3>1. PICK l \in {"settleUsers", "settleGrants", "expireUsers", "expireGrants", "idle"} : Goto(Daily, l)
        BY <2>2 DEF ResetFlow, ResetUserTunnelFlow, ListExpired
      <3>2. /\ pc[Daily] \in {"idle", "settleUsers", "settleGrants", "expireUsers", "expireGrants"}
            /\ UNCHANGED <<expiring, loops>>
        BY <2>2 DEF ResetFlow, ResetUserTunnelFlow, ListExpired
      <3>3. expiring = NoRow
        BY <3>2 DEF Typed, Where
      <3>4. batch' = batch \/ \E S \in SUBSET Accounts : batch' = SelectRows(S)
        BY <1>3, <2>2 DEF ResetFlow, ResetUserTunnelFlow, ListExpired, Expirable
      <3>5. DOMAIN batch' \subseteq Accounts /\ \A x \in DOMAIN batch' : batch'[x] \in Row
        BY <1>1, <1>3, <2>1, <3>4
      <3>6. pc[Daily] \notin Loop /\ l \notin Loop /\ l \in DailyLabels
        BY <3>1, <3>2 DEF Loop, DailyLabels
      <3> QED BY <1>2, <1>4, <3>1, <3>2, <3>3, <3>5, <3>6
    <2>3. CASE SettleNext
      <3>1. PICK x \in DOMAIN batch : batch' = Without(batch, x)
        BY <2>3 DEF SettleNext
      <3>2. expiring' = NoRow /\ UNCHANGED <<pc, loops>>
        BY <2>3 DEF SettleNext, Typed, Where
      <3>3. DOMAIN batch' \subseteq Accounts /\ \A y \in DOMAIN batch' : batch'[y] \in Row
        BY <1>1, <3>1 DEF Without
      <3>4. \A t \in Threads : ThreadOK(t)'
        BY <1>1, <3>2 DEF ThreadOK, loops
      <3> QED BY <1>1, <3>2, <3>3, <3>4, <1>11 DEF EachThread, loops
    <2>4. CASE ExpireUser
      <3>1. PICK u \in DOMAIN batch :
                /\ expiring' = u
                /\ StartLoop(Daily, {f \in Active(OwnedBy(u)) : GrantOf[f] # NoGrant},
                             "pauseUser", "closeUser")
        BY <2>4 DEF ExpireUser
      <3>2. pc[Daily] \notin Loop /\ UNCHANGED <<batch, current>>
        BY <2>4 DEF ExpireUser, Loop
      <3>3. {f \in Active(OwnedBy(u)) : GrantOf[f] # NoGrant} \in SUBSET Forwards
        BY DEF Active, OwnedBy
      <3> QED BY <1>2, <1>5, <3>1, <3>2, <3>3
    <2>5. CASE ExpireUserTunnel
      <3>1. PICK g \in DOMAIN batch :
                /\ expiring' = g
                /\ StartLoop(Daily, Active(GrantedBy(g)), "pauseGrant", "closeGrant")
        BY <2>5 DEF ExpireUserTunnel
      <3>2. pc[Daily] \notin Loop /\ UNCHANGED <<batch, current>>
        BY <2>5 DEF ExpireUserTunnel, Loop
      <3>3. Active(GrantedBy(g)) \in SUBSET Forwards
        BY DEF Active, GrantedBy
      <3> QED BY <1>2, <1>5, <3>1, <3>2, <3>3
    <2>6. CASE CloseExpired
      <3>1. PICK l \in {"expireUsers", "expireGrants"} : Goto(Daily, l)
        BY <2>6 DEF CloseExpired
      <3>2. /\ batch' = Without(batch, expiring) /\ expiring' = NoRow /\ UNCHANGED loops
            /\ pc[Daily] \in {"closeUser", "closeGrant"}
        BY <2>6 DEF CloseExpired
      <3>3. DOMAIN batch' \subseteq Accounts /\ \A y \in DOMAIN batch' : batch'[y] \in Row
        BY <1>1, <3>2 DEF Without
      <3>4. pc[Daily] \notin Loop /\ l \notin Loop /\ l \in DailyLabels
        BY <3>1, <3>2 DEF Loop, DailyLabels
      <3> QED BY <1>2, <1>4, <3>1, <3>2, <3>3, <3>4
    <2>7. CASE PauseLoop(Daily)
      BY <2>7, <1>2, <1>8
    <2> QED BY <1>9, <2>2, <2>3, <2>4, <2>5, <2>6, <2>7 DEF DailyJob
  <1>10. ASSUME \/ \E m \in Managers : ResetSettle(m) \/ \E x \in Manual : ResetRead(m, x)
                \/ \E s \in Switches : ChangeForwardStatus(s[1], s[2])
                \/ SwitchIn \/ SwitchOut \/ SwitchSave
                \/ \E x \in MayExpire : Expire(x)
                \/ UNCHANGED vars
         PROVE  ThreadsOK'
    BY <1>6, <1>10 DEF ResetSettle, ResetRead, ChangeForwardStatus, SwitchIn, SwitchOut, SwitchSave,
                       Expire, vars
  <1> QED BY <1>2, <1>7, <1>8, <1>9, <1>10 DEF Next
LEMMA RequestsStep == Typed /\ [Next]_vars => RequestsOK'
  <1> SUFFICES ASSUME Typed, [Next]_vars PROVE RequestsOK'
    OBVIOUS
  <1> USE BillingAssumption
  <1>1. RequestsOK /\ row \in [Rows -> Row] /\ Forwards \subseteq Rows /\ Manual \subseteq Rows
    BY DEF Typed, TypeOK, TablesOK, Rows
  <1>2. ASSUME NEW m \in Managers, NEW x \in Manual, ResetRead(m, x) PROVE RequestsOK'
    <2>1. [pc |-> "settle", id |-> x, entity |-> row[x]] \in [pc : {"settle"}, id : Manual, entity : Row]
      BY <1>1
    <2>2. manager' \in [Managers -> {Idle} \cup [pc : {"settle"}, id : Manual, entity : Row]]
      BY <1>1, <1>2, <2>1 DEF ResetRead, RequestsOK
    <2> QED BY <1>1, <1>2, <2>2 DEF ResetRead, RequestsOK, owner
  <1>3. ASSUME NEW m \in Managers, ResetSettle(m) PROVE RequestsOK'
    BY <1>1, <1>3 DEF ResetSettle, RequestsOK, owner
  <1>4. ASSUME NEW s \in Switches, ChangeForwardStatus(s[1], s[2]) PROVE RequestsOK'
    <2>1. s[1] \in Forwards /\ s[2] \in {0, 1}
      OBVIOUS
    <2>2. switch' \in [pc : {"in", "out", "save"}, id : Forwards, entity : Row,
                       target : {0, 1}, ok : BOOLEAN]
      BY <1>1, <1>4, <2>1 DEF ChangeForwardStatus
    <2>3. switches' \in 0..MaxSwitch
      BY <1>1, <1>4 DEF ChangeForwardStatus, RequestsOK
    <2> QED BY <1>1, <1>4, <2>2, <2>3 DEF ChangeForwardStatus, RequestsOK
  <1>5. ASSUME SwitchIn \/ SwitchOut PROVE RequestsOK'
    <2>1. switch \in [pc : {"in", "out", "save"}, id : Forwards, entity : Row,
                      target : {0, 1}, ok : BOOLEAN]
      <3>1. switch.pc \in {"in", "out"}
        BY <1>5 DEF SwitchIn, SwitchOut
      <3>2. switch # Idle
        BY <3>1 DEF Idle
      <3> QED BY <1>1, <3>2 DEF RequestsOK
    <2>2. \/ switch' = Idle
          \/ \E l \in {"out", "save"} : switch' = [switch EXCEPT !.pc = l]
          \/ \E b \in BOOLEAN : switch' = [switch EXCEPT !.pc = "out", !.ok = b]
      BY <1>5 DEF SwitchIn, SwitchOut
    <2>3. switch' \in {Idle} \cup [pc : {"in", "out", "save"}, id : Forwards, entity : Row,
                                   target : {0, 1}, ok : BOOLEAN]
      <3>1. CASE switch' = Idle
        BY <3>1
      <3>2. ASSUME NEW l \in {"out", "save"}, switch' = [switch EXCEPT !.pc = l]
            PROVE  switch' \in [pc : {"in", "out", "save"}, id : Forwards, entity : Row,
                                target : {0, 1}, ok : BOOLEAN]
        BY <2>1, <3>2
      <3>3. ASSUME NEW b \in BOOLEAN, switch' = [switch EXCEPT !.pc = "out", !.ok = b]
            PROVE  switch' \in [pc : {"in", "out", "save"}, id : Forwards, entity : Row,
                                target : {0, 1}, ok : BOOLEAN]
        BY <2>1, <3>3
      <3> QED BY <2>2, <3>1, <3>2, <3>3
    <2>4. UNCHANGED <<manager, switches>>
      BY <1>5 DEF SwitchIn, SwitchOut
    <2> QED BY <1>1, <2>3, <2>4 DEF RequestsOK
  <1>6. ASSUME SwitchSave PROVE RequestsOK'
    BY <1>1, <1>6 DEF SwitchSave, RequestsOK
  <1>7. ASSUME UNCHANGED <<manager, owner>> PROVE RequestsOK'
    BY <1>1, <1>7 DEF RequestsOK, owner
  <1>8. ASSUME \/ \E r \in Reports : HandleReport(r) \/ PauseLoop(r)
               \/ DailyJob
               \/ \E x \in MayExpire : Expire(x)
               \/ UNCHANGED vars
        PROVE  RequestsOK'
    <2>1. \A t : PauseLoop(t) => UNCHANGED <<manager, owner>>
      BY DEF PauseLoop, PauseIn, PauseOut, SavePaused
    <2>2. \A r : HandleReport(r) => UNCHANGED <<manager, owner>>
      BY DEF HandleReport, UpdateForwardFlow, UpdateUserFlow, UpdateUserTunnelFlow, RecordFlowLedger,
             CheckUserRelatedLimits, CheckUserTunnelRelatedLimits
    <2>3. DailyJob => UNCHANGED <<manager, owner>>
      BY <2>1 DEF DailyJob, ResetFlow, SettleNext, ResetUserTunnelFlow, ListExpired, ExpireUser,
                  ExpireUserTunnel, CloseExpired
    <2>4. \A x : Expire(x) => UNCHANGED <<manager, owner>>
      BY DEF Expire
    <2> QED BY <1>7, <1>8, <2>1, <2>2, <2>3, <2>4 DEF vars
  <1> QED BY <1>2, <1>3, <1>4, <1>5, <1>6, <1>8 DEF Next
\* How the daily job enters a pausing loop.
LEMMA ExpireStarts ==
    ASSUME ExpireUser \/ ExpireUserTunnel
    PROVE  \E S \in SUBSET Forwards : \/ StartLoop(Daily, S, "pauseUser", "closeUser")
                                       \/ StartLoop(Daily, S, "pauseGrant", "closeGrant")
  <1>1. CASE ExpireUser
    <2>1. PICK u : StartLoop(Daily, {f \in Active(OwnedBy(u)) : GrantOf[f] # NoGrant},
                             "pauseUser", "closeUser")
      BY <1>1 DEF ExpireUser
    <2>2. {f \in Active(OwnedBy(u)) : GrantOf[f] # NoGrant} \in SUBSET Forwards
      BY DEF Active, OwnedBy
    <2> QED BY <2>1, <2>2
  <1>2. CASE ExpireUserTunnel
    <2>1. PICK g : StartLoop(Daily, Active(GrantedBy(g)), "pauseGrant", "closeGrant")
      BY <1>2 DEF ExpireUserTunnel
    <2>2. Active(GrantedBy(g)) \in SUBSET Forwards
      BY DEF Active, GrantedBy
    <2> QED BY <2>1, <2>2
  <1> QED BY <1>1, <1>2

\* Where, conjunct by conjunct.
LEMMA SavingStep ==
    Typed /\ [Next]_vars
        => \A t \in Threads : pc'[t] \in {"saveUser", "saveGrant"} => current'[t] # NoForward
  <1> SUFFICES ASSUME Typed, [Next]_vars, NEW u \in Threads, pc'[u] \in {"saveUser", "saveGrant"}
               PROVE  current'[u] # NoForward
    OBVIOUS
  <1> USE BillingAssumption
  <1>1. /\ DOMAIN pc = Threads /\ DOMAIN todo = Threads /\ DOMAIN current = Threads
        /\ \A t \in Threads : DOMAIN todo[t] \subseteq Forwards
        /\ \A t \in Threads : pc[t] \in {"saveUser", "saveGrant"} => current[t] # NoForward
    BY DEF Typed, TypeOK, ThreadsOK, Where
  <1>2. Daily \in Threads /\ Reports \subseteq Threads
    BY DEF Threads
  <1>3. ASSUME pc'[u] = pc[u], current'[u] = current[u] PROVE current'[u] # NoForward
    BY <1>1, <1>3
  <1>4. ASSUME NEW t \in Threads, NEW l, Goto(t, l), l \notin {"saveUser", "saveGrant"}
        PROVE  u # t /\ pc'[u] = pc[u]
    BY <1>1, <1>4 DEF Goto
  <1>5. ASSUME NEW t \in Threads, NEW S, NEW in, NEW next, StartLoop(t, S, in, next),
               {in, next} \cap {"saveUser", "saveGrant"} = {}
        PROVE  u # t /\ pc'[u] = pc[u]
    <2>1. PICK l : l = IF S = {} THEN next ELSE in
      OBVIOUS
    <2> QED BY <1>4, <1>5, <2>1 DEF StartLoop
  <1>6. ASSUME NEW r \in Reports, HandleReport(r) PROVE current'[u] # NoForward
    <2>1. UNCHANGED current
      BY <1>6 DEF HandleReport, UpdateForwardFlow, UpdateUserFlow, UpdateUserTunnelFlow,
                  RecordFlowLedger, CheckUserRelatedLimits, CheckUserTunnelRelatedLimits, loops
    <2>2. CASE CheckUserRelatedLimits(r) \/ CheckUserTunnelRelatedLimits(r)
      BY <1>2, <1>3, <1>5, <2>1, <2>2 DEF CheckUserRelatedLimits, CheckUserTunnelRelatedLimits
    <2>3. CASE UpdateForwardFlow(r) \/ UpdateUserFlow(r) \/ UpdateUserTunnelFlow(r) \/ RecordFlowLedger(r)
      <3>1. PICK l \in {"user", "grant", "ledger", "checkUser", "done"} : Goto(r, l)
        BY <2>3 DEF UpdateForwardFlow, UpdateUserFlow, UpdateUserTunnelFlow, RecordFlowLedger
      <3> QED BY <1>2, <1>3, <1>4, <2>1, <3>1
    <2> QED BY <1>6, <2>2, <2>3 DEF HandleReport
  <1>7. ASSUME NEW t \in Threads, PauseLoop(t) PROVE current'[u] # NoForward
    <2>1. CASE PauseIn(t)
      <3>1. PICK f \in DOMAIN todo[t] : current' = [current EXCEPT ![t] = f]
        BY <2>1 DEF PauseIn
      <3>2. f # NoForward
        BY <1>1, <3>1
      <3>3. pc' = pc
        BY <2>1 DEF PauseIn
      <3> QED BY <1>1, <3>1, <3>2, <3>3
    <2>2. CASE PauseOut(t)
      <3>1. current' = current /\ current[t] # NoForward
        BY <2>2 DEF PauseOut, loops
      <3>2. u # t => pc'[u] = pc[u]
        BY <1>1, <2>2 DEF PauseOut, Goto
      <3> QED BY <1>3, <3>1, <3>2
    <2>3. CASE SavePaused(t)
      <3>1. PICK l : l \notin {"saveUser", "saveGrant"} /\ Goto(t, l)
        BY <2>3 DEF SavePaused, AfterLoop
      <3>2. u # t /\ pc'[u] = pc[u]
        BY <1>4, <3>1
      <3>3. current'[u] = current[u]
        BY <1>1, <2>3, <3>2 DEF SavePaused
      <3> QED BY <1>3, <3>2, <3>3
    <2> QED BY <1>7, <2>1, <2>2, <2>3 DEF PauseLoop
  <1>8. ASSUME DailyJob PROVE current'[u] # NoForward
    <2>1. CASE PauseLoop(Daily)
      BY <1>2, <1>7, <2>1
    <2>2. CASE ExpireUser \/ ExpireUserTunnel
      <3>1. PICK S \in SUBSET Forwards : \/ StartLoop(Daily, S, "pauseUser", "closeUser")
                                          \/ StartLoop(Daily, S, "pauseGrant", "closeGrant")
        BY <2>2, ExpireStarts
      <3>2. UNCHANGED current
        BY <2>2 DEF ExpireUser, ExpireUserTunnel
      <3> QED BY <1>2, <1>3, <1>5, <3>1, <3>2
    <2>3. CASE ResetFlow \/ SettleNext \/ ResetUserTunnelFlow \/ ListExpired \/ CloseExpired
      <3>1. UNCHANGED current
        BY <2>3 DEF ResetFlow, SettleNext, ResetUserTunnelFlow, ListExpired, CloseExpired, loops
      <3>2. \/ UNCHANGED pc
            \/ \E l \in {"settleUsers", "settleGrants", "expireUsers", "expireGrants", "idle"} :
                   Goto(Daily, l)
        BY <2>3 DEF ResetFlow, SettleNext, ResetUserTunnelFlow, ListExpired, CloseExpired
      <3>3. pc'[u] = pc[u]
        BY <1>2, <1>4, <3>2
      <3> QED BY <1>3, <3>1, <3>3
    <2> QED BY <1>8, <2>1, <2>2, <2>3 DEF DailyJob
  <1>9. ASSUME UNCHANGED <<pc, loops>> PROVE current'[u] # NoForward
    BY <1>3, <1>9 DEF loops
  <1>10. ASSUME \/ \E m \in Managers : ResetSettle(m) \/ \E x \in Manual : ResetRead(m, x)
                \/ \E s \in Switches : ChangeForwardStatus(s[1], s[2])
                \/ SwitchIn \/ SwitchOut \/ SwitchSave
                \/ \E x \in MayExpire : Expire(x)
                \/ UNCHANGED vars
         PROVE  current'[u] # NoForward
    BY <1>9, <1>10 DEF ResetSettle, ResetRead, ChangeForwardStatus, SwitchIn, SwitchOut, SwitchSave,
                       Expire, vars
  <1> QED BY <1>2, <1>6, <1>7, <1>8, <1>10 DEF Next

LEMMA ExpiringStep ==
    Typed /\ [Next]_vars
        => /\ expiring' = NoRow
                 <=> pc'[Daily] \in {"idle", "settleUsers", "settleGrants", "expireUsers", "expireGrants"}
           /\ DOMAIN batch' \subseteq Resetting \cup MayExpire
  <1> DEFINE Outside == {"idle", "settleUsers", "settleGrants", "expireUsers", "expireGrants"}
             Right == (expiring = NoRow <=> pc[Daily] \in Outside)
             Due == DOMAIN batch \subseteq Resetting \cup MayExpire
  <1> SUFFICES ASSUME Typed, [Next]_vars PROVE Right' /\ Due'
    OBVIOUS
  <1> USE BillingAssumption
  <1>1. /\ DOMAIN pc = Threads /\ Right /\ Due /\ DOMAIN batch \subseteq Accounts
        /\ expired \subseteq MayExpire /\ NoRow \notin Accounts
        /\ Daily \in Threads /\ \A r \in Reports : r # Daily
    BY DEF Typed, TypeOK, ThreadsOK, TablesOK, Where, Threads
  <1>2. ASSUME pc'[Daily] = pc[Daily], UNCHANGED job PROVE Right' /\ Due'
    BY <1>1, <1>2 DEF job
  <1>3. ASSUME NEW t \in Threads, NEW l, Goto(t, l) PROVE pc'[Daily] = IF t = Daily THEN l ELSE pc[Daily]
    BY <1>1, <1>3 DEF Goto
  <1>4. ASSUME NEW t \in Threads, NEW S, NEW in, NEW next, StartLoop(t, S, in, next)
        PROVE  pc'[Daily] \in IF t = Daily THEN {in, next} ELSE {pc[Daily]}
    <2>1. PICK l : l = IF S = {} THEN next ELSE in
      OBVIOUS
    <2> QED BY <1>3, <1>4, <2>1 DEF StartLoop
  <1>5. ASSUME NEW r \in Reports, HandleReport(r) PROVE Right' /\ Due'
    <2>1. UNCHANGED job
      BY <1>5 DEF HandleReport, UpdateForwardFlow, UpdateUserFlow, UpdateUserTunnelFlow,
                  RecordFlowLedger, CheckUserRelatedLimits, CheckUserTunnelRelatedLimits
    <2>2. r # Daily /\ r \in Threads
      BY <1>1 DEF Threads
    <2>3. (\E l : Goto(r, l)) \/ \E S, in, next : StartLoop(r, S, in, next)
      BY <1>5 DEF HandleReport, UpdateForwardFlow, UpdateUserFlow, UpdateUserTunnelFlow,
                  RecordFlowLedger, CheckUserRelatedLimits, CheckUserTunnelRelatedLimits
    <2>4. pc'[Daily] = pc[Daily]
      BY <1>3, <1>4, <2>2, <2>3
    <2> QED BY <1>2, <2>1, <2>4
  <1>6. ASSUME NEW t \in Threads, PauseLoop(t) PROVE Right' /\ Due'
    <2>1. UNCHANGED job
      BY <1>6 DEF PauseLoop, PauseIn, PauseOut, SavePaused
    <2>2. CASE t # Daily
      <3>1. UNCHANGED pc \/ \E l : Goto(t, l)
        BY <1>6 DEF PauseLoop, PauseIn, PauseOut, SavePaused
      <3> QED BY <1>2, <1>3, <2>1, <2>2, <3>1
    <2>3. CASE t = Daily
      <3>1. pc[Daily] \notin Outside
        BY <1>6, <2>3 DEF PauseLoop, PauseIn, PauseOut, SavePaused, Pausing
      <3>2. PICK l : (l = pc[Daily] /\ UNCHANGED pc) \/ (l \notin Outside /\ Goto(Daily, l))
        BY <1>6, <2>3 DEF PauseLoop, PauseIn, PauseOut, SavePaused, AfterLoop
      <3>3. pc'[Daily] \notin Outside
        BY <1>1, <1>3, <3>1, <3>2
      <3> QED BY <1>1, <2>1, <3>1, <3>3 DEF job
    <2> QED BY <2>2, <2>3
  <1>7. ASSUME DailyJob PROVE Right' /\ Due'
    <2>1. CASE PauseLoop(Daily)
      BY <1>1, <1>6, <2>1
    <2>2. CASE ResetFlow \/ ResetUserTunnelFlow \/ ListExpired
      <3>1. pc[Daily] \in Outside /\ UNCHANGED expiring
        BY <2>2 DEF ResetFlow, ResetUserTunnelFlow, ListExpired
      <3>2. PICK l \in Outside : Goto(Daily, l)
        BY <2>2 DEF ResetFlow, ResetUserTunnelFlow, ListExpired
      <3>3. Right'
        BY <1>1, <1>3, <3>1, <3>2
      <3>4. batch' = batch \/ \E S \in SUBSET (Resetting \cup MayExpire) : batch' = SelectRows(S)
        BY <1>1, <2>2 DEF ResetFlow, ResetUserTunnelFlow, ListExpired, Expirable
      <3>5. Due'
        BY <1>1, <3>4 DEF SelectRows
      <3> QED BY <3>3, <3>5
    <2>3. CASE SettleNext
      BY <1>1, <2>3 DEF SettleNext, Without
    <2>4. CASE ExpireUser \/ ExpireUserTunnel
      <3>1. PICK S \in SUBSET Forwards : \/ StartLoop(Daily, S, "pauseUser", "closeUser")
                                          \/ StartLoop(Daily, S, "pauseGrant", "closeGrant")
        BY <2>4, ExpireStarts
      <3>2. pc'[Daily] \in {"pauseUser", "closeUser", "pauseGrant", "closeGrant"}
        <4>1. ASSUME NEW in, NEW next, StartLoop(Daily, S, in, next) PROVE pc'[Daily] \in {in, next}
          BY <1>1, <1>4, <4>1
        <4> QED BY <3>1, <4>1
      <3>4. pc'[Daily] \notin Outside
        BY <3>2
      <3>3. expiring' \in DOMAIN batch /\ UNCHANGED batch
        BY <2>4 DEF ExpireUser, ExpireUserTunnel
      <3> QED BY <1>1, <3>3, <3>4
    <2>5. CASE CloseExpired
      <3>1. PICK l \in Outside : Goto(Daily, l)
        BY <2>5 DEF CloseExpired
      <3>2. pc'[Daily] \in Outside
        BY <1>1, <1>3, <3>1
      <3> QED BY <1>1, <2>5, <3>2 DEF CloseExpired, Without
    <2> QED BY <1>7, <2>1, <2>2, <2>3, <2>4, <2>5 DEF DailyJob
  <1>8. ASSUME \/ \E m \in Managers : ResetSettle(m) \/ \E x \in Manual : ResetRead(m, x)
               \/ \E s \in Switches : ChangeForwardStatus(s[1], s[2])
               \/ SwitchIn \/ SwitchOut \/ SwitchSave
               \/ \E x \in MayExpire : Expire(x)
               \/ UNCHANGED vars
        PROVE  Right' /\ Due'
    BY <1>2, <1>8 DEF ResetSettle, ResetRead, ChangeForwardStatus, SwitchIn, SwitchOut, SwitchSave,
                      Expire, vars
  <1>9. \A r \in Reports : r \in Threads
    BY DEF Threads
  <1> QED BY <1>5, <1>6, <1>7, <1>8, <1>9 DEF Next
LEMMA SwitchStep ==
    Typed /\ [Next]_vars
        => /\ switch' # Idle => <<switch'.id, switch'.target>> \in Switches
           /\ switch'.pc = "out" => OutNode[switch'.id] # NoNode
  <1> DEFINE Legal == /\ switch # Idle => <<switch.id, switch.target>> \in Switches
                      /\ switch.pc = "out" => OutNode[switch.id] # NoNode
  <1> SUFFICES ASSUME Typed, [Next]_vars PROVE Legal'
    OBVIOUS
  <1> USE BillingAssumption
  <1>1. Legal /\ Idle.pc = "idle"
    BY DEF Typed, Where, Idle
  <1>2. ASSUME UNCHANGED owner PROVE Legal'
    BY <1>1, <1>2 DEF owner
  <1>3. ASSUME NEW s \in Switches, ChangeForwardStatus(s[1], s[2]) PROVE Legal'
    <2>1. s = <<s[1], s[2]>>
      OBVIOUS
    <2>2. switch' = [pc |-> "in", id |-> s[1], entity |-> row[s[1]], target |-> s[2], ok |-> TRUE]
      BY <1>3 DEF ChangeForwardStatus
    <2>3. switch'.id = s[1] /\ switch'.target = s[2] /\ switch'.pc = "in"
      BY <2>2
    <2> QED BY <2>1, <2>3
  <1>4. ASSUME SwitchIn \/ SwitchOut \/ SwitchSave PROVE Legal'
    <2>1. switch # Idle
      BY <1>1, <1>4 DEF SwitchIn, SwitchOut, SwitchSave
    <2>2. switch \in [pc : {"in", "out", "save"}, id : Forwards, entity : Row,
                      target : {0, 1}, ok : BOOLEAN]
      BY <2>1 DEF Typed, TypeOK, RequestsOK
    <2>3. \/ switch' = Idle
          \/ switch' = [switch EXCEPT !.pc = "save"]
          \/ /\ OutNode[switch.id] # NoNode
             /\ \E b \in BOOLEAN : switch' = [switch EXCEPT !.pc = "out", !.ok = b]
      BY <1>4 DEF SwitchIn, SwitchOut, SwitchSave
    <2>4. \/ switch' = Idle
          \/ /\ switch'.id = switch.id /\ switch'.target = switch.target
             /\ switch'.pc = "out" => OutNode[switch.id] # NoNode
      <3> DEFINE Kept == /\ switch'.id = switch.id /\ switch'.target = switch.target
                         /\ switch'.pc = "out" => OutNode[switch.id] # NoNode
      <3>1. ASSUME switch' = [switch EXCEPT !.pc = "save"] PROVE Kept
        <4>1. switch'.pc = "save" /\ switch'.id = switch.id /\ switch'.target = switch.target
          BY <2>2, <3>1
        <4> QED BY <4>1
      <3>2. ASSUME OutNode[switch.id] # NoNode, NEW b \in BOOLEAN,
                   switch' = [switch EXCEPT !.pc = "out", !.ok = b]
            PROVE  Kept
        BY <2>2, <3>2
      <3> QED BY <2>3, <3>1, <3>2
    <2> QED BY <1>1, <2>1, <2>4
  <1>5. ASSUME \/ \E r \in Reports : HandleReport(r) \/ PauseLoop(r)
               \/ DailyJob
               \/ \E m \in Managers : ResetSettle(m) \/ \E x \in Manual : ResetRead(m, x)
               \/ \E x \in MayExpire : Expire(x)
               \/ UNCHANGED vars
        PROVE  Legal'
    <2>1. \A t : PauseLoop(t) => UNCHANGED owner
      BY DEF PauseLoop, PauseIn, PauseOut, SavePaused
    <2>2. \A r : HandleReport(r) => UNCHANGED owner
      BY DEF HandleReport, UpdateForwardFlow, UpdateUserFlow, UpdateUserTunnelFlow, RecordFlowLedger,
             CheckUserRelatedLimits, CheckUserTunnelRelatedLimits
    <2>3. DailyJob => UNCHANGED owner
      BY <2>1 DEF DailyJob, ResetFlow, SettleNext, ResetUserTunnelFlow, ListExpired, ExpireUser,
                  ExpireUserTunnel, CloseExpired
    <2>4. UNCHANGED owner
      BY <1>5, <2>1, <2>2, <2>3 DEF Expire, ResetSettle, ResetRead, vars
    <2> QED BY <1>2, <2>4
  <1> QED BY <1>3, <1>4, <1>5 DEF Next

\* serving only ever grows by what an owner resumes.
LEMMA ServingStep ==
    ASSUME Typed, [Next]_vars, NEW s \in serving' \ serving
    PROVE  /\ <<s[2], 1>> \in Switches
           /\ s[1] \in {InNode[s[2]], OutNode[s[2]]}
  <1> USE BillingAssumption
  <1>1. ASSUME serving' \subseteq serving PROVE FALSE
    BY <1>1
  <1>2. \A n, f, o : Paused(n, f, o) \subseteq serving
    BY DEF Paused
  <1>3. \A t : PauseLoop(t) => serving' \subseteq serving
    BY <1>2 DEF PauseLoop, PauseIn, PauseOut, PauseRemote, SavePaused
  <1>4. \A r : HandleReport(r) => serving' = serving
    BY DEF HandleReport, UpdateForwardFlow, UpdateUserFlow, UpdateUserTunnelFlow, RecordFlowLedger,
           CheckUserRelatedLimits, CheckUserTunnelRelatedLimits
  <1>5. DailyJob => serving' \subseteq serving
    BY <1>3 DEF DailyJob, ResetFlow, SettleNext, ResetUserTunnelFlow, ListExpired, ExpireUser,
                ExpireUserTunnel, CloseExpired
  <1>6. SwitchIn \/ SwitchOut
    BY <1>1, <1>3, <1>4, <1>5
       DEF Next, ResetSettle, ResetRead, ChangeForwardStatus, SwitchSave, Expire, vars
  <1>7. switch # Idle /\ switch.target \in {0, 1} /\ <<switch.id, switch.target>> \in Switches
    <2>1. switch # Idle
      <3>1. switch.pc \in {"in", "out"}
        BY <1>6 DEF SwitchIn, SwitchOut
      <3> QED BY <3>1 DEF Idle
    <2> QED BY <2>1 DEF Typed, Where, TypeOK, RequestsOK
  <1>8. \A n, o : SwitchService(n, o) => serving' \subseteq serving
                                          \/ (switch.target # 0 /\ serving' \subseteq serving \cup {<<n, switch.id>>})
    BY <1>2 DEF SwitchService, Resumed
  <1>9. PICK n \in {InNode[switch.id], OutNode[switch.id]} :
            switch.target # 0 /\ s = <<n, switch.id>>
    BY <1>1, <1>6, <1>8 DEF SwitchIn, SwitchOut
  <1> QED BY <1>7, <1>9

LEMMA WhereStep == Typed /\ [Next]_vars => Where'
  <1> SUFFICES ASSUME Typed, [Next]_vars PROVE Where'
    OBVIOUS
  <1>1. \A s \in serving' : s[1] \in {InNode[s[2]], OutNode[s[2]]}
    BY ServingStep DEF Typed, Where
  <1> QED BY <1>1, SavingStep, ExpiringStep, SwitchStep DEF Where

LEMMA TypedStep == Typed /\ [Next]_vars => Typed'
  BY TablesStep, ThreadsStep, RequestsStep, WhereStep DEF Typed, TypeOK

THEOREM TypedInvariant == Spec => []Typed
  BY TypedInit, TypedStep, PTL DEF Spec

\* Every variable keeps its type and the threads' loops are in order, in every
\* reachable state (FlowController, ResetFlowAsync and the requests beside them).
THEOREM TypeCorrect == Spec => []TypeOK
  <1>1. Typed => TypeOK
    BY DEF Typed
  <1> QED BY <1>1, TypedInvariant, PTL
-----------------------------------------------------------------------------
\* What was counted for a row: each statement of an upload adds to one row
\* what it then counts for it, and nothing else changes what was counted.
Adding == {"forward", "user", "grant"}
Adds(r, x) ==
    /\ Add(x, Billed[r])
    /\ r \notin AddedTo(x) /\ AddedTo(x)' = AddedTo(x) \cup {r}
    /\ \A y \in Rows \ {x} : AddedTo(y)' = AddedTo(y)
    /\ UNCHANGED <<ledger, settled, serving, expired, job, loops, manager, owner>>

LEMMA Disjoint ==
    /\ \A r \in Reports : /\ ForwardOf[r] \in Forwards /\ OwnerOf[ForwardOf[r]] \in Users
                          /\ GrantOf[ForwardOf[r]] \in Grants \cup {NoGrant}
    /\ Forwards \cap Users = {} /\ Forwards \cap Grants = {} /\ Users \cap Grants = {}
    /\ NoGrant \notin Rows
    /\ Rows = Forwards \cup Users \cup Grants
    /\ Accounts = Users \cup Grants
  BY BillingAssumption DEF Rows, Accounts

LEMMA StatementAdds ==
    ASSUME Typed, NEW r \in Reports,
           UpdateForwardFlow(r) \/ UpdateUserFlow(r)
               \/ (UpdateUserTunnelFlow(r) /\ GrantOf[ForwardOf[r]] # NoGrant)
    PROVE  \E x \in Rows : Adds(r, x)
  <1> DEFINE f == ForwardOf[r]
  <1>1. DOMAIN pc = Threads /\ r \in Threads
    BY DEF Typed, TypeOK, ThreadsOK, Threads
  <1>2. ASSUME NEW l, Goto(r, l)
        PROVE  \A u \in Reports : pc'[u] = IF u = r THEN l ELSE pc[u]
    BY <1>1, <1>2 DEF Goto, Threads
  <1>3. CASE UpdateForwardFlow(r)
    <2>1. Add(f, Billed[r]) /\ f \in Rows /\ pc[r] = "forward" /\ Goto(r, "user")
      BY <1>3, Disjoint DEF UpdateForwardFlow
    <2>2. \A u \in Reports : pc'[u] = IF u = r THEN "user" ELSE pc[u]
      BY <1>2, <2>1
    <2>3. r \notin AddedTo(f) /\ AddedTo(f)' = AddedTo(f) \cup {r}
      BY <2>1, <2>2, Disjoint DEF AddedTo
    <2>4. \A y \in Rows \ {f} : AddedTo(y)' = AddedTo(y)
      BY <2>1, <2>2, Disjoint DEF AddedTo
    <2> QED BY <1>3, <2>1, <2>3, <2>4 DEF UpdateForwardFlow, Adds
  <1>4. CASE UpdateUserFlow(r)
    <2>1. PICK l \in {"ledger", "grant"} : Goto(r, l) /\ (l = "ledger" <=> GrantOf[f] = NoGrant)
      BY <1>4 DEF UpdateUserFlow
    <2>2. Add(OwnerOf[f], Billed[r]) /\ OwnerOf[f] \in Rows /\ pc[r] = "user"
      BY <1>4, Disjoint DEF UpdateUserFlow
    <2>3. \A u \in Reports : pc'[u] = IF u = r THEN l ELSE pc[u]
      BY <1>2, <2>1
    <2>4. r \notin AddedTo(OwnerOf[f]) /\ AddedTo(OwnerOf[f])' = AddedTo(OwnerOf[f]) \cup {r}
      BY <2>1, <2>2, <2>3, Disjoint DEF AddedTo
    <2>5. \A y \in Rows \ {OwnerOf[f]} : AddedTo(y)' = AddedTo(y)
      <3>1. ASSUME NEW y \in Rows \ {OwnerOf[f]}, NEW u \in Reports
            PROVE  u \in AddedTo(y)' <=> u \in AddedTo(y)
        <4>1. CASE u # r
          BY <2>3, <4>1 DEF AddedTo
        <4>2. CASE u = r
          <5>1. y = GrantOf[f] => l = "grant"
            BY <2>1, <3>1, Disjoint
          <5>2. pc[u] = "user" /\ pc'[u] = l
            BY <2>2, <2>3, <4>2
          <5> QED BY <2>1, <3>1, <4>2, <5>1, <5>2 DEF AddedTo
        <4> QED BY <4>1, <4>2
      <3>2. \A y : AddedTo(y) \subseteq Reports /\ AddedTo(y)' \subseteq Reports
        BY DEF AddedTo
      <3> QED BY <3>1, <3>2
    <2> QED BY <1>4, <2>2, <2>4, <2>5 DEF UpdateUserFlow, Adds
  <1>5. CASE UpdateUserTunnelFlow(r) /\ GrantOf[f] # NoGrant
    <2>1. Add(GrantOf[f], Billed[r]) /\ GrantOf[f] \in Rows /\ pc[r] = "grant" /\ Goto(r, "ledger")
      BY <1>5, Disjoint DEF UpdateUserTunnelFlow
    <2>2. \A u \in Reports : pc'[u] = IF u = r THEN "ledger" ELSE pc[u]
      BY <1>2, <2>1
    <2>3. r \notin AddedTo(GrantOf[f]) /\ AddedTo(GrantOf[f])' = AddedTo(GrantOf[f]) \cup {r}
      BY <2>1, <2>2, Disjoint DEF AddedTo
    <2>4. \A y \in Rows \ {GrantOf[f]} : AddedTo(y)' = AddedTo(y)
      BY <2>1, <2>2, Disjoint DEF AddedTo
    <2> QED BY <1>5, <2>1, <2>3, <2>4 DEF UpdateUserTunnelFlow, Adds
  <1> QED BY <1>3, <1>4, <1>5
\* An administrator's forward has no grant; its handler never gets there, and
\* if it did, the statement would find no row.
NothingAdded(r) == UpdateUserTunnelFlow(r) /\ GrantOf[ForwardOf[r]] = NoGrant

LEMMA NothingAddedKeeps ==
    ASSUME Typed, NEW r \in Reports, NothingAdded(r)
    PROVE  row' = row
  <1>1. row \in [Rows -> Row] /\ NoGrant \notin Rows
    BY Disjoint DEF Typed, TypeOK, TablesOK
  <1>2. row' = [row EXCEPT ![NoGrant].flow = @ + Billed[r]]
    BY DEF NothingAdded, UpdateUserTunnelFlow, Add
  <1> QED BY <1>1, <1>2

LEMMA OthersCountNothing ==
    ASSUME Typed, NEW y \in Rows,
           \A r \in Reports : \/ pc'[r] = pc[r]
                              \/ pc[r] \notin Adding /\ pc'[r] \notin Adding
                              \/ pc[r] = "grant" /\ pc'[r] = "ledger" /\ GrantOf[ForwardOf[r]] = NoGrant
    PROVE  AddedTo(y)' = AddedTo(y)
  <1>1. ASSUME NEW r \in Reports PROVE r \in AddedTo(y)' <=> r \in AddedTo(y)
    <2>1. CASE pc'[r] = pc[r]
      BY <2>1 DEF AddedTo
    <2>2. CASE pc[r] \notin Adding /\ pc'[r] \notin Adding
      BY <2>2 DEF AddedTo, Adding
    <2>3. CASE pc[r] = "grant" /\ pc'[r] = "ledger" /\ GrantOf[ForwardOf[r]] = NoGrant
      BY <2>3, Disjoint DEF AddedTo
    <2> QED BY <2>1, <2>2, <2>3
  <1>2. AddedTo(y) \subseteq Reports /\ AddedTo(y)' \subseteq Reports
    BY DEF AddedTo
  <1> QED BY <1>1, <1>2

\* A step on which a thread goes from one label to another, both behind the
\* statements that add and the entry into the ledger.
Open == {"forward", "user", "grant", "ledger"}
Onward(t) == \E l : Goto(t, l) /\ l \notin Open /\ (t = Daily \/ pc[t] \notin Open)

LEMMA OnwardCountsNothing ==
    ASSUME Typed, UNCHANGED pc \/ \E t \in Threads : Onward(t)
    PROVE  /\ \A y \in Rows : AddedTo(y)' = AddedTo(y)
           /\ \A x : EnteredFor(x)' = EnteredFor(x)
  <1>1. DOMAIN pc = Threads /\ \A r \in Reports : r \in Threads /\ r # Daily
    BY BillingAssumption DEF Typed, TypeOK, ThreadsOK, Threads
  <1>2. ASSUME NEW t \in Threads, NEW l, Goto(t, l), l \notin Open, t = Daily \/ pc[t] \notin Open,
               NEW r \in Reports
        PROVE  pc'[r] = pc[r] \/ (pc[r] \notin Open /\ pc'[r] \notin Open)
    BY <1>1, <1>2 DEF Goto
  <1>3. \A r \in Reports : pc'[r] = pc[r] \/ (pc[r] \notin Open /\ pc'[r] \notin Open)
    BY <1>2 DEF Onward
  <1>4. \A y \in Rows : AddedTo(y)' = AddedTo(y)
    BY <1>3, OthersCountNothing DEF Open, Adding
  <1>5. \A x : EnteredFor(x)' = EnteredFor(x)
    BY <1>3 DEF EnteredFor, ReportsOf, Entered, Open
  <1> QED BY <1>4, <1>5

LEMMA StartLoopOnward ==
    ASSUME NEW t, NEW S, NEW in, NEW next, StartLoop(t, S, in, next), {in, next} \cap Open = {},
           t = Daily \/ pc[t] \notin Open
    PROVE  Onward(t)
  <1>1. PICK l : l = IF S = {} THEN next ELSE in
    OBVIOUS
  <1> QED BY <1>1 DEF StartLoop, Onward

LEMMA CheckOnward ==
    ASSUME NEW r, CheckUserRelatedLimits(r) \/ CheckUserTunnelRelatedLimits(r)
    PROVE  Onward(r)
  <1>1. CASE CheckUserRelatedLimits(r)
    <2>1. PICK S : StartLoop(r, S, "pauseUser", "checkGrant")
      BY <1>1 DEF CheckUserRelatedLimits
    <2>2. pc[r] \notin Open /\ {"pauseUser", "checkGrant"} \cap Open = {}
      BY <1>1 DEF CheckUserRelatedLimits, Open
    <2> QED BY <2>1, <2>2, StartLoopOnward
  <1>2. CASE CheckUserTunnelRelatedLimits(r)
    <2>1. PICK S : StartLoop(r, S, "pauseGrant", "done")
      BY <1>2 DEF CheckUserTunnelRelatedLimits
    <2>2. pc[r] \notin Open /\ {"pauseGrant", "done"} \cap Open = {}
      BY <1>2 DEF CheckUserTunnelRelatedLimits, Open
    <2> QED BY <2>1, <2>2, StartLoopOnward
  <1> QED BY <1>1, <1>2

LEMMA LoopOnward ==
    ASSUME NEW t, PauseLoop(t)
    PROVE  UNCHANGED pc \/ Onward(t)
  <1>1. CASE PauseIn(t)
    BY <1>1 DEF PauseIn
  <1>2. CASE PauseOut(t)
    BY <1>2 DEF PauseOut, Pausing, Onward, Open
  <1>3. CASE SavePaused(t)
    <2>1. PICK l : l \notin Open /\ Goto(t, l)
      BY <1>3 DEF SavePaused, AfterLoop, Open
    <2> QED BY <1>3, <2>1 DEF SavePaused, Onward, Open
  <1> QED BY <1>1, <1>2, <1>3 DEF PauseLoop

LEMMA DailyOnward ==
    ASSUME DailyJob
    PROVE  UNCHANGED pc \/ Onward(Daily)
  <1>1. CASE ExpireUser \/ ExpireUserTunnel
    <2>1. PICK S \in SUBSET Forwards : \/ StartLoop(Daily, S, "pauseUser", "closeUser")
                                       \/ StartLoop(Daily, S, "pauseGrant", "closeGrant")
      BY <1>1, ExpireStarts
    <2>2. {"pauseUser", "closeUser"} \cap Open = {} /\ {"pauseGrant", "closeGrant"} \cap Open = {}
      BY DEF Open
    <2> QED BY <2>1, <2>2, StartLoopOnward
  <1>2. CASE PauseLoop(Daily)
    BY <1>2, LoopOnward
  <1>3. CASE ResetFlow \/ SettleNext \/ ResetUserTunnelFlow \/ ListExpired \/ CloseExpired
    <2>1. \/ UNCHANGED pc
          \/ \E l \in {"settleUsers", "settleGrants", "expireUsers", "expireGrants", "idle"} :
                 Goto(Daily, l)
      BY <1>3 DEF ResetFlow, SettleNext, ResetUserTunnelFlow, ListExpired, CloseExpired
    <2> QED BY <2>1 DEF Onward, Open
  <1> QED BY <1>1, <1>2, <1>3 DEF DailyJob

\* Every step that is not one of an upload's three statements counts nothing.
Counting(r) == UpdateForwardFlow(r) \/ UpdateUserFlow(r) \/ UpdateUserTunnelFlow(r)

LEMMA Otherwise ==
    ASSUME Typed, [Next]_vars, ~ \E r \in Reports : Counting(r)
    PROVE  \A y \in Rows : AddedTo(y)' = AddedTo(y)
  <1>1. DOMAIN pc = Threads /\ Daily \in Threads /\ \A r \in Reports : r \in Threads
    BY DEF Typed, TypeOK, ThreadsOK, Threads
  <1>2. ASSUME NEW r \in Reports, RecordFlowLedger(r) PROVE \A y \in Rows : AddedTo(y)' = AddedTo(y)
    <2>1. PICK l \in {"done", "checkUser"} : Goto(r, l) /\ pc[r] = "ledger"
      BY <1>2 DEF RecordFlowLedger
    <2>2. \A u \in Reports : pc'[u] = IF u = r THEN l ELSE pc[u]
      BY <1>1, <2>1 DEF Goto
    <2> QED BY <2>1, <2>2, OthersCountNothing DEF Adding
  <1>3. ASSUME ~ \E r \in Reports : RecordFlowLedger(r)
        PROVE  UNCHANGED pc \/ \E t \in Threads : Onward(t)
    BY <1>1, <1>3, CheckOnward, LoopOnward, DailyOnward
       DEF Next, HandleReport, Counting, ResetSettle, ResetRead, ChangeForwardStatus,
           SwitchIn, SwitchOut, SwitchSave, Expire, vars
  <1> QED BY <1>2, <1>3, OnwardCountsNothing

LEMMA LedgerUntouched ==
    ASSUME Typed, [Next]_vars, ~ \E r \in Reports : RecordFlowLedger(r)
    PROVE  ledger' = ledger /\ \A x : EnteredFor(x)' = EnteredFor(x)
  <1>1. DOMAIN pc = Threads /\ Daily \in Threads /\ \A r \in Reports : r \in Threads
    BY DEF Typed, TypeOK, ThreadsOK, Threads
  <1>2. ASSUME NEW r \in Reports, Counting(r)
        PROVE  ledger' = ledger /\ \A x : EnteredFor(x)' = EnteredFor(x)
    <2>1. PICK l \in {"user", "grant", "ledger"} : Goto(r, l) /\ pc[r] \in {"forward", "user", "grant"}
      BY <1>2 DEF Counting, UpdateForwardFlow, UpdateUserFlow, UpdateUserTunnelFlow
    <2>2. \A u \in Reports : pc'[u] = IF u = r THEN l ELSE pc[u]
      BY <1>1, <2>1 DEF Goto
    <2>3. \A u \in Reports : Entered(u)' <=> Entered(u)
      BY <2>1, <2>2 DEF Entered
    <2>4. \A x : EnteredFor(x)' = EnteredFor(x)
      BY <2>3 DEF EnteredFor, ReportsOf
    <2> QED BY <1>2, <2>4 DEF Counting, UpdateForwardFlow, UpdateUserFlow, UpdateUserTunnelFlow
  <1>3. ASSUME ~ \E r \in Reports : Counting(r)
        PROVE  UNCHANGED pc \/ \E t \in Threads : Onward(t)
    BY <1>1, <1>3, CheckOnward, LoopOnward, DailyOnward
       DEF Next, HandleReport, Counting, ResetSettle, ResetRead, ChangeForwardStatus,
           SwitchIn, SwitchOut, SwitchSave, Expire, vars
  <1>4. \A t : PauseLoop(t) => ledger' = ledger
    BY DEF PauseLoop, PauseIn, PauseOut, SavePaused, tables
  <1>5. DailyJob => ledger' = ledger
    BY <1>4 DEF DailyJob, ResetFlow, SettleNext, ResetUserTunnelFlow, ListExpired, ExpireUser,
                ExpireUserTunnel, CloseExpired, tables
  <1>6. \A r \in Reports : HandleReport(r) => Counting(r) \/ ledger' = ledger
    BY DEF HandleReport, Counting, CheckUserRelatedLimits, CheckUserTunnelRelatedLimits, tables
  <1>7. ASSUME ~ \E r \in Reports : Counting(r) PROVE ledger' = ledger
    BY <1>4, <1>5, <1>6, <1>7
       DEF Next, ResetSettle, ResetRead, ChangeForwardStatus, SwitchIn, SwitchOut, SwitchSave,
           Expire, vars, tables
  <1> QED BY <1>2, <1>3, <1>7, OnwardCountsNothing

LEMMA NothingAddedCounts ==
    ASSUME Typed, NEW r \in Reports, NothingAdded(r)
    PROVE  \A y \in Rows : AddedTo(y)' = AddedTo(y)
  <1>1. DOMAIN pc = Threads /\ Reports \subseteq Threads
    BY DEF Typed, TypeOK, ThreadsOK, Threads
  <1>2. pc[r] = "grant" /\ Goto(r, "ledger") /\ GrantOf[ForwardOf[r]] = NoGrant
    BY DEF NothingAdded, UpdateUserTunnelFlow
  <1>3. \A u \in Reports : pc'[u] = IF u = r THEN "ledger" ELSE pc[u]
    BY <1>1, <1>2 DEF Goto
  <1> QED BY <1>2, <1>3, OthersCountNothing

LEMMA CountedType ==
    ASSUME NEW x
    PROVE  IsFiniteSet(AddedTo(x)) /\ Counted(x) \in Nat
  <1>1. IsFiniteSet(AddedTo(x)) /\ \A r \in AddedTo(x) : Billed[r] \in Nat
    BY FS_Subset, BillingAssumption, AddedTo(x) \subseteq Reports DEF AddedTo
  <1> QED BY <1>1, TotalType DEF Counted

LEMMA CountedAdds ==
    ASSUME NEW r \in Reports, NEW x \in Rows, Adds(r, x)
    PROVE  /\ Counted(x)' = Counted(x) + Billed[r]
           /\ \A y \in Rows \ {x} : Counted(y)' = Counted(y)
  <1>1. PICK A : A = AddedTo(x)
    OBVIOUS
  <1>2. IsFiniteSet(A) /\ \A u \in A \cup {r} : Billed[u] \in Nat
    BY <1>1, CountedType, BillingAssumption DEF AddedTo
  <1>3. Total(Billed, A \cup {r}) = Billed[r] + Total(Billed, A)
    BY <1>1, <1>2, TotalAdd DEF Adds
  <1>4. Counted(x)' = Total(Billed, A \cup {r}) /\ Counted(x) = Total(Billed, A)
    BY <1>1 DEF Adds, Counted
  <1>5. Billed[r] \in Nat /\ Total(Billed, A) \in Nat
    BY <1>2, TotalType
  <1>6. \A y \in Rows \ {x} : Counted(y)' = Counted(y)
    BY DEF Adds, Counted
  <1> QED BY <1>3, <1>4, <1>5, <1>6

\* What was counted only grows.
LEMMA CountedGrows ==
    ASSUME Typed, [Next]_vars, NEW y \in Rows
    PROVE  Counted(y) \in Nat /\ Counted(y)' \in Nat /\ Counted(y) <= Counted(y)'
  <1>1. Counted(y) \in Nat
    BY CountedType
  <1>2. CASE AddedTo(y)' = AddedTo(y)
    BY <1>1, <1>2 DEF Counted
  <1>3. ASSUME NEW r \in Reports, NEW x \in Rows, Adds(r, x)
        PROVE  Counted(y)' \in Nat /\ Counted(y) <= Counted(y)'
    <2>1. Billed[r] \in Nat
      BY BillingAssumption
    <2> QED BY <1>1, <1>3, <2>1, CountedAdds
  <1>4. CASE ~ \E r \in Reports : Counting(r)
    BY <1>1, <1>2, <1>4, Otherwise
  <1>5. ASSUME NEW r \in Reports, Counting(r)
        PROVE  Counted(y)' \in Nat /\ Counted(y) <= Counted(y)'
    BY <1>1, <1>2, <1>3, <1>5, StatementAdds, NothingAddedCounts DEF Counting, NothingAdded
  <1> QED BY <1>1, <1>4, <1>5
-----------------------------------------------------------------------------
\* A forward's counters.  Every copy of its row was taken when it held no more
\* than was counted, and what is counted only grows.
LEMMA SaveFlow ==
    ASSUME Typed, NEW x \in Rows, NEW e \in Row, NEW v, SaveEntity(x, [e EXCEPT !.status = v]),
           NEW y \in Rows
    PROVE  row'[y].flow = IF y = x THEN e.flow ELSE row[y].flow
  <1>1. row \in [Rows -> Row]
    BY DEF Typed, TypeOK, TablesOK
  <1>2. row'[y] = IF y = x THEN [e EXCEPT !.status = v] ELSE row[y]
    BY <1>1 DEF SaveEntity
  <1>3. [e EXCEPT !.status = v].flow = e.flow
    BY DEF Row
  <1> QED BY <1>2, <1>3

LEMMA SettleFlow ==
    ASSUME Typed, NEW x, NEW e, SettleAndReset(x, e), NEW y \in Rows
    PROVE  row'[y].flow = IF y = x THEN 0 ELSE row[y].flow
  <1>1. row \in [Rows -> Row]
    BY DEF Typed, TypeOK, TablesOK
  <1>2. row'[y] = IF y = x THEN [row[y] EXCEPT !.flow = 0] ELSE row[y]
    BY <1>1 DEF SettleAndReset
  <1>3. row[y] \in Row
    BY <1>1
  <1>4. [row[y] EXCEPT !.flow = 0].flow = 0
    BY <1>3 DEF Row
  <1> QED BY <1>2, <1>4

LEMMA AddFlow ==
    ASSUME Typed, NEW x, NEW n, Add(x, n), NEW y \in Rows
    PROVE  row'[y].flow = IF y = x THEN row[y].flow + n ELSE row[y].flow
  <1>1. row \in [Rows -> Row]
    BY DEF Typed, TypeOK, TablesOK
  <1>2. row'[y] = IF y = x THEN [row[y] EXCEPT !.flow = @ + n] ELSE row[y]
    BY <1>1 DEF Add
  <1>3. row[y] \in Row
    BY <1>1
  <1>4. [row[y] EXCEPT !.flow = @ + n].flow = row[y].flow + n
    BY <1>3 DEF Row
  <1> QED BY <1>2, <1>4

LEMMA FlowType ==
    ASSUME Typed
    PROVE  /\ \A x \in Rows : row[x] \in Row /\ row[x].flow \in Nat
           /\ \A t \in Threads : \A f \in DOMAIN todo[t] :
                  f \in Forwards /\ todo[t][f] \in Row /\ todo[t][f].flow \in Nat
           /\ \A x \in DOMAIN batch : x \in Accounts /\ batch[x] \in Row /\ batch[x].flow \in Nat
           /\ \A x \in Accounts : settled[x] \in Nat
           /\ switch # Idle => /\ switch.id \in Forwards
                               /\ switch.entity \in Row /\ switch.entity.flow \in Nat
           /\ Forwards \subseteq Rows /\ Accounts \subseteq Rows
  BY DEF Typed, TypeOK, TablesOK, ThreadsOK, RequestsOK, Row, Rows

LEMMA RowStep ==
    ASSUME Typed, Copies, [Next]_vars, NEW f \in Forwards
    PROVE  row'[f].flow <= Counted(f)'
  <1>1. /\ Counted(f) \in Nat /\ Counted(f)' \in Nat /\ Counted(f) <= Counted(f)'
        /\ f \in Rows /\ row[f].flow \in Nat /\ row[f].flow <= Counted(f)
    BY CountedGrows, FlowType DEF Rows, Copies
  <1>2. Typed'
    BY TypedStep
  <1>3. row'[f].flow \in Nat
    BY <1>1, <1>2 DEF Typed, TypeOK, TablesOK, Row
  <1>4. ASSUME row'[f].flow <= Counted(f) PROVE row'[f].flow <= Counted(f)'
    BY <1>1, <1>3, <1>4
  <1>5. CASE UNCHANGED row
    BY <1>1, <1>4, <1>5
  <1>6. ASSUME NEW r \in Reports, HandleReport(r) PROVE row'[f].flow <= Counted(f)'
    <2>1. CASE Counting(r) /\ ~NothingAdded(r)
      <3>1. PICK x \in Rows : Adds(r, x)
        BY <2>1, StatementAdds DEF Counting, NothingAdded
      <3>2. Billed[r] \in Nat
        BY BillingAssumption
      <3>3. row'[f].flow = IF f = x THEN row[f].flow + Billed[r] ELSE row[f].flow
        BY <1>1, <3>1, AddFlow DEF Adds
      <3>4. Counted(f)' = IF f = x THEN Counted(f) + Billed[r] ELSE Counted(f)
        BY <1>1, <3>1, CountedAdds
      <3> QED BY <1>1, <3>2, <3>3, <3>4
    <2>2. CASE NothingAdded(r)
      BY <1>5, <2>2, NothingAddedKeeps
    <2>3. CASE RecordFlowLedger(r) \/ CheckUserRelatedLimits(r) \/ CheckUserTunnelRelatedLimits(r)
      BY <1>5, <2>3 DEF RecordFlowLedger, CheckUserRelatedLimits, CheckUserTunnelRelatedLimits, tables
    <2> QED BY <1>6, <2>1, <2>2, <2>3 DEF HandleReport, Counting
  <1>7. ASSUME NEW t \in Threads, PauseLoop(t) PROVE row'[f].flow <= Counted(f)'
    <2>1. CASE PauseIn(t) \/ PauseOut(t)
      BY <1>5, <2>1 DEF PauseIn, PauseOut, tables
    <2>2. CASE SavePaused(t)
      <3>1. PICK g : g = current[t]
        OBVIOUS
      <3>2. g \in DOMAIN todo[t]
        BY <2>2, <3>1 DEF SavePaused, Typed, Where, TypeOK, ThreadsOK
      <3>3. g \in Rows /\ todo[t][g] \in Row /\ todo[t][g].flow <= Counted(g)
        BY <3>2, FlowType DEF Copies, Rows
      <3>4. SaveEntity(g, [todo[t][g] EXCEPT !.status = 0])
        BY <2>2, <3>1 DEF SavePaused
      <3>5. row'[f].flow = IF f = g THEN todo[t][g].flow ELSE row[f].flow
        BY <1>1, <3>3, <3>4, SaveFlow
      <3> QED BY <1>1, <1>4, <3>3, <3>5
    <2> QED BY <1>7, <2>1, <2>2 DEF PauseLoop
  <1>8. ASSUME NEW x, NEW e, SettleAndReset(x, e) PROVE row'[f].flow <= Counted(f)'
    <2>1. row'[f].flow \in {0, row[f].flow}
      BY <1>1, <1>8, SettleFlow
    <2> QED BY <1>1, <1>4, <2>1
  <1>9. ASSUME DailyJob PROVE row'[f].flow <= Counted(f)'
    <2>1. CASE SettleNext
      BY <1>8, <2>1 DEF SettleNext
    <2>2. CASE CloseExpired
      <3>1. expiring \in DOMAIN batch
        BY <2>2 DEF CloseExpired, Typed, Where, TypeOK, ThreadsOK
      <3>2. expiring \in Rows /\ expiring # f /\ batch[expiring] \in Row
        BY <3>1, FlowType, BillingAssumption
      <3>3. row'[f].flow = row[f].flow
        BY <1>1, <2>2, <3>2, SaveFlow DEF CloseExpired
      <3> QED BY <1>1, <1>4, <3>3
    <2>3. CASE PauseLoop(Daily)
      BY <1>7, <2>3 DEF Threads
    <2>4. CASE ResetFlow \/ ResetUserTunnelFlow \/ ListExpired \/ ExpireUser \/ ExpireUserTunnel
      BY <1>5, <2>4 DEF ResetFlow, ResetUserTunnelFlow, ListExpired, ExpireUser, ExpireUserTunnel, tables
    <2> QED BY <1>9, <2>1, <2>2, <2>3, <2>4 DEF DailyJob
  <1>10. CASE SwitchSave
    <2>1. switch # Idle
      <3>1. switch.pc = "save"
        BY <1>10 DEF SwitchSave
      <3> QED BY <3>1 DEF Idle
    <2>2. switch.id \in Rows /\ switch.entity \in Row /\ switch.entity.flow <= Counted(switch.id)
      BY <2>1, FlowType DEF Copies, Rows
    <2>3. row'[f].flow = IF f = switch.id THEN switch.entity.flow ELSE row[f].flow
      BY <1>1, <1>10, <2>2, SaveFlow DEF SwitchSave
    <2> QED BY <1>1, <1>4, <2>2, <2>3
  <1>11. ASSUME \/ \E m \in Managers : ResetSettle(m) \/ \E x \in Manual : ResetRead(m, x)
                \/ \E s \in Switches : ChangeForwardStatus(s[1], s[2])
                \/ SwitchIn \/ SwitchOut
                \/ \E x \in MayExpire : Expire(x)
                \/ UNCHANGED vars
         PROVE  row'[f].flow <= Counted(f)'
    BY <1>5, <1>8, <1>11 DEF ResetSettle, ResetRead, ChangeForwardStatus, SwitchIn, SwitchOut,
                             Expire, vars, tables
  <1>12. \A r \in Reports : r \in Threads
    BY DEF Threads
  <1> QED BY <1>6, <1>7, <1>9, <1>10, <1>11, <1>12 DEF Next
\* What a loop holds was read when the loop was entered.
LEMMA TodoKept ==
    ASSUME Typed, [Next]_vars, NEW t \in Threads, NEW f \in DOMAIN todo'[t]
    PROVE  \/ f \in DOMAIN todo[t] /\ todo'[t][f] = todo[t][f]
           \/ todo'[t][f] = row[f]
  <1> DEFINE Kept == \/ f \in DOMAIN todo[t] /\ todo'[t][f] = todo[t][f]
                     \/ todo'[t][f] = row[f]
  <1>1. DOMAIN todo = Threads /\ Daily \in Threads /\ Reports \subseteq Threads
    BY DEF Typed, TypeOK, ThreadsOK, Threads
  <1>2. CASE UNCHANGED todo
    BY <1>2
  <1>3. ASSUME NEW u \in Threads, NEW S, NEW in, NEW next, StartLoop(u, S, in, next)
        PROVE  Kept
    <2>1. todo'[t] = IF t = u THEN SelectRows(S) ELSE todo[t]
      BY <1>1, <1>3 DEF StartLoop
    <2> QED BY <2>1 DEF SelectRows
  <1>4. ASSUME NEW r \in Reports, HandleReport(r) PROVE Kept
    <2>1. CASE CheckUserRelatedLimits(r)
      BY <1>1, <1>3, <2>1 DEF CheckUserRelatedLimits
    <2>2. CASE CheckUserTunnelRelatedLimits(r)
      BY <1>1, <1>3, <2>2 DEF CheckUserTunnelRelatedLimits
    <2>3. CASE Counting(r) \/ RecordFlowLedger(r)
      BY <1>2, <2>3 DEF Counting, UpdateForwardFlow, UpdateUserFlow, UpdateUserTunnelFlow,
                        RecordFlowLedger, loops
    <2> QED BY <1>4, <2>1, <2>2, <2>3 DEF HandleReport, Counting
  <1>5. ASSUME NEW u \in Threads, PauseLoop(u) PROVE Kept
    <2>1. CASE PauseIn(u) \/ PauseOut(u)
      BY <1>2, <2>1 DEF PauseIn, PauseOut, loops
    <2>2. CASE SavePaused(u)
      <3>1. todo'[t] = todo[t] \/ todo'[t] = Without(todo[t], current[t])
        BY <1>1, <2>2 DEF SavePaused
      <3> QED BY <3>1 DEF Without
    <2> QED BY <1>5, <2>1, <2>2 DEF PauseLoop
  <1>6. ASSUME DailyJob PROVE Kept
    <2>1. CASE ExpireUser \/ ExpireUserTunnel
      BY <1>1, <1>3, <2>1, ExpireStarts
    <2>2. CASE PauseLoop(Daily)
      BY <1>1, <1>5, <2>2
    <2>3. CASE ResetFlow \/ SettleNext \/ ResetUserTunnelFlow \/ ListExpired \/ CloseExpired
      BY <1>2, <2>3 DEF ResetFlow, SettleNext, ResetUserTunnelFlow, ListExpired, CloseExpired, loops
    <2> QED BY <1>6, <2>1, <2>2, <2>3 DEF DailyJob
  <1>7. ASSUME \/ \E m \in Managers : ResetSettle(m) \/ \E x \in Manual : ResetRead(m, x)
               \/ \E s \in Switches : ChangeForwardStatus(s[1], s[2])
               \/ SwitchIn \/ SwitchOut \/ SwitchSave
               \/ \E x \in MayExpire : Expire(x)
               \/ UNCHANGED vars
        PROVE  Kept
    BY <1>2, <1>7 DEF ResetSettle, ResetRead, ChangeForwardStatus, SwitchIn, SwitchOut, SwitchSave,
                      Expire, vars, loops
  <1> QED BY <1>1, <1>4, <1>5, <1>6, <1>7 DEF Next

\* And so was what a request of an owner holds.
LEMMA SwitchKept ==
    ASSUME Typed, [Next]_vars, switch' # Idle
    PROVE  \/ switch # Idle /\ switch'.id = switch.id /\ switch'.entity = switch.entity
           \/ switch'.entity = row[switch'.id] /\ switch'.id \in Forwards
  <1> DEFINE Kept == \/ switch # Idle /\ switch'.id = switch.id /\ switch'.entity = switch.entity
                     \/ switch'.entity = row[switch'.id] /\ switch'.id \in Forwards
  <1>1. CASE UNCHANGED switch
    BY <1>1
  <1>2. ASSUME NEW s \in Switches, ChangeForwardStatus(s[1], s[2]) PROVE Kept
    <2>1. s[1] \in Forwards
      BY BillingAssumption
    <2>2. switch' = [pc |-> "in", id |-> s[1], entity |-> row[s[1]], target |-> s[2], ok |-> TRUE]
      BY <1>2 DEF ChangeForwardStatus
    <2>3. switch'.id = s[1] /\ switch'.entity = row[s[1]]
      BY <2>2
    <2> QED BY <2>1, <2>3
  <1>3. ASSUME SwitchIn \/ SwitchOut \/ SwitchSave PROVE Kept
    <2>1. switch.pc # "idle"
      BY <1>3 DEF SwitchIn, SwitchOut, SwitchSave
    <2>2. switch # Idle
      BY <2>1 DEF Idle
    <2>3. switch \in [pc : {"in", "out", "save"}, id : Forwards, entity : Row,
                      target : {0, 1}, ok : BOOLEAN]
      BY <2>2 DEF Typed, TypeOK, RequestsOK
    <2>4. \/ switch' = [switch EXCEPT !.pc = "save"]
          \/ \E b \in BOOLEAN : switch' = [switch EXCEPT !.pc = "out", !.ok = b]
      BY <1>3 DEF SwitchIn, SwitchOut, SwitchSave
    <2>5. switch'.id = switch.id /\ switch'.entity = switch.entity
      BY <2>3, <2>4
    <2> QED BY <2>2, <2>5
  <1>4. ASSUME \/ \E r \in Reports : HandleReport(r) \/ PauseLoop(r)
               \/ DailyJob
               \/ \E m \in Managers : ResetSettle(m) \/ \E x \in Manual : ResetRead(m, x)
               \/ \E x \in MayExpire : Expire(x)
               \/ UNCHANGED vars
        PROVE  Kept
    <2>1. \A t : PauseLoop(t) => UNCHANGED owner
      BY DEF PauseLoop, PauseIn, PauseOut, SavePaused
    <2>2. \A r : HandleReport(r) => UNCHANGED owner
      BY DEF HandleReport, UpdateForwardFlow, UpdateUserFlow, UpdateUserTunnelFlow, RecordFlowLedger,
             CheckUserRelatedLimits, CheckUserTunnelRelatedLimits
    <2>3. DailyJob => UNCHANGED owner
      BY <2>1 DEF DailyJob, ResetFlow, SettleNext, ResetUserTunnelFlow, ListExpired, ExpireUser,
                  ExpireUserTunnel, CloseExpired
    <2>4. UNCHANGED switch
      BY <1>4, <2>1, <2>2, <2>3 DEF Expire, ResetSettle, ResetRead, vars, owner
    <2> QED BY <1>1, <2>4
  <1> QED BY <1>2, <1>3, <1>4 DEF Next

LEMMA CopiesInit == Init => Copies
  <1> SUFFICES ASSUME Init PROVE Copies
    OBVIOUS
  <1>1. \A f \in Forwards : row[f].flow = 0 /\ Counted(f) \in Nat
    BY CountedType DEF Init, Rows
  <1>2. \A t \in Threads : DOMAIN todo[t] = {}
    BY DEF Init, Empty
  <1>3. switch = Idle
    BY DEF Init
  <1> QED BY <1>1, <1>2, <1>3 DEF Copies

LEMMA CopiesStep == Typed /\ Copies /\ [Next]_vars => Copies'
  <1> SUFFICES ASSUME Typed, Copies, [Next]_vars PROVE Copies'
    OBVIOUS
  <1>1. \A f \in Forwards : /\ Counted(f) \in Nat /\ Counted(f)' \in Nat /\ Counted(f) <= Counted(f)'
                            /\ row[f].flow \in Nat /\ row[f].flow <= Counted(f)
    BY CountedGrows, FlowType DEF Rows, Copies
  <1>2. ASSUME NEW t \in Threads, NEW f \in DOMAIN todo'[t] PROVE todo'[t][f].flow <= Counted(f)'
    <2>1. f \in Forwards
      BY TypedStep DEF Typed, TypeOK, ThreadsOK
    <2>2. CASE f \in DOMAIN todo[t] /\ todo'[t][f] = todo[t][f]
      BY <1>1, <2>1, <2>2, FlowType DEF Copies
    <2>3. CASE todo'[t][f] = row[f]
      BY <1>1, <2>1, <2>3
    <2> QED BY <2>2, <2>3, TodoKept
  <1>3. ASSUME switch' # Idle PROVE switch'.entity.flow <= Counted(switch.id)'
    <2>1. CASE switch # Idle /\ switch'.id = switch.id /\ switch'.entity = switch.entity
      <3>1. PICK f \in Forwards : f = switch.id
        BY <2>1, FlowType
      <3>2. switch.entity.flow \in Nat /\ switch.entity.flow <= Counted(f)
        BY <2>1, <3>1, FlowType DEF Copies
      <3>3. switch'.entity.flow <= Counted(f)'
        BY <1>1, <2>1, <3>2
      <3>4. Counted(switch.id)' = Counted(f)'
        BY <2>1, <3>1 DEF Counted, AddedTo
      <3> QED BY <3>3, <3>4
    <2>2. CASE switch'.entity = row[switch'.id] /\ switch'.id \in Forwards
      <3>1. PICK f \in Forwards : f = switch'.id
        BY <2>2
      <3>2. Counted(switch.id)' = Counted(f)'
        BY <3>1 DEF Counted, AddedTo
      <3> QED BY <1>1, <2>2, <3>1, <3>2
    <2> QED BY <1>3, <2>1, <2>2, SwitchKept
  <1>4. \A f \in Forwards : row'[f].flow <= Counted(f)'
    BY RowStep
  <1> QED BY <1>2, <1>3, <1>4 DEF Copies

\* A forward's counters never hold more than was reported for it, however many
\* threads write its row back whole (FlowController.pauseService, the daily
\* job, changeForwardStatus).
THEOREM ForwardCounters == Spec => []ForwardNeverOvercharged
  <1>1. Copies => ForwardNeverOvercharged
    BY DEF Copies, ForwardNeverOvercharged
  <1>2. Spec => []Copies
    BY CopiesInit, CopiesStep, TypedInvariant, PTL DEF Spec
  <1> QED BY <1>1, <1>2, PTL
-----------------------------------------------------------------------------
\* What an account is charged, settled and open together.
LEMMA SettleSettles ==
    ASSUME Typed, NEW x, NEW e, SettleAndReset(x, e), NEW y \in Accounts
    PROVE  settled'[y] = IF y = x THEN settled[y] + e.flow ELSE settled[y]
  BY DEF Typed, TypeOK, TablesOK, SettleAndReset

LEMMA ResettingByHand ==
    ASSUME Typed, NEW m \in Managers, ResetSettle(m)
    PROVE  manager[m].id \in Manual
  <1>1. manager[m] \in [pc : {"settle"}, id : Manual, entity : Row]
    BY DEF Typed, TypeOK, RequestsOK, ResetSettle
  <1> QED BY <1>1

\* The forward whose row a pausing loop writes back.
LEMMA SavedForward ==
    ASSUME Typed, NEW t \in Threads, SavePaused(t)
    PROVE  /\ current[t] \in DOMAIN todo[t] /\ current[t] \in Forwards
           /\ current[t] \in Rows /\ todo[t][current[t]] \in Row
           /\ SaveEntity(current[t], [todo[t][current[t]] EXCEPT !.status = 0])
  <1>1. current[t] \in DOMAIN todo[t]
    BY DEF SavePaused, Typed, Where, TypeOK, ThreadsOK
  <1> QED BY <1>1, FlowType DEF SavePaused, Rows

\* What the steps do to an account's charges that no manager resets.
LEMMA AccountStep ==
    ASSUME Typed, [Next]_vars, NEW x \in Accounts \ Manual
    PROVE  \/ /\ settled'[x] = settled[x] /\ row'[x].flow = row[x].flow
              /\ Counted(x)' = Counted(x)
              /\ x \in DOMAIN batch' => \/ x \in DOMAIN batch /\ batch'[x] = batch[x]
                                        \/ batch'[x] = row[x]
           \/ \E r \in Reports :
                 /\ settled'[x] = settled[x] /\ row'[x].flow = row[x].flow + Billed[r]
                 /\ Counted(x)' = Counted(x) + Billed[r] /\ batch' = batch
           \/ /\ x \in DOMAIN batch /\ x \notin DOMAIN batch'
              /\ settled'[x] + row'[x].flow \in {settled[x] + batch[x].flow}
              /\ Counted(x)' = Counted(x)
  <1> DEFINE Same == /\ settled'[x] = settled[x] /\ row'[x].flow = row[x].flow
                     /\ Counted(x)' = Counted(x)
                     /\ x \in DOMAIN batch' => \/ x \in DOMAIN batch /\ batch'[x] = batch[x]
                                               \/ batch'[x] = row[x]
             Adding1 == \E r \in Reports :
                 /\ settled'[x] = settled[x] /\ row'[x].flow = row[x].flow + Billed[r]
                 /\ Counted(x)' = Counted(x) + Billed[r] /\ batch' = batch
             Closing == /\ x \in DOMAIN batch /\ x \notin DOMAIN batch'
                        /\ settled'[x] + row'[x].flow \in {settled[x] + batch[x].flow}
                        /\ Counted(x)' = Counted(x)
  <1> SUFFICES Same \/ Adding1 \/ Closing
    OBVIOUS
  <1>1. x \in Rows /\ x \in Accounts /\ x \notin Forwards /\ settled[x] \in Nat /\ row[x].flow \in Nat
    BY FlowType, BillingAssumption DEF Rows
  <1>2. ASSUME UNCHANGED <<settled, row, batch>>, ~ \E r \in Reports : Counting(r) PROVE Same
    BY <1>1, <1>2, Otherwise DEF Counted
  <1>3. ASSUME NEW r \in Reports, Counting(r) PROVE Same \/ Adding1
    <2>1. CASE NothingAdded(r)
      <3>1. row' = row /\ Counted(x)' = Counted(x)
        BY <1>1, <2>1, NothingAddedKeeps, NothingAddedCounts DEF Counted
      <3>2. UNCHANGED <<settled, batch>>
        BY <2>1 DEF NothingAdded, UpdateUserTunnelFlow, job
      <3> QED BY <3>1, <3>2
    <2>2. CASE ~NothingAdded(r)
      <3>1. PICK y \in Rows : Adds(r, y)
        BY <1>3, <2>2, StatementAdds DEF Counting, NothingAdded
      <3>2. settled' = settled /\ batch' = batch
        BY <3>1 DEF Adds, job
      <3>3. row'[x].flow = IF x = y THEN row[x].flow + Billed[r] ELSE row[x].flow
        BY <1>1, <3>1, AddFlow DEF Adds
      <3>4. Counted(x)' = IF x = y THEN Counted(x) + Billed[r] ELSE Counted(x)
        BY <1>1, <3>1, CountedAdds
      <3> QED BY <3>2, <3>3, <3>4
    <2> QED BY <2>1, <2>2
  <1> DEFINE Still == ~ \E r \in Reports : Counting(r)
  <1>4. ASSUME Still, NEW t \in Threads, PauseLoop(t) PROVE Same
    <2>1. settled' = settled /\ batch' = batch
      BY <1>4 DEF PauseLoop, PauseIn, PauseOut, SavePaused, tables, job
    <2>2. CASE PauseIn(t) \/ PauseOut(t)
      BY <1>2, <1>4, <2>1, <2>2 DEF PauseIn, PauseOut, tables
    <2>3. CASE SavePaused(t)
      <3>1. PICK y \in Rows, e \in Row : y \in Forwards /\ SaveEntity(y, [e EXCEPT !.status = 0])
        BY <2>3, SavedForward
      <3>2. x # y
        BY <1>1, <3>1
      <3>3. row'[x].flow = row[x].flow
        BY <1>1, <3>1, <3>2, SaveFlow
      <3> QED BY <1>1, <1>4, <2>1, <3>3, Otherwise DEF Counted
    <2> QED BY <1>4, <2>2, <2>3 DEF PauseLoop
  <1>5. ASSUME Still, DailyJob PROVE Same \/ Closing
    <2>1. Counted(x)' = Counted(x)
      BY <1>1, <1>5, Otherwise DEF Counted
    <2>2. CASE SettleNext
      <3>1. PICK z \in DOMAIN batch : SettleAndReset(z, batch[z]) /\ batch' = Without(batch, z)
        BY <2>2 DEF SettleNext
      <3>2. /\ row'[x].flow = IF x = z THEN 0 ELSE row[x].flow
            /\ settled'[x] = IF x = z THEN settled[x] + batch[x].flow ELSE settled[x]
        BY <1>1, <3>1, SettleFlow, SettleSettles
      <3>3. x = z => x \notin DOMAIN batch' /\ batch[x].flow \in Nat
        BY <3>1, FlowType DEF Without
      <3>4. x # z /\ x \in DOMAIN batch' => x \in DOMAIN batch /\ batch'[x] = batch[x]
        BY <3>1 DEF Without
      <3> QED BY <1>1, <2>1, <3>1, <3>2, <3>3, <3>4
    <2>3. CASE CloseExpired
      <3>1. PICK z : z = expiring
        OBVIOUS
      <3>2. z \in DOMAIN batch /\ z \in Rows /\ batch[z] \in Row
        BY <2>3, <3>1, FlowType DEF CloseExpired, Typed, Where, TypeOK, ThreadsOK
      <3>3. SaveEntity(z, [batch[z] EXCEPT !.status = 0]) /\ batch' = Without(batch, z) /\ settled' = settled
        BY <2>3, <3>1 DEF CloseExpired
      <3>4. row'[x].flow = IF x = z THEN batch[x].flow ELSE row[x].flow
        BY <1>1, <3>2, <3>3, SaveFlow
      <3>5. x = z => x \notin DOMAIN batch'
        BY <3>3 DEF Without
      <3>6. x # z /\ x \in DOMAIN batch' => x \in DOMAIN batch /\ batch'[x] = batch[x]
        BY <3>3 DEF Without
      <3> QED BY <2>1, <3>2, <3>3, <3>4, <3>5, <3>6
    <2>4. CASE ResetFlow \/ ResetUserTunnelFlow \/ ListExpired
      <3>1. settled' = settled /\ row' = row
        BY <2>4 DEF ResetFlow, ResetUserTunnelFlow, ListExpired, tables
      <3>2. batch' = batch \/ \E S : batch' = SelectRows(S)
        BY <2>4 DEF ResetFlow, ResetUserTunnelFlow, ListExpired
      <3> QED BY <2>1, <3>1, <3>2 DEF SelectRows
    <2>5. CASE ExpireUser \/ ExpireUserTunnel
      BY <1>2, <1>5, <2>5 DEF ExpireUser, ExpireUserTunnel, tables
    <2>6. CASE PauseLoop(Daily)
      BY <1>4, <1>5, <2>6 DEF Threads
    <2> QED BY <1>5, <2>2, <2>3, <2>4, <2>5, <2>6 DEF DailyJob
  <1>6. ASSUME Still, NEW m \in Managers, ResetSettle(m) PROVE Same
    <2>1. manager[m].id # x
      BY <1>6, ResettingByHand
    <2>2. row'[x].flow = row[x].flow /\ settled'[x] = settled[x]
      BY <1>1, <1>6, <2>1, SettleFlow, SettleSettles DEF ResetSettle
    <2>3. batch' = batch
      BY <1>6 DEF ResetSettle, job
    <2> QED BY <1>1, <1>6, <2>2, <2>3, Otherwise DEF Counted
  <1>7. ASSUME Still, SwitchSave PROVE Same
    <2>1. switch.pc = "save"
      BY <1>7 DEF SwitchSave
    <2>2. switch # Idle
      BY <2>1 DEF Idle
    <2>3. switch.id \in Rows /\ switch.id # x /\ switch.entity \in Row
      BY <1>1, <2>2, FlowType
    <2>4. row'[x].flow = row[x].flow
      BY <1>1, <1>7, <2>3, SaveFlow DEF SwitchSave
    <2>5. batch' = batch /\ settled' = settled
      BY <1>7 DEF SwitchSave, job
    <2> QED BY <1>1, <1>7, <2>4, <2>5, Otherwise DEF Counted
  <1>8. ASSUME Still,
               \/ \E r \in Reports : RecordFlowLedger(r) \/ CheckUserRelatedLimits(r)
                                     \/ CheckUserTunnelRelatedLimits(r)
               \/ \E m \in Managers : \E y \in Manual : ResetRead(m, y)
               \/ \E s \in Switches : ChangeForwardStatus(s[1], s[2])
               \/ SwitchIn \/ SwitchOut
               \/ \E y \in MayExpire : Expire(y)
               \/ UNCHANGED vars
        PROVE  Same
    BY <1>2, <1>8 DEF RecordFlowLedger, CheckUserRelatedLimits, CheckUserTunnelRelatedLimits,
                      ResetRead, ChangeForwardStatus, SwitchIn, SwitchOut, Expire, vars, tables, job
  <1>9. \A r \in Reports : r \in Threads
    BY DEF Threads
  <1> HIDE DEF Same, Adding1, Closing
  <1> QED BY <1>3, <1>4, <1>5, <1>6, <1>7, <1>8, <1>9 DEF Next, HandleReport, Counting

LEMMA ChargesInit == Init => Charges
  <1> SUFFICES ASSUME Init PROVE Charges
    OBVIOUS
  <1>1. \A x \in Accounts : Charged(x) = 0 /\ Counted(x) \in Nat
    BY CountedType DEF Init, Rows, Charged
  <1>2. DOMAIN batch = {}
    BY DEF Init, Empty
  <1> QED BY <1>1, <1>2 DEF Charges

LEMMA ChargesStep == Typed /\ Charges /\ [Next]_vars => Charges'
  <1> SUFFICES ASSUME Typed, Charges, [Next]_vars PROVE Charges'
    OBVIOUS
  <1>1. ASSUME NEW x \in Accounts \ Manual
        PROVE  /\ Charged(x)' <= Counted(x)'
               /\ x \in DOMAIN batch' => batch'[x].flow <= row'[x].flow
    <2>1. /\ settled[x] \in Nat /\ row[x].flow \in Nat /\ Counted(x) \in Nat
          /\ settled[x] + row[x].flow <= Counted(x)
          /\ x \in DOMAIN batch => batch[x].flow \in Nat /\ batch[x].flow <= row[x].flow
      BY FlowType, CountedType DEF Charges, Charged
    <2>2. Charged(x)' = settled'[x] + row'[x].flow
      BY DEF Charged
    <2>3. \A r \in Reports : Billed[r] \in Nat
      BY BillingAssumption
    <2>4. CASE /\ settled'[x] = settled[x] /\ row'[x].flow = row[x].flow
               /\ Counted(x)' = Counted(x)
               /\ x \in DOMAIN batch' => \/ x \in DOMAIN batch /\ batch'[x] = batch[x]
                                         \/ batch'[x] = row[x]
      BY <2>1, <2>2, <2>4
    <2>5. ASSUME NEW r \in Reports,
                 settled'[x] = settled[x], row'[x].flow = row[x].flow + Billed[r],
                 Counted(x)' = Counted(x) + Billed[r], batch' = batch
          PROVE  /\ Charged(x)' <= Counted(x)'
                 /\ x \in DOMAIN batch' => batch'[x].flow <= row'[x].flow
      BY <2>1, <2>2, <2>3, <2>5
    <2>6. CASE /\ x \in DOMAIN batch /\ x \notin DOMAIN batch'
               /\ settled'[x] + row'[x].flow \in {settled[x] + batch[x].flow}
               /\ Counted(x)' = Counted(x)
      BY <2>1, <2>2, <2>6
    <2> QED BY <2>4, <2>5, <2>6, AccountStep
  <1>2. DOMAIN batch' \subseteq Accounts
    BY TypedStep DEF Typed, TypeOK, ThreadsOK
  <1> QED BY <1>1, <1>2 DEF Charges

\* A user or grant that no administrator resets is never charged, settled and
\* open together, for more than was reported, whatever the daily job settles,
\* resets and disables meanwhile (settleAndResetUser, ResetFlowAsync.user).
THEOREM AccountCharges == Spec => []NeverOvercharged
  <1>1. Charges => NeverOvercharged
    BY DEF Charges, NeverOvercharged
  <1>2. Spec => []Charges
    BY ChargesInit, ChargesStep, TypedInvariant, PTL DEF Spec
  <1> QED BY <1>1, <1>2, PTL
-----------------------------------------------------------------------------
\* What the ledger shows.
LEMMA EntriesType ==
    ASSUME Typed, NEW x
    PROVE  /\ IsFiniteSet(ForwardsOf(x)) /\ \A f \in ForwardsOf(x) : ledger[f] \in Nat
           /\ IsFiniteSet(EnteredFor(x)) /\ \A r \in EnteredFor(x) : Billed[r] \in Nat
           /\ Entries(x) \in Nat /\ Total(Billed, EnteredFor(x)) \in Nat
  <1>1. ForwardsOf(x) \subseteq Forwards /\ EnteredFor(x) \subseteq Reports
    BY DEF ForwardsOf, EnteredFor, ReportsOf
  <1>2. /\ IsFiniteSet(ForwardsOf(x)) /\ \A f \in ForwardsOf(x) : ledger[f] \in Nat
        /\ IsFiniteSet(EnteredFor(x)) /\ \A r \in EnteredFor(x) : Billed[r] \in Nat
    BY <1>1, FS_Subset, BillingAssumption DEF Typed, TypeOK, TablesOK
  <1> QED BY <1>2, TotalType DEF Entries

LEMMA EntryStep ==
    ASSUME Typed, NEW r \in Reports, RecordFlowLedger(r), NEW x
    PROVE  \/ /\ r \notin ReportsOf(x)
              /\ Entries(x)' = Entries(x) /\ Total(Billed, EnteredFor(x))' = Total(Billed, EnteredFor(x))
           \/ /\ r \in ReportsOf(x)
              /\ \/ Entries(x)' = Entries(x) + Billed[r]
                 \/ Entries(x)' = Entries(x) /\ r \in Faulty
              /\ Total(Billed, EnteredFor(x))' = Total(Billed, EnteredFor(x)) + Billed[r]
  <1>1. PICK f : f = ForwardOf[r]
    OBVIOUS
  <1>2. PICK F : F = ForwardsOf(x)
    OBVIOUS
  <1>3. PICK E : E = EnteredFor(x)
    OBVIOUS
  <1>4. /\ IsFiniteSet(F) /\ \A g \in F : ledger[g] \in Nat
        /\ IsFiniteSet(E) /\ \A u \in E : Billed[u] \in Nat
        /\ Billed[r] \in Nat /\ f \in Forwards
    BY <1>1, <1>2, <1>3, EntriesType, BillingAssumption
  <1>5. PICK l \in {"done", "checkUser"} : Goto(r, l) /\ pc[r] = "ledger"
    BY DEF RecordFlowLedger
  <1>6. DOMAIN pc = Threads /\ \A u \in Reports : u \in Threads
    BY DEF Typed, TypeOK, ThreadsOK, Threads
  <1>7. \A u \in Reports : pc'[u] = IF u = r THEN l ELSE pc[u]
    BY <1>5, <1>6 DEF Goto
  <1>8. \A u \in Reports : Entered(u)' <=> Entered(u) \/ u = r
    BY <1>5, <1>7 DEF Entered
  <1>9. ~Entered(r)
    BY <1>5 DEF Entered
  <1>10. EnteredFor(x)' = E \cup ({r} \cap ReportsOf(x)) /\ r \notin E
    BY <1>3, <1>8, <1>9 DEF EnteredFor, ReportsOf
  <1>11. r \in ReportsOf(x) <=> f \in F
    BY <1>1, <1>2, <1>4 DEF ReportsOf, ForwardsOf
  <1>12. Entries(x) = Total(ledger, F) /\ Total(Billed, EnteredFor(x)) = Total(Billed, E)
    BY <1>2, <1>3 DEF Entries
  <1>13. PICK L : L = ledger'
    OBVIOUS
  <1>14. /\ Entries(x)' = Total(L, F)
         /\ Total(Billed, EnteredFor(x))' = Total(Billed, E \cup ({r} \cap ReportsOf(x)))
    <2>1. ForwardsOf(x)' = F
      BY <1>2 DEF ForwardsOf
    <2>2. Entries(x)' = Total(ledger', ForwardsOf(x)')
      BY DEF Entries
    <2>3. Total(Billed, EnteredFor(x))' = Total(Billed, EnteredFor(x)')
      OBVIOUS
    <2> QED BY <1>10, <1>13, <2>1, <2>2, <2>3
  <1>15. \/ /\ L[f] = ledger[f] + Billed[r]
            /\ \A g \in Forwards \ {f} : L[g] = ledger[g]
         \/ L = ledger /\ r \in Faulty
    BY <1>1, <1>4, <1>13 DEF RecordFlowLedger, Typed, TypeOK, TablesOK
  <1>16. F \subseteq Forwards
    BY <1>2 DEF ForwardsOf
  <1>17. CASE f \notin F
    <2>1. \A g \in F : ledger[g] = L[g]
      BY <1>15, <1>16, <1>17
    <2>2. Total(ledger, F) = Total(L, F)
      BY <1>4, <2>1, TotalSame
    <2>3. {r} \cap ReportsOf(x) = {}
      BY <1>11, <1>17
    <2>4. E \cup ({r} \cap ReportsOf(x)) = E
      BY <2>3
    <2> QED BY <1>11, <1>12, <1>14, <1>17, <2>2, <2>4
  <1>18. CASE f \in F
    <2>1. {r} \cap ReportsOf(x) = {r}
      BY <1>11, <1>18
    <2>2. Total(Billed, E \cup {r}) = Billed[r] + Total(Billed, E)
      BY <1>4, <1>10, TotalAdd
    <2>3. Total(Billed, E) \in Nat /\ Total(ledger, F) \in Nat
      BY <1>4, TotalType
    <2>4. CASE L = ledger /\ r \in Faulty
      BY <1>4, <1>11, <1>12, <1>14, <1>18, <2>1, <2>2, <2>3, <2>4
    <2>5. CASE L[f] = ledger[f] + Billed[r] /\ \A g \in Forwards \ {f} : L[g] = ledger[g]
      <3>1. \A g \in F \ {f} : L[g] = ledger[g]
        BY <1>16, <2>5
      <3>2. Total(L, F) = Total(ledger, F) + Billed[r]
        BY <1>4, <1>18, <2>5, <3>1, TotalBump
      <3>3. Entries(x)' = Entries(x) + Billed[r]
        BY <1>12, <1>14, <3>2
      <3>4. Total(Billed, EnteredFor(x))' = Total(Billed, EnteredFor(x)) + Billed[r]
        <4>1. Total(Billed, EnteredFor(x))' = Total(Billed, E \cup {r})
          BY <1>14, <2>1
        <4>2. Billed[r] + Total(Billed, E) = Total(Billed, E) + Billed[r]
          BY <1>4, <2>3
        <4> QED BY <1>12, <2>2, <4>1, <4>2
      <3> QED BY <1>11, <1>18, <3>3, <3>4
    <2> QED BY <1>15, <2>4, <2>5
  <1> QED BY <1>17, <1>18
LEMMA LedgerInit == Init => Ledger
  <1> SUFFICES ASSUME Init, NEW x \in Steady
               PROVE  /\ settled[x] = 0 /\ row[x].flow = Counted(x)
                      /\ Entries(x) = 0 /\ Total(Billed, EnteredFor(x)) = 0
    BY DEF Ledger
  <1>1. x \in Accounts /\ x \in Rows
    BY DEF Steady, Rows
  <1>2. settled[x] = 0 /\ row[x].flow = 0
    BY <1>1 DEF Init
  <1>3. \A r \in Reports : pc[r] = "forward"
    BY BillingAssumption DEF Init, Threads
  <1>4. AddedTo(x) = {}
    BY <1>1, <1>3, BillingAssumption DEF AddedTo
  <1>5. EnteredFor(x) = {}
    BY <1>3 DEF EnteredFor, ReportsOf, Entered
  <1>6. Total(Billed, {}) = 0
    BY TotalEmpty
  <1>7. Entries(x) = 0
    <2>1. PICK F : F = ForwardsOf(x)
      OBVIOUS
    <2>2. PICK L : L = ledger
      OBVIOUS
    <2>3. \A f \in F : L[f] = 0
      BY <2>1, <2>2 DEF Init, ForwardsOf
    <2>4. IsFiniteSet(F)
      BY <2>1, FS_Subset, BillingAssumption, ForwardsOf(x) \subseteq Forwards DEF ForwardsOf
    <2>5. Total(L, F) = 0
      BY <2>3, <2>4, TotalZero
    <2> QED BY <2>1, <2>2, <2>5 DEF Entries
  <1> QED BY <1>2, <1>4, <1>5, <1>6, <1>7 DEF Counted

\* A steady account is never in the hands of the daily job or a manager.
LEMMA SteadyFree ==
    ASSUME Typed, NEW x \in Steady
    PROVE  x \in Accounts \ Manual /\ x \notin DOMAIN batch
  BY DEF Typed, Where, Steady

LEMMA LedgerStep == Typed /\ Ledger /\ [Next]_vars => Ledger'
  <1> SUFFICES ASSUME Typed, Ledger, [Next]_vars, NEW x \in Steady
               PROVE  /\ settled'[x] = 0 /\ row'[x].flow = Counted(x)'
                      /\ Entries(x)' <= Total(Billed, EnteredFor(x))'
                      /\ ReportsOf(x) \cap Faulty = {} => Entries(x)' = Total(Billed, EnteredFor(x))'
    BY DEF Ledger, ReportsOf
  <1>1. settled'[x] = 0 /\ row'[x].flow = Counted(x)'
    <2>1. x \in Accounts \ Manual /\ x \notin DOMAIN batch
      BY SteadyFree
    <2>2. settled[x] = 0 /\ row[x].flow = Counted(x)
      BY DEF Ledger
    <2> QED BY <2>1, <2>2, AccountStep
  <1>2. /\ Entries(x) \in Nat /\ Total(Billed, EnteredFor(x)) \in Nat
        /\ Entries(x) <= Total(Billed, EnteredFor(x))
        /\ ReportsOf(x) \cap Faulty = {} => Entries(x) = Total(Billed, EnteredFor(x))
    BY EntriesType DEF Ledger
  <1>3. CASE ~ \E r \in Reports : RecordFlowLedger(r)
    <2>1. ledger' = ledger /\ EnteredFor(x)' = EnteredFor(x)
      BY <1>3, LedgerUntouched
    <2>2. Entries(x)' = Entries(x)
      BY <2>1 DEF Entries, ForwardsOf
    <2>3. Total(Billed, EnteredFor(x))' = Total(Billed, EnteredFor(x))
      BY <2>1
    <2> QED BY <1>1, <1>2, <2>2, <2>3
  <1>4. ASSUME NEW r \in Reports, RecordFlowLedger(r)
        PROVE  /\ Entries(x)' <= Total(Billed, EnteredFor(x))'
               /\ ReportsOf(x) \cap Faulty = {} => Entries(x)' = Total(Billed, EnteredFor(x))'
    <2>1. PICK e, t : e = Entries(x) /\ t = Total(Billed, EnteredFor(x))
      OBVIOUS
    <2>2. Billed[r] \in Nat
      BY BillingAssumption
    <2>3. CASE /\ Entries(x)' = Entries(x)
               /\ Total(Billed, EnteredFor(x))' = Total(Billed, EnteredFor(x))
      BY <1>2, <2>3
    <2>4. CASE /\ r \in ReportsOf(x)
               /\ \/ Entries(x)' = Entries(x) + Billed[r]
                  \/ Entries(x)' = Entries(x) /\ r \in Faulty
               /\ Total(Billed, EnteredFor(x))' = Total(Billed, EnteredFor(x)) + Billed[r]
      BY <1>2, <2>2, <2>4
    <2> QED BY <1>4, <2>3, <2>4, EntryStep
  <1> QED BY <1>1, <1>3, <1>4

LEMMA LedgerAgrees == Typed /\ Ledger => CountersAgree
  <1> SUFFICES ASSUME Typed, Ledger, NEW x \in Steady
               PROVE  /\ Entries(x) <= Charged(x)
                      /\ (\A r \in ReportsOf(x) : Entered(r) /\ r \notin Faulty)
                             => Entries(x) = Charged(x)
    BY DEF CountersAgree
  <1>1. x \in Accounts /\ x \in Rows
    BY DEF Steady, Rows
  <1>2. Charged(x) = Counted(x)
    BY <1>1, CountedType DEF Ledger, Charged
  <1>3. /\ Entries(x) \in Nat /\ Total(Billed, EnteredFor(x)) \in Nat /\ Counted(x) \in Nat
        /\ Entries(x) <= Total(Billed, EnteredFor(x))
        /\ ReportsOf(x) \cap Faulty = {} => Entries(x) = Total(Billed, EnteredFor(x))
    BY EntriesType, CountedType DEF Ledger
  <1>4. EnteredFor(x) \subseteq AddedTo(x)
    BY <1>1, Disjoint DEF EnteredFor, ReportsOf, Entered, AddedTo
  <1>5. Total(Billed, EnteredFor(x)) <= Counted(x)
    <2>1. IsFiniteSet(AddedTo(x)) /\ \A r \in AddedTo(x) : Billed[r] \in Nat
      BY CountedType, BillingAssumption DEF AddedTo
    <2> QED BY <1>4, <2>1, TotalMonotone DEF Counted
  <1>6. ASSUME \A r \in ReportsOf(x) : Entered(r) /\ r \notin Faulty
        PROVE  Entries(x) = Counted(x)
    <2>1. EnteredFor(x) = ReportsOf(x)
      BY <1>6 DEF EnteredFor
    <2>2. AddedTo(x) \subseteq ReportsOf(x)
      BY <1>1, Disjoint DEF AddedTo, ReportsOf
    <2>3. EnteredFor(x) = AddedTo(x)
      BY <1>4, <2>1, <2>2
    <2> QED BY <1>3, <1>6, <2>3 DEF Counted
  <1> QED BY <1>2, <1>3, <1>5, <1>6

\* For an account that only uploads change, the ledger never shows more than it
\* is charged for, and once its uploads are entered exactly that
\* (FlowController.processFlowData, recordFlowLedger).
THEOREM CountersAndLedger == Spec => []CountersAgree
  <1>1. Spec => []Ledger
    BY LedgerInit, LedgerStep, TypedInvariant, PTL DEF Spec
  <1> QED BY <1>1, LedgerAgrees, TypedInvariant, PTL
-----------------------------------------------------------------------------
\* The forward of an upload over a limit.
LEMMA OnlyOwnersResume ==
    ASSUME Typed, [Next]_vars, NEW f, <<f, 1>> \notin Switches, NEW n, <<n, f>> \in serving'
    PROVE  <<n, f>> \in serving
  <1>1. \A s \in serving' \ serving : <<s[2], 1>> \in Switches
    BY ServingStep
  <1> QED BY <1>1

LEMMA SilentStays ==
    ASSUME Typed, [Next]_vars, NEW f, <<f, 1>> \notin Switches, Silent(f)
    PROVE  Silent(f)'
  BY OnlyOwnersResume DEF Silent, Nodes

\* A thread is moved by its own steps only.
LEMMA OthersLeave ==
    ASSUME Typed, [Next]_vars, NEW r \in Reports, ~HandleReport(r), ~PauseLoop(r)
    PROVE  pc'[r] = pc[r] /\ todo'[r] = todo[r] /\ current'[r] = current[r]
  <1> DEFINE Left == pc'[r] = pc[r] /\ todo'[r] = todo[r] /\ current'[r] = current[r]
  <1>1. DOMAIN pc = Threads /\ DOMAIN todo = Threads /\ DOMAIN current = Threads
        /\ r \in Threads /\ r # Daily /\ Daily \in Threads
    BY BillingAssumption DEF Typed, TypeOK, ThreadsOK, Threads
  <1>2. ASSUME UNCHANGED <<pc, loops>> PROVE Left
    BY <1>2 DEF loops
  <1>3. ASSUME NEW t, t # r, \E l : Goto(t, l), UNCHANGED loops PROVE Left
    BY <1>1, <1>3 DEF Goto, loops
  <1>4. ASSUME NEW t, t # r, \E S, in, next : StartLoop(t, S, in, next), UNCHANGED current PROVE Left
    BY <1>1, <1>4 DEF StartLoop, Goto
  <1>5. ASSUME NEW u \in Reports, HandleReport(u) PROVE Left
    <2>1. CASE CheckUserRelatedLimits(u)
      BY <1>4, <1>5, <2>1 DEF CheckUserRelatedLimits
    <2>2. CASE CheckUserTunnelRelatedLimits(u)
      BY <1>4, <1>5, <2>2 DEF CheckUserTunnelRelatedLimits
    <2>3. CASE Counting(u) \/ RecordFlowLedger(u)
      BY <1>3, <1>5, <2>3 DEF Counting, UpdateForwardFlow, UpdateUserFlow, UpdateUserTunnelFlow,
                              RecordFlowLedger
    <2> QED BY <1>5, <2>1, <2>2, <2>3 DEF HandleReport, Counting
  <1>6. ASSUME NEW t \in Threads, PauseLoop(t) PROVE Left
    <2>1. CASE PauseIn(t)
      BY <1>1, <1>6, <2>1 DEF PauseIn
    <2>2. CASE PauseOut(t)
      BY <1>3, <1>6, <2>2 DEF PauseOut
    <2>3. CASE SavePaused(t)
      BY <1>1, <1>6, <2>3 DEF SavePaused, Goto
    <2> QED BY <1>6, <2>1, <2>2, <2>3 DEF PauseLoop
  <1>7. ASSUME DailyJob PROVE Left
    <2>1. CASE ExpireUser \/ ExpireUserTunnel
      <3>1. UNCHANGED current
        BY <2>1 DEF ExpireUser, ExpireUserTunnel
      <3> QED BY <1>1, <1>4, <2>1, <3>1, ExpireStarts
    <2>2. CASE PauseLoop(Daily)
      BY <1>1, <1>6, <2>2
    <2>3. CASE ResetFlow \/ SettleNext \/ ResetUserTunnelFlow \/ ListExpired \/ CloseExpired
      BY <1>1, <1>2, <1>3, <2>3 DEF ResetFlow, SettleNext, ResetUserTunnelFlow, ListExpired, CloseExpired
    <2> QED BY <1>7, <2>1, <2>2, <2>3 DEF DailyJob
  <1>8. ASSUME \/ \E m \in Managers : ResetSettle(m) \/ \E x \in Manual : ResetRead(m, x)
               \/ \E s \in Switches : ChangeForwardStatus(s[1], s[2])
               \/ SwitchIn \/ SwitchOut \/ SwitchSave
               \/ \E x \in MayExpire : Expire(x)
               \/ UNCHANGED vars
        PROVE  Left
    BY <1>2, <1>8 DEF ResetSettle, ResetRead, ChangeForwardStatus, SwitchIn, SwitchOut, SwitchSave,
                      Expire, vars
  <1>9. \A u \in Reports : u \in Threads
    BY DEF Threads
  <1> QED BY <1>5, <1>6, <1>7, <1>8, <1>9 DEF Next

LEMMA StopsInit == Init => Stops
  <1> SUFFICES ASSUME Init, NEW r \in Reports PROVE ~InLoop(r)
    BY DEF Stops
  <1>1. pc[r] = "forward"
    BY BillingAssumption DEF Init, Threads
  <1> QED BY <1>1 DEF InLoop

LEMMA StopsStep == Typed /\ Stops /\ [Next]_vars => Stops'
  <1> SUFFICES ASSUME Typed, Stops, [Next]_vars, NEW r \in Reports \ Faulty,
                      InLoop(r)', <<ForwardOf[r], 1>> \notin Switches
               PROVE  Silent(ForwardOf[r])' \/ Turn(r, ForwardOf[r])'
    BY DEF Stops
  <1>1. PICK f \in Forwards : f = ForwardOf[r]
    BY BillingAssumption
  <1>2. /\ DOMAIN pc = Threads /\ DOMAIN todo = Threads /\ DOMAIN current = Threads
        /\ r \in Threads /\ r # Daily
    BY BillingAssumption DEF Typed, TypeOK, ThreadsOK, Threads
  <1>3. \A n : <<n, f>> \in serving' => <<n, f>> \in serving
    BY <1>1, OnlyOwnersResume
  <1>4. Silent(f) => Silent(f)'
    BY <1>1, SilentStays
  <1>5. f # NoForward
    BY BillingAssumption
  <1>6. InLoop(r) => Silent(f) \/ Turn(r, f)
    BY <1>1 DEF Stops
  <1> SUFFICES Silent(f)' \/ Turn(r, f)'
    BY <1>1
  <1>7. CASE ~HandleReport(r) /\ ~PauseLoop(r)
    <2>1. pc'[r] = pc[r] /\ todo'[r] = todo[r] /\ current'[r] = current[r]
      BY <1>7, OthersLeave
    <2>2. InLoop(r)
      BY <2>1 DEF InLoop
    <2>3. Turn(r, f) => Silent(f)' \/ Turn(r, f)'
      BY <1>3, <1>4, <2>1 DEF Turn
    <2> QED BY <1>4, <1>6, <2>2, <2>3
  <1>8. CASE HandleReport(r)
    <2>1. ASSUME NEW S, NEW in, NEW next, StartLoop(r, S, in, next), next \in {"checkGrant", "done"},
                 S # {} => f \in S, UNCHANGED current, pc[r] \in {"checkUser", "checkGrant"}
          PROVE  Turn(r, f)'
      <3>1. pc'[r] = IF S = {} THEN next ELSE in
        BY <1>2, <2>1 DEF StartLoop, Goto
      <3>2. S # {}
        BY <2>1, <3>1 DEF InLoop
      <3>3. todo'[r] = SelectRows(S)
        BY <1>2, <2>1 DEF StartLoop
      <3>4. f \in DOMAIN todo'[r]
        BY <2>1, <3>2, <3>3 DEF SelectRows
      <3>5. current[r] = NoForward
        BY <1>2, <2>1 DEF Typed, TypeOK, ThreadsOK, InLoop
      <3> QED BY <1>5, <2>1, <3>4, <3>5 DEF Turn
    <2>2. CASE CheckUserRelatedLimits(r)
      <3>1. PICK S : /\ StartLoop(r, S, "pauseUser", "checkGrant")
                     /\ S \in {OwnedBy(OwnerOf[f]), {}}
        BY <1>1, <2>2 DEF CheckUserRelatedLimits
      <3>2. f \in OwnedBy(OwnerOf[f])
        BY DEF OwnedBy
      <3>3. UNCHANGED current /\ pc[r] = "checkUser"
        BY <2>2 DEF CheckUserRelatedLimits
      <3> QED BY <2>1, <3>1, <3>2, <3>3
    <2>3. CASE CheckUserTunnelRelatedLimits(r)
      <3>1. PICK S : /\ StartLoop(r, S, "pauseGrant", "done")
                     /\ S \in {GrantedBy(GrantOf[f]), {}}
        BY <1>1, <2>3 DEF CheckUserTunnelRelatedLimits
      <3>2. f \in GrantedBy(GrantOf[f])
        BY DEF GrantedBy
      <3>3. UNCHANGED current /\ pc[r] = "checkGrant"
        BY <2>3 DEF CheckUserTunnelRelatedLimits
      <3> QED BY <2>1, <3>1, <3>2, <3>3
    <2>4. CASE Counting(r) \/ RecordFlowLedger(r)
      <3>1. PICK l \in {"user", "grant", "ledger", "checkUser", "done"} : Goto(r, l)
        BY <2>4 DEF Counting, UpdateForwardFlow, UpdateUserFlow, UpdateUserTunnelFlow, RecordFlowLedger
      <3>2. pc'[r] = l
        BY <1>2, <3>1 DEF Goto
      <3> QED BY <3>1, <3>2 DEF InLoop
    <2> QED BY <1>8, <2>2, <2>3, <2>4 DEF HandleReport, Counting
  <1>9. CASE PauseLoop(r)
    <2>1. InLoop(r)
      BY <1>9 DEF PauseLoop, PauseIn, PauseOut, SavePaused, Pausing, InLoop
    <2>2. Outcomes(r) = {"ok"} /\ \A g : ServiceName(r, g) = f
      BY <1>1, <1>2 DEF Outcomes, ServiceName
    <2>3. SUFFICES ASSUME Turn(r, f) PROVE Silent(f)' \/ Turn(r, f)'
      BY <1>4, <1>6, <2>1
    <2>4. CASE PauseIn(r)
      <3>1. PICK g \in DOMAIN todo[r] : /\ serving' = serving \ {<<InNode[g], f>>}
                                        /\ current' = [current EXCEPT ![r] = g]
        BY <2>2, <2>4 DEF PauseIn, Paused
      <3>2. current'[r] = g /\ todo' = todo /\ pc' = pc /\ pc[r] \in {"pauseUser", "pauseGrant"}
        BY <1>2, <2>4, <3>1 DEF PauseIn, Pausing
      <3>3. g = f => <<InNode[f], f>> \notin serving'
        BY <3>1
      <3> QED BY <2>3, <3>2, <3>3 DEF Turn
    <2>5. CASE PauseOut(r)
      <3>1. current' = current /\ todo' = todo
        BY <2>5 DEF PauseOut, loops
      <3>2. CASE current[r] # f
        BY <2>3, <3>1, <3>2 DEF Turn
      <3>3. CASE current[r] = f
        <4>1. /\ OutNode[f] = NoNode => serving' = serving
              /\ OutNode[f] # NoNode => serving' = serving \ {<<OutNode[f], f>>}
          BY <2>2, <2>5, <3>3 DEF PauseOut, PauseRemote, Paused
        <4>2. <<InNode[f], f>> \notin serving
          BY <2>3, <3>3 DEF Turn
        <4>3. NoNode \notin Nodes
          BY BillingAssumption DEF Nodes
        <4>4. \A n : <<n, f>> \in serving => n \in {InNode[f], OutNode[f]}
          BY DEF Typed, Where
        <4>5. ASSUME NEW n \in Nodes, <<n, f>> \in serving' PROVE FALSE
          BY <1>3, <4>1, <4>2, <4>3, <4>4, <4>5
        <4> QED BY <4>5 DEF Silent, Nodes
      <3> QED BY <3>2, <3>3
    <2>6. CASE SavePaused(r)
      <3>1. todo'[r] = Without(todo[r], current[r]) /\ current'[r] = NoForward
        BY <1>2, <2>6 DEF SavePaused
      <3>2. CASE current[r] = f
        <4>1. pc[r] \in {"saveUser", "saveGrant"}
          BY <2>6 DEF SavePaused
        <4> QED BY <1>4, <2>3, <3>2, <4>1 DEF Turn
      <3>3. CASE current[r] # f
        <4>1. f \in DOMAIN todo'[r]
          BY <2>3, <3>1, <3>3 DEF Turn, Without
        <4> QED BY <1>5, <3>1, <4>1 DEF Turn
      <3> QED BY <3>2, <3>3
    <2> QED BY <1>9, <2>4, <2>5, <2>6 DEF PauseLoop
  <1> QED BY <1>7, <1>8, <1>9

LEMMA OffenderStep ==
    ASSUME Typed, Stops, [Next]_vars, NEW r \in Reports \ Faulty,
           InLoop(r), pc'[r] \in {"checkGrant", "done"}, <<ForwardOf[r], 1>> \notin Switches
    PROVE  Silent(ForwardOf[r])'
  <1>1. PICK f \in Forwards : f = ForwardOf[r]
    BY BillingAssumption
  <1>2. DOMAIN pc = Threads /\ r \in Threads
    BY DEF Typed, TypeOK, ThreadsOK, Threads
  <1>3. Silent(f) => Silent(f)'
    BY <1>1, SilentStays
  <1>4. ~HandleReport(r)
    BY DEF InLoop, HandleReport, UpdateForwardFlow, UpdateUserFlow, UpdateUserTunnelFlow,
           RecordFlowLedger, CheckUserRelatedLimits, CheckUserTunnelRelatedLimits
  <1>5. pc'[r] # pc[r]
    BY DEF InLoop
  <1>6. PauseLoop(r)
    BY <1>4, <1>5, OthersLeave
  <1>7. ~PauseIn(r) /\ ~PauseOut(r)
    BY <1>2, <1>5 DEF PauseIn, PauseOut, Goto
  <1>8. SavePaused(r)
    BY <1>6, <1>7 DEF PauseLoop
  <1>9. DOMAIN todo[r] = {current[r]}
    <2>1. SUFFICES ASSUME DOMAIN todo[r] # {current[r]} PROVE FALSE
      OBVIOUS
    <2>2. \E l \in {"pauseUser", "pauseGrant"} : Goto(r, l)
      BY <1>8, <2>1 DEF SavePaused
    <2> QED BY <1>2, <2>2 DEF Goto
  <1>10. Silent(f) \/ Turn(r, f)
    BY <1>1 DEF Stops
  <1>11. Turn(r, f) => Silent(f)
    BY <1>8, <1>9 DEF Turn, SavePaused
  <1> QED BY <1>1, <1>3, <1>10, <1>11

\* An upload whose commands arrive leaves its pausing loop only when neither end
\* of the tunnel serves its forward any more (FlowController.pauseService),
\* whatever other uploads had marked as paused before.
THEOREM OffendersStop == Spec => OffenderStopped
  <1>1. Spec => []Stops
    BY StopsInit, StopsStep, TypedInvariant, PTL DEF Spec
  <1>2. Typed /\ Stops /\ [Next]_vars
            => [\A r \in Reports \ Faulty :
                   InLoop(r) /\ pc'[r] \in {"checkGrant", "done"} /\ <<ForwardOf[r], 1>> \notin Switches
                       => Silent(ForwardOf[r])']_vars
    BY OffenderStep
  <1> QED BY <1>1, <1>2, TypedInvariant, PTL DEF Spec, OffenderStopped
=============================================================================
