------------------------- MODULE ObjectConfigProofs -------------------------
(* Requests and reloads of the named objects leave no closed object in the  *)
(* registry, and registry and configuration agree on every name whose       *)
(* requests did not overlap, for any number of threads, names and files.    *)
EXTENDS ObjectConfig, FiniteSetTheorems, SequenceTheorems, WellFoundedInduction, TLAPS

-----------------------------------------------------------------------------
(* What the requests are doing.                                             *)

\* The steps of every operation, and what a request carries.
Fits(r) ==
    /\ r.op = "none" <=> r.pc = "idle"
    /\ r.op = "create" => r.pc \in {"register", "config"}
    /\ r.op = "update" => r.pc \in {"unload", "drop", "register", "config"}
    /\ r.op = "delete" => r.pc \in {"unload", "drop", "config"}
    /\ r.op = "reload" <=> r.pc \in {"getall", "clear", "clear drop"}
    /\ r.op \in {"create", "update"} <=> r.new # Nothing
    /\ r.op \in {"create", "update", "delete"} => r.name \in Names
    /\ r.op # "reload" => r.todo = <<>>
    /\ r.pc = "clear drop" => r.name \in r.gone

Doing == \A t \in Threads : Fits(req[t])

Typed == ObjectAssumption /\ ObjectTypeOK /\ Doing

-----------------------------------------------------------------------------
(* Who owns an object.                                                      *)

\* Thread t is about to put object o into the registry.
Pending(t, o) ==
    \/ req[t].pc \in {"unload", "drop", "register"} /\ req[t].new = o
    \/ \E k \in DOMAIN req[t].todo : req[t].todo[k].obj = o

Distinct(list) == \A j, k \in DOMAIN list : list[j].obj = list[k].obj => j = k
Registered(o) == \E n \in Names : reg[n] = o

\* An object has one owner: the request that built it or one name.
Owners ==
    /\ \A m, n \in Names : reg[m] = reg[n] /\ reg[m] # Nothing => m = n
    /\ \A t, u \in Threads : \A o \in Object : Pending(t, o) /\ Pending(u, o) => t = u
    /\ \A t \in Threads : Distinct(req[t].todo)
    /\ \A t \in Threads : \A o \in Object : Pending(t, o) => ~Registered(o) /\ o \notin closed
    /\ \A o \in Object : Registered(o) \/ o \in closed \/ (\E t \in Threads : Pending(t, o)) => o <= built

-----------------------------------------------------------------------------
(* What registry and configuration say about a name.                        *)

\* Names that are not mixed have one request at a time; a reload mixes all of
\* them, and ends that only if it was alone.
Apart ==
    /\ \A t \in Threads : Reloading(t) => mixed = Names
    /\ \A t, u \in Threads : Reloading(t) /\ req[t].alone /\ Busy(u) => t = u
    /\ \A n \in Names \ mixed : \A t, u \in Touching(n) : t = u

Agree(n) == cfg[n] = IF reg[n] = Nothing THEN <<>> ELSE <<reg[n]>>

\* Where the request of thread t, alone at its name, has come to.
Replaced(t, n) == CASE req[t].op = "create" -> cfg[n] = <<>>
                    [] req[t].op = "update" -> \E o \in Object : cfg[n] = <<o>>
                    [] OTHER -> TRUE
Stage(t, n) ==
    /\ req[t].pc \in {"unload", "drop"} => reg[n] # Nothing /\ Agree(n)
    /\ req[t].pc = "register" => reg[n] = Nothing /\ Replaced(t, n)
    /\ req[t].pc = "config" => reg[n] = req[t].new /\ Replaced(t, n)

Staged(n) == IF Touching(n) = {} THEN Agree(n) ELSE \A t \in Touching(n) : Stage(t, n)
Stages == \A n \in Names \ mixed : Staged(n)

\* A reload that is alone: what is left of the file and what the registry has
\* from it make up the configuration, unless the file names something twice.
ToLoad(t, n) == {k \in DOMAIN req[t].todo : req[t].todo[k].name = n}
FromFile(t, n) == req[t].pc # "getall" /\ n \notin req[t].gone /\ reg[n] # Nothing
Loads(t, n) ==
    /\ FromFile(t, n) /\ ToLoad(t, n) = {} => cfg[n] = <<reg[n]>>
    /\ ~FromFile(t, n) /\ ToLoad(t, n) = {} => cfg[n] = <<>>
    /\ ~FromFile(t, n) => \A k \in ToLoad(t, n) : ToLoad(t, n) = {k} => cfg[n] = <<req[t].todo[k].obj>>
Loading == \A t \in Threads : Reloading(t) /\ req[t].alone => \A n \in Names : Loads(t, n)

IInv == Typed /\ Owners /\ ClosedLeaves /\ Apart /\ Stages /\ Loading

-----------------------------------------------------------------------------
(* The entries of a file: InOrder lists a finite set of numbers.            *)

Sorted(s, S) == s \in [1..Cardinality(S) -> S] /\ \A i, j \in DOMAIN s : i < j => s[i] < s[j]

\* A set of naturals that is not empty has a least element.
LEMMA Least ==
    ASSUME NEW T \in SUBSET Nat, T # {}
    PROVE  \E n \in T : \A m \in T : ~(m < n)
  <1>1. IsWellFoundedOn({ss \in Nat \X Nat : ss[1] < ss[2]}, Nat)
    BY NatLessThanWellFounded DEF OpToRel
  <1>2. \E x \in T : \A y \in T : ~ (<<y, x>> \in {ss \in Nat \X Nat : ss[1] < ss[2]})
    BY <1>1, WFMin
  <1> QED BY <1>2

\* By induction on a bound of S: the largest element goes to the end.
LEMMA Sortable ==
    ASSUME NEW N \in Nat, NEW S \in SUBSET (1..N)
    PROVE  \E s : Sorted(s, S)
  <1> DEFINE Bad == {n \in Nat : \E T \in SUBSET (1..n) : ~\E s : Sorted(s, T)}
  <1> SUFFICES ASSUME Bad # {} PROVE FALSE
    OBVIOUS
  <1>1. PICK n \in Nat : n \in Bad /\ \A m \in Bad : ~(m < n)
    BY Least
  <1>2. PICK T \in SUBSET (1..n) : ~\E s : Sorted(s, T)
    BY <1>1
  <1>3. n # 0
    <2> SUFFICES ASSUME n = 0 PROVE FALSE
      OBVIOUS
    <2>1. T = {}
      OBVIOUS
    <2>2. Cardinality(T) = 0
      BY <2>1, FS_EmptySet
    <2>3. Sorted(<<>>, T)
      BY <2>1, <2>2 DEF Sorted
    <2> QED BY <1>2, <2>3
  <1>4. n - 1 \in Nat /\ n - 1 \notin Bad
    <2>1. n - 1 \in Nat /\ n - 1 < n
      BY <1>3
    <2> QED BY <1>1, <2>1
  <1>5. n \in T
    <2> SUFFICES ASSUME n \notin T PROVE FALSE
      OBVIOUS
    <2>1. T \in SUBSET (1..(n - 1))
      BY <1>4
    <2> QED BY <1>2, <1>4, <2>1
  <1>6. T \ {n} \in SUBSET (1..(n - 1))
    BY <1>4
  <1>7. PICK s : Sorted(s, T \ {n})
    BY <1>4, <1>6
  <1>8. PICK c : c = Cardinality(T \ {n})
    OBVIOUS
  <1>9. c \in Nat /\ Cardinality(T) = c + 1
    <2>1. IsFiniteSet(T) /\ IsFiniteSet(T \ {n})
      <3>1. IsFiniteSet(1..n)
        BY FS_Interval
      <3> QED BY <3>1, FS_Subset
    <2>2. Cardinality(T \ {n}) = Cardinality(T) - 1 /\ Cardinality(T) \in Nat /\ Cardinality(T \ {n}) \in Nat
      BY <1>5, <2>1, FS_RemoveElement, FS_CardinalityType
    <2> QED BY <1>8, <2>2
  <1>10. s \in [1..c -> T \ {n}] /\ \A i, j \in 1..c : i < j => s[i] < s[j]
    BY <1>7, <1>8 DEF Sorted
  <1> DEFINE r == [i \in 1..(c + 1) |-> IF i = c + 1 THEN n ELSE s[i]]
  <1>11. \A i \in 1..c : r[i] = s[i] /\ s[i] \in T /\ s[i] < n /\ i \in 1..(c + 1)
    <2>1. \A i \in 1..c : i # c + 1 /\ i \in 1..(c + 1)
      BY <1>9
    <2>2. \A m \in T \ {n} : m < n
      BY <1>6
    <2> QED BY <1>10, <2>1, <2>2
  <1>12. r[c + 1] = n
    BY <1>9
  <1>13. r \in [1..(c + 1) -> T] /\ \A i, j \in 1..(c + 1) : i < j => r[i] < r[j]
    <2>1. \A i \in 1..(c + 1) : i \in 1..c \/ i = c + 1
      BY <1>9
    <2>2. r \in [1..(c + 1) -> T]
      BY <1>5, <1>11, <2>1
    <2> HIDE DEF r
    <2>3. ASSUME NEW i \in 1..(c + 1), NEW j \in 1..(c + 1), i < j PROVE r[i] < r[j]
      <3>1. i \in 1..c
        BY <1>9, <2>3
      <3>2. CASE j \in 1..c
        BY <1>10, <1>11, <2>3, <3>1, <3>2
      <3>3. CASE j = c + 1
        BY <1>11, <1>12, <3>1, <3>3
      <3> QED BY <2>1, <3>2, <3>3
    <2> QED BY <2>2, <2>3
  <1> HIDE DEF r
  <1>14. Sorted(r, T)
    BY <1>9, <1>13 DEF Sorted
  <1> QED BY <1>2, <1>14

LEMMA Ordered ==
    ASSUME NEW N \in Nat, NEW S \in SUBSET (1..N)
    PROVE  /\ InOrder(S) \in Seq(S)
           /\ S = {} => InOrder(S) = <<>>
           /\ \A o : S = {o} => InOrder(S) = <<o>>
  <1>1. Sorted(InOrder(S), S)
    BY Sortable DEF InOrder, Sorted
  <1>2. IsFiniteSet(S) /\ Cardinality(S) \in Nat
    <2>1. IsFiniteSet(1..N)
      BY FS_Interval
    <2> QED BY <2>1, FS_Subset, FS_CardinalityType
  <1>3. InOrder(S) \in Seq(S) /\ InOrder(S) \in [1..Cardinality(S) -> S]
    BY <1>1, <1>2, SeqDef DEF Sorted
  <1>4. S = {} => InOrder(S) = <<>>
    BY <1>3, FS_EmptySet
  <1>5. ASSUME NEW o, S = {o} PROVE InOrder(S) = <<o>>
    <2>1. InOrder(S) \in [1..1 -> {o}]
      BY <1>3, <1>5, FS_Singleton
    <2> QED BY <2>1
  <1> QED BY <1>3, <1>4, <1>5

-----------------------------------------------------------------------------
(* The steps, and the request of the thread that takes one.                 *)

Ops == {"create", "update", "delete"}
First(op) == IF op = "create" THEN "register" ELSE "unload"
Begins(t) == \E op \in Ops, n \in Names :
    Begin(t, op, n, First(op)) /\ (op = "create" <=> reg[n] = Nothing)

LEMMA Steps ==
    ASSUME ObjectNext
    PROVE  \/ UNCHANGED objectVars
           \/ \E t \in Threads :
                 \/ Begins(t) \/ Unload(t) \/ Drop(t) \/ Enter(t) \/ Write(t)
                 \/ reloadConfig(t) \/ LoadStops(t) \/ GetAll(t) \/ ClearUnload(t)
                 \/ ClearDrop(t) \/ Fill(t) \/ Filled(t)
  <1>1. ASSUME NEW t \in Threads, create(t) \/ update(t) \/ delete(t)
        PROVE  Begins(t)
    BY <1>1 DEF create, update, delete, Begins, Ops, First
  <1>2. ASSUME NEW t \in Threads, upsert(t) \/ parseFails(t) \/ Handlers(t)
        PROVE  \/ UNCHANGED objectVars
               \/ Begins(t) \/ Unload(t) \/ Drop(t) \/ Enter(t) \/ Write(t)
    BY <1>1, <1>2 DEF upsert, parseFails, Handlers
  <1>3. ASSUME NEW t \in Threads,
               \/ Admission(t) \/ Auther(t) \/ Bypass(t) \/ Chain(t) \/ ConnLimiter(t)
               \/ Hop(t) \/ Hosts(t) \/ Ingress(t) \/ TrafficLimiter(t) \/ Observer(t)
               \/ Recorder(t) \/ Resolver(t) \/ RateLimiter(t) \/ Router(t) \/ SD(t)
               \/ SocketChain(t) \/ SocketLimiter(t)
        PROVE  upsert(t) \/ parseFails(t) \/ Handlers(t)
    BY <1>3 DEF Admission, Auther, Bypass, Chain, ConnLimiter, Hop, Hosts, Ingress, TrafficLimiter, Observer,
                Recorder, Resolver, RateLimiter, Router, SD, SocketChain, SocketLimiter
  <1> QED BY <1>2, <1>3 DEF ObjectNext, Reload

\* What the steps do to the request of t, field by field.
LEMMA Gone ==
    ASSUME Typed, NEW t \in Threads, Leave(t)
    PROVE  /\ req' \in [Threads -> Request] /\ \A u \in Threads : u # t => req'[u] = req[u]
           /\ req'[t].op = "none" /\ req'[t].pc = "idle" /\ req'[t].new = Nothing /\ req'[t].todo = <<>>
           /\ Fits(req'[t])
  <1>1. /\ Resting \in Request /\ Fits(Resting)
        /\ Resting.op = "none" /\ Resting.pc = "idle" /\ Resting.new = Nothing /\ Resting.todo = <<>>
    BY DEF Resting, Request, Fits
  <1>2. req' \in [Threads -> Request] /\ req'[t] = Resting /\ \A u \in Threads : u # t => req'[u] = req[u]
    BY <1>1 DEF Leave, Typed, ObjectTypeOK
  <1> QED BY <1>1, <1>2

\* q is r at another place.
Moved(q, r, l) ==
    /\ q.pc = l /\ q.op = r.op /\ q.name = r.name /\ q.new = r.new
    /\ q.gone = r.gone /\ q.todo = r.todo /\ q.alone = r.alone

LEMMA Went ==
    ASSUME Typed, NEW t \in Threads, NEW l \in {"drop", "register", "config"}, Advance(t, l)
    PROVE  /\ req' \in [Threads -> Request] /\ \A u \in Threads : u # t => req'[u] = req[u]
           /\ Moved(req'[t], req[t], l)
  <1>1. [req[t] EXCEPT !.pc = l] \in Request /\ Moved([req[t] EXCEPT !.pc = l], req[t], l)
    BY DEF Typed, ObjectTypeOK, Request, Moved
  <1> QED BY <1>1 DEF Advance, Typed, ObjectTypeOK

\* u goes on as before, with another request beside it.
Beside(u) ==
    /\ req'[u].pc = req[u].pc /\ req'[u].op = req[u].op /\ req'[u].name = req[u].name
    /\ req'[u].new = req[u].new /\ req'[u].gone = req[u].gone /\ req'[u].todo = req[u].todo
    /\ Reloading(u) => ~req'[u].alone

LEMMA Begun ==
    ASSUME Typed, NEW t \in Threads, NEW op \in Ops, NEW n \in Names,
           Begin(t, op, n, First(op))
    PROVE  /\ req' \in [Threads -> Request] /\ ~Busy(t)
           /\ \A u \in Threads : u # t => Beside(u)
           /\ req'[t].op = op /\ req'[t].name = n /\ req'[t].pc = First(op) /\ req'[t].todo = <<>>
           /\ req'[t].new = (IF op = "delete" THEN Nothing ELSE built + 1) /\ built + 1 \in Object
           /\ built' = (IF op = "delete" THEN built ELSE built + 1) /\ built' \in 0..MaxObjects
           /\ Fits(req'[t])
  <1> DEFINE v == IF op = "delete" THEN Nothing ELSE built + 1
             q == [Resting EXCEPT !.op = op, !.name = n, !.pc = First(op), !.new = v]
  <1>1. /\ built \in Nat /\ built < MaxObjects /\ MaxObjects \in Nat /\ ~Busy(t)
        /\ built' = IF op = "delete" THEN built ELSE built + 1
    BY DEF Begin, ObjectAssumption, Typed, ObjectTypeOK
  <1>2. built + 1 \in Object /\ built' \in 0..MaxObjects /\ built + 1 # Nothing
    BY <1>1 DEF Object, ObjectAssumption, Typed
  <1>3. \A u \in Threads : req'[u] = IF u = t THEN q
                                     ELSE IF Reloading(u) THEN [req[u] EXCEPT !.alone = FALSE] ELSE req[u]
    BY DEF Begin
  <1>4. req' = [u \in Threads |-> req'[u]]
    BY DEF Begin
  <1>5. v \in Object \cup {Nothing} /\ (v = Nothing <=> op = "delete")
    BY <1>2
  <1> HIDE DEF v
  <1>6. /\ q.op = op /\ q.name = n /\ q.pc = First(op) /\ q.gone = {} /\ q.todo = <<>> /\ q.alone = TRUE
        /\ q.new = v
    BY DEF Resting
  <1>7. q \in Request
    <2>1. Resting \in Request /\ op \in {"none", "create", "update", "delete", "reload"} /\ n \in Names \cup {Nothing}
          /\ First(op) \in {"idle", "unload", "drop", "register", "config", "getall", "clear", "clear drop"}
      BY DEF Resting, Request, Ops, First
    <2> QED BY <1>5, <2>1 DEF Request
  <1> HIDE DEF q
  <1>8. Fits(q)
    BY <1>5, <1>6 DEF Fits, Ops, First
  <1>9. \A u \in Threads : u # t => Beside(u) /\ req'[u] \in Request
    <2> SUFFICES ASSUME NEW u \in Threads, u # t PROVE Beside(u) /\ req'[u] \in Request
      OBVIOUS
    <2>1. req[u] \in Request
      BY DEF Typed, ObjectTypeOK
    <2>2. CASE Reloading(u)
      <3>1. req'[u] = [req[u] EXCEPT !.alone = FALSE]
        BY <1>3, <2>2
      <3> QED BY <2>1, <3>1 DEF Beside, Request
    <2>3. CASE ~Reloading(u)
      BY <1>3, <2>1, <2>3 DEF Beside, Request
    <2> QED BY <2>2, <2>3
  <1>10. req' \in [Threads -> Request]
    BY <1>3, <1>4, <1>7, <1>9
  <1> QED BY <1>1, <1>2, <1>3, <1>6, <1>8, <1>9, <1>10 DEF v

\* A file: its entries get numbers of their own.
LEMMA FileRead ==
    ASSUME Typed, NEW f \in Files, built + Len(f) <= MaxObjects
    PROVE  /\ f \in Seq(Names) /\ Len(f) \in Nat /\ built + Len(f) \in 0..MaxObjects
           /\ FileEntries(f) \in Seq(Entry) /\ DOMAIN FileEntries(f) = 1..Len(f)
           /\ \A k \in 1..Len(f) : /\ FileEntries(f)[k].name = f[k] /\ f[k] \in Names
                                   /\ FileEntries(f)[k].obj = built + k /\ built + k \in Object
           /\ \A n \in Names : ObjectsOf(FileEntries(f), n) \in SUBSET Object
  <1>1. f \in Seq(Names) /\ built \in Nat /\ MaxObjects \in Nat
    BY DEF ObjectAssumption, Typed, ObjectTypeOK
  <1>2. Len(f) \in Nat /\ DOMAIN f = 1..Len(f) /\ \A k \in 1..Len(f) : f[k] \in Names
    BY <1>1, LenProperties, ElementOfSeq
  <1>3. \A k \in 1..Len(f) : built + k \in Object
    BY <1>1, <1>2 DEF Object
  <1>4. FileEntries(f) \in [1..Len(f) -> Entry]
    BY <1>2, <1>3 DEF FileEntries, Entry
  <1>5. FileEntries(f) \in Seq(Entry) /\ DOMAIN FileEntries(f) = 1..Len(f)
    BY <1>2, <1>4, SeqDef
  <1>6. \A k \in 1..Len(f) : FileEntries(f)[k].name = f[k] /\ FileEntries(f)[k].obj = built + k
    BY DEF FileEntries
  <1>7. \A n \in Names : ObjectsOf(FileEntries(f), n) \in SUBSET Object
    BY <1>3, <1>5, <1>6 DEF ObjectsOf
  <1> QED BY <1>1, <1>2, <1>3, <1>5, <1>6, <1>7

Read(t, f) ==
    /\ built + Len(f) <= MaxObjects /\ built' = built + Len(f) /\ mixed' = Names
    /\ ~Busy(t) /\ \A u \in Threads : u # t => Beside(u)
    /\ req'[t].op = "reload" /\ req'[t].pc = "getall" /\ req'[t].todo = FileEntries(f) /\ req'[t].new = Nothing
    /\ req'[t].alone <=> \A v \in Threads : ~Busy(v)
    /\ cfg' = [n \in Names |-> InOrder(ObjectsOf(FileEntries(f), n))]
    /\ UNCHANGED <<kind, reg, closed>>

LEMMA Reread ==
    ASSUME Typed, NEW t \in Threads, reloadConfig(t)
    PROVE  /\ req' \in [Threads -> Request] /\ Fits(req'[t])
           /\ \E f \in Files : Read(t, f)
  <1>1. PICK f \in Files :
           /\ ~Busy(t) /\ built + Len(f) <= MaxObjects /\ built' = built + Len(f) /\ mixed' = Names
           /\ cfg' = [n \in Names |-> InOrder(ObjectsOf(FileEntries(f), n))]
           /\ req' = [u \in Threads |->
                        IF u = t
                        THEN [Resting EXCEPT !.op = "reload", !.pc = "getall", !.todo = FileEntries(f),
                                             !.alone = \A v \in Threads : ~Busy(v)]
                        ELSE IF Reloading(u) THEN [req[u] EXCEPT !.alone = FALSE] ELSE req[u]]
           /\ UNCHANGED <<kind, reg, closed>>
    BY DEF reloadConfig
  <1>2. PICK b \in BOOLEAN : b <=> \A v \in Threads : ~Busy(v)
    OBVIOUS
  <1>3. PICK e : e = FileEntries(f)
    OBVIOUS
  <1>4. e \in Seq(Entry)
    BY <1>1, <1>3, FileRead
  <1> DEFINE q == [Resting EXCEPT !.op = "reload", !.pc = "getall", !.todo = e, !.alone = b]
  <1>5. req'[t] = q
    BY <1>1, <1>2, <1>3
  <1>6. q.op = "reload" /\ q.pc = "getall" /\ q.todo = e /\ q.alone = b /\ q.new = Nothing /\ q.gone = {}
    BY DEF Resting
  <1>7. q \in Request
    <2>1. Resting \in Request
      BY DEF Resting, Request
    <2> QED BY <1>4, <2>1 DEF Request
  <1> HIDE DEF q
  <1>8. Fits(q)
    BY <1>6 DEF Fits
  <1>9. \A u \in Threads : u # t => Beside(u) /\ req'[u] \in Request
    <2> SUFFICES ASSUME NEW u \in Threads, u # t PROVE Beside(u) /\ req'[u] \in Request
      OBVIOUS
    <2>1. req[u] \in Request
      BY DEF Typed, ObjectTypeOK
    <2>2. CASE Reloading(u)
      BY <1>1, <2>1, <2>2 DEF Beside, Request
    <2>3. CASE ~Reloading(u)
      BY <1>1, <2>1, <2>3 DEF Beside, Request
    <2> QED BY <2>2, <2>3
  <1>10. req' \in [Threads -> Request]
    BY <1>1, <1>5, <1>7, <1>9
  <1> QED BY <1>1, <1>2, <1>3, <1>5, <1>6, <1>8, <1>9, <1>10 DEF Read

\* q is r at another place of a reload, with these names to clear, at this one.
Clearing(q, r, l, g, m) ==
    /\ q.pc = l /\ q.gone = g /\ q.name = m
    /\ q.op = r.op /\ q.new = r.new /\ q.todo = r.todo /\ q.alone = r.alone

LEMMA Gathered ==
    ASSUME Typed, NEW t \in Threads, GetAll(t)
    PROVE  /\ req' \in [Threads -> Request] /\ \A u \in Threads : u # t => req'[u] = req[u]
           /\ Clearing(req'[t], req[t], "clear", {n \in Names : reg[n] # Nothing}, req[t].name)
  <1>1. PICK g : g = {n \in Names : reg[n] # Nothing}
    OBVIOUS
  <1> DEFINE q == [req[t] EXCEPT !.pc = "clear", !.gone = g]
  <1>2. q \in Request /\ Clearing(q, req[t], "clear", g, req[t].name)
    BY <1>1 DEF Typed, ObjectTypeOK, Request, Clearing
  <1>3. req' = [req EXCEPT ![t] = q]
    BY <1>1 DEF GetAll
  <1> HIDE DEF q
  <1> QED BY <1>1, <1>2, <1>3 DEF Typed, ObjectTypeOK

ClearsOne(t, n) ==
    /\ n \in req[t].gone /\ req[t].pc = "clear" /\ n \in Names
    /\ \/ /\ reg[n] = Nothing /\ closed' = closed
          /\ Clearing(req'[t], req[t], "clear", req[t].gone \ {n}, req[t].name)
       \/ /\ reg[n] # Nothing /\ closed' = Closing(n)
          /\ Clearing(req'[t], req[t], "clear drop", req[t].gone, n)

LEMMA ClearedOne ==
    ASSUME Typed, NEW t \in Threads, ClearUnload(t)
    PROVE  /\ req' \in [Threads -> Request] /\ \A u \in Threads : u # t => req'[u] = req[u]
           /\ \E n \in Names : ClearsOne(t, n)
  <1>1. PICK n \in req[t].gone :
           IF reg[n] = Nothing
           THEN req' = [req EXCEPT ![t].gone = @ \ {n}] /\ UNCHANGED closed
           ELSE req' = [req EXCEPT ![t].pc = "clear drop", ![t].name = n] /\ closed' = Closing(n)
    BY DEF ClearUnload
  <1>2. req[t] \in Request /\ n \in Names /\ req[t].pc = "clear"
    BY DEF ClearUnload, Typed, ObjectTypeOK, Request
  <1>3. CASE reg[n] = Nothing
    <2> DEFINE q == [req[t] EXCEPT !.gone = @ \ {n}]
    <2>1. q \in Request /\ Clearing(q, req[t], "clear", req[t].gone \ {n}, req[t].name)
      BY <1>2 DEF Request, Clearing
    <2>2. req' = [req EXCEPT ![t] = q] /\ closed' = closed
      BY <1>1, <1>3
    <2> HIDE DEF q
    <2> QED BY <1>2, <1>3, <2>1, <2>2 DEF ClearsOne, Typed, ObjectTypeOK
  <1>4. CASE reg[n] # Nothing
    <2> DEFINE q == [req[t] EXCEPT !.pc = "clear drop", !.name = n]
    <2>1. q \in Request /\ Clearing(q, req[t], "clear drop", req[t].gone, n)
      BY <1>2 DEF Request, Clearing
    <2>2. req' = [req EXCEPT ![t] = q] /\ closed' = Closing(n)
      BY <1>1, <1>4
    <2> HIDE DEF q
    <2> QED BY <1>2, <1>4, <2>1, <2>2 DEF ClearsOne, Typed, ObjectTypeOK
  <1> QED BY <1>3, <1>4

LEMMA ClearedOff ==
    ASSUME Typed, NEW t \in Threads, ClearDrop(t)
    PROVE  /\ req' \in [Threads -> Request] /\ \A u \in Threads : u # t => req'[u] = req[u]
           /\ Clearing(req'[t], req[t], "clear", req[t].gone \ {req[t].name}, req[t].name)
           /\ req[t].name \in Names
  <1> DEFINE q == [req[t] EXCEPT !.pc = "clear", !.gone = @ \ {req[t].name}]
  <1>1. q \in Request /\ Clearing(q, req[t], "clear", req[t].gone \ {req[t].name}, req[t].name)
    BY DEF Typed, ObjectTypeOK, Request, Clearing
  <1>2. req' = [req EXCEPT ![t] = q]
    BY DEF ClearDrop
  <1>3. req[t].name \in Names
    BY DEF ClearDrop, Typed, Doing, Fits, ObjectTypeOK, Request
  <1> HIDE DEF q
  <1> QED BY <1>1, <1>2, <1>3 DEF Typed, ObjectTypeOK

\* The next entry e of the file goes into the registry.
FillsOne(t, e) ==
    /\ req[t].pc = "clear" /\ req[t].gone = {} /\ req[t].todo # <<>>
    /\ e = Head(req[t].todo) /\ e \in Entry /\ reg[e.name] = Nothing
    /\ reg' = [reg EXCEPT ![e.name] = e.obj]
    /\ req'[t].todo = Tail(req[t].todo) /\ req'[t].pc = "clear" /\ req'[t].gone = {}
    /\ req'[t].op = req[t].op /\ req'[t].new = req[t].new /\ req'[t].alone = req[t].alone
    /\ req'[t].name = req[t].name
    /\ req' \in [Threads -> Request] /\ \A u \in Threads : u # t => req'[u] = req[u]

LEMMA FilledOne ==
    ASSUME Typed, NEW t \in Threads, Fill(t)
    PROVE  (Leave(t) /\ UNCHANGED reg) \/ \E e : FillsOne(t, e)
  <1>1. PICK e : e = Head(req[t].todo)
    OBVIOUS
  <1> SUFFICES ASSUME ~(Leave(t) /\ UNCHANGED reg)
               PROVE  FillsOne(t, e)
    OBVIOUS
  <1>2. /\ reg[e.name] = Nothing /\ reg' = [reg EXCEPT ![e.name] = e.obj]
        /\ req' = [req EXCEPT ![t].todo = Tail(@)]
        /\ req[t].pc = "clear" /\ req[t].gone = {} /\ req[t].todo # <<>>
    BY <1>1 DEF Fill
  <1>3. req[t] \in Request /\ req[t].todo \in Seq(Entry)
    BY DEF Typed, ObjectTypeOK, Request
  <1>4. e \in Entry /\ Tail(req[t].todo) \in Seq(Entry)
    BY <1>1, <1>2, <1>3, HeadTailProperties
  <1> DEFINE q == [req[t] EXCEPT !.todo = Tail(@)]
  <1>5. /\ q \in Request
        /\ q.todo = Tail(req[t].todo) /\ q.pc = req[t].pc /\ q.gone = req[t].gone
        /\ q.op = req[t].op /\ q.new = req[t].new /\ q.alone = req[t].alone /\ q.name = req[t].name
    BY <1>3, <1>4 DEF Request
  <1>6. req' = [req EXCEPT ![t] = q]
    BY <1>2
  <1> HIDE DEF q
  <1>7. req'[t] = q /\ req' \in [Threads -> Request] /\ \A u \in Threads : u # t => req'[u] = req[u]
    BY <1>5, <1>6 DEF Typed, ObjectTypeOK
  <1> QED BY <1>1, <1>2, <1>4, <1>5, <1>7 DEF FillsOne

Singleton(s) == \E p : s = <<p>>

\* What a request that has come to the configuration writes.
LEMMA Wrote ==
    ASSUME Typed, NEW t \in Threads, NEW n, n = req[t].name, NEW o, o = req[t].new, Write(t)
    PROVE  /\ n \in Names /\ cfg' \in [Names -> Seq(Object)] /\ \A m \in Names : m # n => cfg'[m] = cfg[m]
           /\ req[t].op = "create" => o \in Object /\ cfg'[n] = Append(cfg[n], o)
           /\ req[t].op = "update" => o \in Object
           /\ req[t].op = "update" /\ Singleton(cfg[n]) => cfg'[n] = <<o>>
           /\ req[t].op = "delete" => cfg'[n] = <<>>
  <1>1. /\ req[t].pc = "config" /\ cfg[n] \in Seq(Object) /\ n \in Names
        /\ req[t].op \in {"create", "update", "delete"}
        /\ req[t].op # "delete" => o \in Object
    BY DEF Write, Typed, ObjectTypeOK, Doing, Fits, Request
  <1>2. PICK s : /\ cfg' = [cfg EXCEPT ![n] = s]
                 /\ s = CASE req[t].op = "create" -> Append(cfg[n], o)
                          [] req[t].op = "update" -> IF cfg[n] = <<>> THEN cfg[n] ELSE [cfg[n] EXCEPT ![1] = o]
                          [] OTHER -> <<>>
    BY DEF Write, Written
  <1>3. s \in Seq(Object)
    <2>1. CASE req[t].op = "create"
      BY <1>1, <1>2, <2>1, AppendProperties
    <2>2. CASE req[t].op = "update" /\ cfg[n] # <<>>
      <3>1. 1 \in DOMAIN cfg[n] /\ cfg[n] \in [1..Len(cfg[n]) -> Object] /\ Len(cfg[n]) \in Nat
        BY <1>1, <2>2, LenProperties, EmptySeq
      <3>2. s \in [1..Len(cfg[n]) -> Object]
        BY <1>1, <1>2, <2>2, <3>1
      <3> QED BY <3>1, <3>2, SeqDef
    <2>3. CASE (req[t].op = "update" /\ cfg[n] = <<>>) \/ req[t].op = "delete"
      BY <1>1, <1>2, <2>3
    <2> QED BY <1>1, <2>1, <2>2, <2>3
  <1>4. ASSUME req[t].op = "update", NEW p, cfg[n] = <<p>>
        PROVE  s = <<o>>
    <2>1. s = [<<p>> EXCEPT ![1] = o]
      BY <1>2, <1>4
    <2> QED BY <2>1
  <1>5. cfg'[n] = s /\ cfg' \in [Names -> Seq(Object)] /\ \A m \in Names : m # n => cfg'[m] = cfg[m]
    BY <1>1, <1>2, <1>3 DEF Typed, ObjectTypeOK
  <1>6. req[t].op = "update" /\ Singleton(cfg[n]) => s = <<o>>
    BY <1>4 DEF Singleton
  <1> QED BY <1>1, <1>2, <1>5, <1>6

-----------------------------------------------------------------------------
LEMMA InitTyped == ASSUME ObjectAssumption, ObjectInit PROVE Typed
  <1>1. Resting \in Request /\ Fits(Resting)
    BY DEF Resting, Request, Fits
  <1> QED BY <1>1 DEF ObjectInit, Typed, ObjectTypeOK, Doing, ObjectAssumption

LEMMA ClosingTyped ==
    ASSUME Typed, NEW n \in Names, reg[n] # Nothing
    PROVE  Closing(n) \in SUBSET Object /\ closed \subseteq Closing(n) /\ Closing(n) \subseteq closed \cup {reg[n]}
  BY DEF Closing, Typed, ObjectTypeOK

LEMMA TypedStep ==
    ASSUME Typed, [ObjectNext]_objectVars
    PROVE  Typed'
  <1> DEFINE Kept == /\ kind' \in Kinds /\ reg' \in [Names -> Object \cup {Nothing}] /\ closed' \subseteq Object
                     /\ cfg' \in [Names -> Seq(Object)] /\ built' \in 0..MaxObjects /\ mixed' \subseteq Names
             Others(t) == /\ req' \in [Threads -> Request]
                          /\ \A u \in Threads : u # t => req'[u] = req[u]
  <1>1. ASSUME NEW t \in Threads, Others(t), Kept, Fits(req'[t])
        PROVE  Typed'
    <2>1. ObjectTypeOK'
      BY <1>1 DEF ObjectTypeOK
    <2>2. Doing'
      BY <1>1 DEF Typed, Doing
    <2> QED BY <2>1, <2>2 DEF Typed
  <1>2. ASSUME NEW t \in Threads, req' \in [Threads -> Request], \A u \in Threads : u # t => Beside(u),
               Kept, Fits(req'[t])
        PROVE  Typed'
    <2>1. ObjectTypeOK'
      BY <1>2 DEF ObjectTypeOK
    <2>2. \A u \in Threads : u # t => Fits(req'[u])
      <3> SUFFICES ASSUME NEW u \in Threads, u # t PROVE Fits(req'[u])
        OBVIOUS
      <3>1. Fits(req[u]) /\ Beside(u)
        BY <1>2 DEF Typed, Doing
      <3> QED BY <3>1 DEF Fits, Beside
    <2> QED BY <1>2, <2>1, <2>2 DEF Typed, Doing
  <1>3. CASE UNCHANGED objectVars
    BY <1>3 DEF objectVars, Typed, ObjectTypeOK, Doing
  <1>4. ASSUME NEW t \in Threads, Begins(t) PROVE Typed'
    <2>1. PICK op \in Ops, n \in Names : Begin(t, op, n, First(op))
      BY <1>4 DEF Begins
    <2>2. Kept
      BY <2>1, Begun DEF Begin, Typed, ObjectTypeOK
    <2> QED BY <1>2, <2>1, <2>2, Begun
  <1>5. ASSUME NEW t \in Threads, Unload(t) PROVE Typed'
    <2>1. PICK l \in {"drop", "register", "config"} : Advance(t, l) /\ (l = "register" <=> reg[req[t].name] = Nothing /\ req[t].op # "delete")
             /\ (l = "config" <=> reg[req[t].name] = Nothing /\ req[t].op = "delete")
      BY <1>5 DEF Unload
    <2>2. Kept
      <3>1. req[t].name \in Names
        BY <1>5 DEF Unload, Typed, ObjectTypeOK, Doing, Fits, Request
      <3>2. closed' \subseteq Object
        BY <1>5, <3>1, ClosingTyped DEF Unload, Typed, ObjectTypeOK
      <3> QED BY <1>5, <3>2 DEF Unload, Typed, ObjectTypeOK
    <2>3. Fits(req'[t])
      <3>1. Moved(req'[t], req[t], l)
        BY <2>1, Went
      <3>2. Fits(req[t]) /\ req[t].pc = "unload"
        BY <1>5 DEF Unload, Typed, Doing
      <3>3. req[t].op \in {"update", "delete"}
        BY <3>2 DEF Fits, Typed, ObjectTypeOK, Request
      <3>4. l = "register" => req[t].op = "update"
        BY <2>1, <3>3
      <3> QED BY <2>1, <3>1, <3>2, <3>3, <3>4 DEF Moved, Fits
    <2> QED BY <1>1, <2>1, <2>2, <2>3, Went
  <1>6. ASSUME NEW t \in Threads, Drop(t) PROVE Typed'
    <2>1. PICK l \in {"register", "config"} : Advance(t, l) /\ (l = "config" <=> req[t].op = "delete")
      BY <1>6 DEF Drop
    <2>2. Kept
      BY <1>6 DEF Drop, Typed, ObjectTypeOK
    <2>3. Fits(req'[t])
      <3>1. Moved(req'[t], req[t], l)
        BY <2>1, Went
      <3>2. Fits(req[t]) /\ req[t].pc = "drop"
        BY <1>6 DEF Drop, Typed, Doing
      <3> QED BY <2>1, <3>1, <3>2 DEF Moved, Fits
    <2> QED BY <1>1, <2>1, <2>2, <2>3, Went
  <1>7. ASSUME NEW t \in Threads, Enter(t) PROVE Typed'
    <2>1. Kept
      BY <1>7 DEF Enter, Typed, ObjectTypeOK, Request
    <2>2. CASE Advance(t, "config")
      <3>1. Fits(req'[t])
        <4>1. Moved(req'[t], req[t], "config")
          BY <2>2, Went
        <4>2. Fits(req[t]) /\ req[t].pc = "register"
          BY <1>7 DEF Enter, Typed, Doing
        <4> QED BY <4>1, <4>2 DEF Moved, Fits
      <3> QED BY <1>1, <2>1, <2>2, <3>1, Went
    <2>3. CASE Leave(t)
      BY <1>1, <2>1, <2>3, Gone
    <2> QED BY <1>7, <2>2, <2>3 DEF Enter
  <1>8. ASSUME NEW t \in Threads, Write(t) PROVE Typed'
    <2>1. Kept
      BY <1>8, Wrote DEF Write, Typed, ObjectTypeOK
    <2> QED BY <1>1, <1>8, <2>1, Gone DEF Write
  <1>9. ASSUME NEW t \in Threads, reloadConfig(t) PROVE Typed'
    <2>1. PICK f \in Files : Read(t, f)
      BY <1>9, Reread
    <2>2. /\ built' \in 0..MaxObjects
          /\ \A n \in Names : ObjectsOf(FileEntries(f), n) \in SUBSET (1..MaxObjects)
      BY <2>1, FileRead DEF Read, Object
    <2>3. \A n \in Names : InOrder(ObjectsOf(FileEntries(f), n)) \in Seq(Object)
      <3> SUFFICES ASSUME NEW n \in Names, NEW S, S = ObjectsOf(FileEntries(f), n)
                   PROVE  InOrder(S) \in Seq(Object)
        OBVIOUS
      <3>1. InOrder(S) \in Seq(S) /\ S \subseteq Object
        BY <2>2, Ordered DEF Typed, ObjectAssumption, Object
      <3> QED BY <3>1, SeqDef
    <2>4. Kept
      BY <2>1, <2>2, <2>3 DEF Read, Typed, ObjectTypeOK
    <2> QED BY <1>2, <1>9, <2>1, <2>4, Reread DEF Read
  <1>10. ASSUME NEW t \in Threads, LoadStops(t) \/ Filled(t) PROVE Typed'
    <2>1. Kept /\ Leave(t)
      BY <1>10 DEF LoadStops, Filled, Typed, ObjectTypeOK
    <2> QED BY <1>1, <2>1, Gone
  <1>11. ASSUME NEW t \in Threads, GetAll(t) PROVE Typed'
    <2>1. Kept
      BY <1>11 DEF GetAll, Typed, ObjectTypeOK
    <2>2. Fits(req'[t])
      BY <1>11, Gathered DEF GetAll, Clearing, Typed, Doing, Fits
    <2> QED BY <1>1, <1>11, <2>1, <2>2, Gathered
  <1>12. ASSUME NEW t \in Threads, ClearUnload(t) PROVE Typed'
    <2>1. PICK n \in Names : ClearsOne(t, n)
      BY <1>12, ClearedOne
    <2>2. Kept
      BY <1>12, <2>1, ClosingTyped DEF ClearUnload, ClearsOne, Typed, ObjectTypeOK
    <2>3. Fits(req'[t])
      BY <2>1 DEF ClearsOne, Clearing, Typed, Doing, Fits
    <2> QED BY <1>1, <1>12, <2>2, <2>3, ClearedOne
  <1>13. ASSUME NEW t \in Threads, ClearDrop(t) PROVE Typed'
    <2>1. Kept
      BY <1>13 DEF ClearDrop, Typed, ObjectTypeOK
    <2>2. Fits(req'[t])
      BY <1>13, ClearedOff DEF ClearDrop, Clearing, Typed, Doing, Fits
    <2> QED BY <1>1, <1>13, <2>1, <2>2, ClearedOff
  <1>14. ASSUME NEW t \in Threads, Fill(t) PROVE Typed'
    <2>1. CASE Leave(t) /\ UNCHANGED reg
      <3>1. Kept
        BY <1>14, <2>1 DEF Fill, Typed, ObjectTypeOK
      <3> QED BY <1>1, <2>1, <3>1, Gone
    <2>2. ASSUME NEW e, FillsOne(t, e) PROVE Typed'
      <3>1. Kept
        BY <1>14, <2>2 DEF Fill, FillsOne, Entry, Typed, ObjectTypeOK
      <3>2. Fits(req'[t])
        BY <2>2 DEF FillsOne, Typed, Doing, Fits
      <3> QED BY <1>1, <2>2, <3>1, <3>2 DEF FillsOne
    <2> QED BY <1>14, <2>1, <2>2, FilledOne
  <1> QED BY <1>3, <1>4, <1>5, <1>6, <1>7, <1>8, <1>9, <1>10, <1>11, <1>12, <1>13, <1>14, Steps

-----------------------------------------------------------------------------
(* Owners of objects.                                                       *)

\* A step that registers nothing and only closes what is registered.
LEMMA NoneIsNoObject == ASSUME Typed PROVE Nothing \notin Object
  BY DEF Typed, ObjectAssumption, Object

LEMMA OwnersKept ==
    ASSUME Typed, Typed', Owners, built <= built',
           \A n \in Names : reg'[n] \in {reg[n], Nothing},
           \A o \in closed' : o \in closed \/ Registered(o),
           \A o \in Object, u \in Threads : Pending(u, o)' => Pending(u, o),
           \A u \in Threads : Distinct(req'[u].todo)
    PROVE  Owners'
  <1>1. /\ \A o \in Object : o \in Nat /\ built \in Nat /\ built' \in Nat
        /\ \A o \in Object : Registered(o)' => Registered(o)
    BY NoneIsNoObject DEF Typed, ObjectTypeOK, Object, Registered
  <1>2. \A m, n \in Names : reg'[m] = reg'[n] /\ reg'[m] # Nothing => m = n
    BY DEF Owners
  <1>3. \A t, u \in Threads : \A o \in Object : Pending(t, o)' /\ Pending(u, o)' => t = u
    BY DEF Owners
  <1>4. \A t \in Threads : \A o \in Object : Pending(t, o)' => ~Registered(o)' /\ o \notin closed'
    BY <1>1 DEF Owners
  <1>5. \A o \in Object : Registered(o)' \/ o \in closed' \/ (\E t \in Threads : Pending(t, o)') => o <= built'
    <2>1. \A o \in Object : Registered(o) \/ o \in closed \/ (\E t \in Threads : Pending(t, o)) => o <= built
      BY DEF Owners
    <2> QED BY <1>1, <2>1
  <1> QED BY <1>2, <1>3, <1>4, <1>5 DEF Owners

\* A thread registers an object of its own.
LEMMA OwnersEnter ==
    ASSUME Typed, Typed', Owners, NEW t \in Threads, NEW n \in Names, NEW o \in Object, Pending(t, o),
           reg' = [reg EXCEPT ![n] = o], UNCHANGED <<closed, built>>,
           \A p \in Object, u \in Threads : Pending(u, p)' => Pending(u, p) /\ (u = t => p # o),
           \A u \in Threads : Distinct(req'[u].todo)
    PROVE  Owners'
  <1>1. reg'[n] = o /\ \A m \in Names : m # n => reg'[m] = reg[m]
    BY DEF Typed, ObjectTypeOK
  <1>2. ~Registered(o) /\ o \notin closed /\ o <= built
    BY DEF Owners
  <1>3. \A p \in Object : Registered(p)' => Registered(p) \/ p = o
    BY <1>1 DEF Registered
  <1>4. \A m, k \in Names : reg'[m] = reg'[k] /\ reg'[m] # Nothing => m = k
    BY <1>1, <1>2 DEF Owners, Registered
  <1>5. \A u, v \in Threads : \A p \in Object : Pending(u, p)' /\ Pending(v, p)' => u = v
    BY DEF Owners
  <1>6. \A u \in Threads : \A p \in Object : Pending(u, p)' => ~Registered(p)' /\ p \notin closed'
    <2> SUFFICES ASSUME NEW u \in Threads, NEW p \in Object, Pending(u, p)'
                 PROVE  ~Registered(p)' /\ p \notin closed'
      OBVIOUS
    <2>1. Pending(u, p) /\ p # o
      BY DEF Owners
    <2> QED BY <1>3, <2>1 DEF Owners
  <1>7. \A p \in Object : Registered(p)' \/ p \in closed' \/ (\E u \in Threads : Pending(u, p)') => p <= built'
    BY <1>2, <1>3 DEF Owners
  <1> QED BY <1>4, <1>5, <1>6, <1>7 DEF Owners

\* A thread builds objects.
LEMMA OwnersBuild ==
    ASSUME Typed, Typed', Owners, NEW t \in Threads, UNCHANGED <<reg, closed>>, built <= built',
           \A p \in Object, u \in Threads : Pending(u, p)' /\ u # t => Pending(u, p),
           \A p \in Object : Pending(t, p)' => built < p /\ p <= built',
           \A u \in Threads : Distinct(req'[u].todo)
    PROVE  Owners'
  <1>1. \A o \in Object : o \in Nat /\ built \in Nat /\ built' \in Nat
    BY DEF Typed, ObjectTypeOK, Object
  <1>2. \A p \in Object : Registered(p)' <=> Registered(p)
    BY DEF Registered
  <1>3. \A p \in Object : Registered(p) \/ p \in closed \/ (\E u \in Threads : Pending(u, p)) => p <= built
    BY DEF Owners
  <1>4. \A p \in Object : Pending(t, p)' => ~Registered(p) /\ p \notin closed /\ \A u \in Threads : ~Pending(u, p)
    BY <1>1, <1>3
  <1>5. \A u, v \in Threads : \A p \in Object : Pending(u, p)' /\ Pending(v, p)' => u = v
    BY <1>4 DEF Owners
  <1>6. \A u \in Threads : \A p \in Object : Pending(u, p)' => ~Registered(p)' /\ p \notin closed'
    BY <1>2, <1>4 DEF Owners
  <1>7. \A p \in Object : Registered(p)' \/ p \in closed' \/ (\E u \in Threads : Pending(u, p)') => p <= built'
    BY <1>1, <1>2, <1>3
  <1> QED BY <1>5, <1>6, <1>7 DEF Owners

\* Threads that do not take the step have what they had.
LEMMA PendingElse ==
    ASSUME Typed, Owners, NEW u \in Threads, req'[u] = req[u] \/ Beside(u)
    PROVE  Distinct(req'[u].todo) /\ \A o : Pending(u, o)' => Pending(u, o)
  BY DEF Owners, Pending, Beside

LEMMA PendingMoved ==
    ASSUME Typed, Owners, NEW t \in Threads, NEW l, Moved(req'[t], req[t], l),
           l \in {"unload", "drop", "register"} => req[t].pc \in {"unload", "drop", "register"}
    PROVE  Distinct(req'[t].todo) /\ \A o : Pending(t, o)' => Pending(t, o)
  BY DEF Owners, Pending, Moved

LEMMA PendingClearing ==
    ASSUME Typed, Owners, NEW t \in Threads, NEW l \in {"clear", "clear drop"}, NEW g, NEW n,
           Clearing(req'[t], req[t], l, g, n)
    PROVE  Distinct(req'[t].todo) /\ \A o : Pending(t, o)' => Pending(t, o)
  BY DEF Owners, Pending, Clearing

LEMMA PendingGone ==
    ASSUME Typed, Owners, NEW t \in Threads, Leave(t)
    PROVE  \A u \in Threads : Distinct(req'[u].todo) /\ \A o \in Object : Pending(u, o)' => Pending(u, o)
  <1>1. /\ \A u \in Threads : u # t => req'[u] = req[u]
        /\ req'[t].pc = "idle" /\ req'[t].todo = <<>>
    BY Gone
  <1>2. Distinct(req'[t].todo) /\ \A o : ~Pending(t, o)'
    BY <1>1 DEF Distinct, Pending
  <1> QED BY <1>1, <1>2, PendingElse

\* The objects of a file are new, and all different.
LEMMA PendingRead ==
    ASSUME Typed, NEW t \in Threads, NEW f \in Files, Read(t, f)
    PROVE  /\ Distinct(req'[t].todo) /\ built <= built'
           /\ \A o \in Object : Pending(t, o)' => built < o /\ o <= built'
  <1>1. /\ DOMAIN FileEntries(f) = 1..Len(f) /\ Len(f) \in Nat /\ built \in Nat
        /\ \A k \in 1..Len(f) : FileEntries(f)[k].obj = built + k
    BY FileRead DEF Read, Typed, ObjectTypeOK
  <1>2. req'[t].todo = FileEntries(f) /\ req'[t].pc = "getall" /\ built' = built + Len(f)
    BY DEF Read
  <1> QED BY <1>1, <1>2 DEF Distinct, Pending

\* Filling takes the first object from what is left of the file.
LEMMA PendingFill ==
    ASSUME Typed, Owners, NEW t \in Threads, NEW e, FillsOne(t, e)
    PROVE  /\ Distinct(req'[t].todo) /\ Pending(t, e.obj) /\ e.obj \in Object /\ e.name \in Names
           /\ \A o : Pending(t, o)' => Pending(t, o) /\ o # e.obj
  <1>1. req[t].todo \in Seq(Entry) /\ req[t].todo # <<>> /\ req'[t].todo = Tail(req[t].todo) /\ e = Head(req[t].todo)
        /\ req'[t].pc = "clear" /\ Distinct(req[t].todo) /\ e \in Entry
    BY DEF FillsOne, Typed, ObjectTypeOK, Request, Owners
  <1>2. PICK s : s = req[t].todo
    OBVIOUS
  <1>3. /\ Len(s) \in Nat /\ Len(s) >= 1 /\ DOMAIN s = 1..Len(s) /\ e = s[1]
        /\ DOMAIN Tail(s) = 1..(Len(s) - 1) /\ \A k \in 1..(Len(s) - 1) : Tail(s)[k] = s[k + 1]
    BY <1>1, <1>2, HeadTailProperties, LenProperties, EmptySeq
  <1>4. \A k \in DOMAIN Tail(s) : k \in Nat /\ k + 1 \in DOMAIN s /\ Tail(s)[k] = s[k + 1] /\ k + 1 # 1 /\ 1 \in DOMAIN s
    BY <1>3
  <1>5. Distinct(Tail(s)) /\ \A k \in DOMAIN Tail(s) : Tail(s)[k].obj # e.obj
    <2>1. \A j, k \in DOMAIN s : s[j].obj = s[k].obj => j = k
      BY <1>1, <1>2 DEF Distinct
    <2>2. \A j, k \in DOMAIN Tail(s) : Tail(s)[j].obj = Tail(s)[k].obj => j + 1 = k + 1
      BY <1>4, <2>1
    <2> QED BY <1>3, <1>4, <2>1, <2>2 DEF Distinct
  <1>6. Pending(t, e.obj)
    BY <1>2, <1>3 DEF Pending
  <1>7. \A o : Pending(t, o)' => Pending(t, o) /\ o # e.obj
    BY <1>1, <1>2, <1>4, <1>5 DEF Pending
  <1> QED BY <1>1, <1>2, <1>5, <1>6, <1>7 DEF Entry

LEMMA InitOwners == ASSUME Typed, ObjectInit PROVE Owners /\ ClosedLeaves
  BY NoneIsNoObject DEF ObjectInit, Owners, ClosedLeaves, Pending, Registered, Distinct, Resting

LEMMA OwnersStep ==
    ASSUME Typed, Typed', Owners, [ObjectNext]_objectVars
    PROVE  Owners'
  <1> DEFINE Less == /\ \A o \in Object, u \in Threads : Pending(u, o)' => Pending(u, o)
                     /\ \A u \in Threads : Distinct(req'[u].todo)
             Others(t) == \A u \in Threads : u # t => req'[u] = req[u]
  <1>0. built \in Nat /\ built <= built
    BY DEF Typed, ObjectTypeOK
  <1>1. ASSUME NEW t \in Threads, Others(t), NEW l, Moved(req'[t], req[t], l),
               l \in {"unload", "drop", "register"} => req[t].pc \in {"unload", "drop", "register"}
        PROVE  Less
    BY <1>1, PendingElse, PendingMoved
  <1>2. ASSUME NEW t \in Threads, Others(t), NEW l \in {"clear", "clear drop"}, NEW g, NEW n,
               Clearing(req'[t], req[t], l, g, n)
        PROVE  Less
    BY <1>2, PendingElse, PendingClearing
  <1>3. ASSUME NEW t \in Threads, Leave(t) PROVE Less
    BY <1>3, PendingGone
  <1>4. CASE UNCHANGED objectVars
    BY <1>4 DEF objectVars, Owners, Pending, Registered, Distinct
  <1>5. ASSUME NEW t \in Threads, Begins(t) PROVE Owners'
    <2>1. PICK op \in Ops, n \in Names : Begin(t, op, n, First(op))
      BY <1>5 DEF Begins
    <2>2. /\ \A u \in Threads : u # t => Beside(u)
          /\ req'[t].todo = <<>> /\ built \in Nat
          /\ req'[t].new = (IF op = "delete" THEN Nothing ELSE built + 1)
          /\ built' = (IF op = "delete" THEN built ELSE built + 1)
      BY <2>1, Begun DEF Typed, ObjectTypeOK
    <2>3. \A p \in Object : Pending(t, p)' => built < p /\ p <= built'
      BY <2>2, NoneIsNoObject DEF Pending
    <2>4. Distinct(req'[t].todo)
      BY <2>2 DEF Distinct
    <2>5. \A u \in Threads : u # t => Distinct(req'[u].todo) /\ \A o : Pending(u, o)' => Pending(u, o)
      BY <2>2, PendingElse
    <2>6. UNCHANGED <<reg, closed>> /\ built <= built'
      BY <2>1, <2>2 DEF Begin
    <2> QED BY <2>3, <2>4, <2>5, <2>6, OwnersBuild
  <1>6. ASSUME NEW t \in Threads, Unload(t) PROVE Owners'
    <2>1. PICK l \in {"drop", "register", "config"} : Advance(t, l)
      BY <1>6 DEF Unload
    <2>2. Less
      BY <1>1, <1>6, <2>1, Went DEF Unload
    <2>3. req[t].name \in Names
      BY <1>6 DEF Unload, Typed, ObjectTypeOK, Doing, Fits, Request
    <2>4. \A o \in closed' : o \in closed \/ Registered(o)
      BY <1>6, <2>3, ClosingTyped DEF Unload, Registered
    <2> QED BY <1>0, <1>6, <2>2, <2>4, OwnersKept DEF Unload
  <1>7. ASSUME NEW t \in Threads, Drop(t) PROVE Owners'
    <2>1. PICK l \in {"register", "config"} : Advance(t, l)
      BY <1>7 DEF Drop
    <2>2. Less
      BY <1>1, <1>7, <2>1, Went DEF Drop
    <2>3. \A n \in Names : reg'[n] \in {reg[n], Nothing}
      BY <1>7 DEF Drop, Typed, ObjectTypeOK
    <2> QED BY <1>0, <1>7, <2>2, <2>3, OwnersKept DEF Drop
  <1>8. ASSUME NEW t \in Threads, Enter(t) PROVE Owners'
    <2>1. CASE Leave(t) /\ UNCHANGED reg
      <3>1. Less
        BY <1>3, <2>1
      <3> QED BY <1>0, <1>8, <2>1, <3>1, OwnersKept DEF Enter
    <2>2. CASE Advance(t, "config") /\ reg' = [reg EXCEPT ![req[t].name] = req[t].new]
      <3>1. /\ Moved(req'[t], req[t], "config") /\ req[t].todo = <<>> /\ req[t].pc = "register"
            /\ \A u \in Threads : u # t => req'[u] = req[u]
            /\ req[t].name \in Names /\ req[t].new \in Object
        BY <1>8, <2>2, Went DEF Enter, Typed, ObjectTypeOK, Doing, Fits, Request
      <3>2. Less
        BY <1>1, <3>1
      <3>3. Pending(t, req[t].new)
        BY <3>1 DEF Pending
      <3>4. \A p : ~Pending(t, p)'
        BY <3>1 DEF Pending, Moved
      <3>5. PICK o, n : o = req[t].new /\ n = req[t].name
        OBVIOUS
      <3>6. \A p \in Object, u \in Threads : Pending(u, p)' => Pending(u, p) /\ (u = t => p # o)
        BY <3>2, <3>4
      <3>7. reg' = [reg EXCEPT ![n] = o] /\ UNCHANGED <<closed, built>> /\ \A u \in Threads : Distinct(req'[u].todo)
        BY <1>8, <2>2, <3>2, <3>5 DEF Enter
      <3>8. n \in Names /\ o \in Object /\ Pending(t, o)
        BY <3>1, <3>3, <3>5
      <3> QED BY <3>6, <3>7, <3>8, OwnersEnter
    <2> QED BY <1>8, <2>1, <2>2 DEF Enter
  <1>9. ASSUME NEW t \in Threads, Write(t) \/ LoadStops(t) \/ Filled(t) PROVE Owners'
    <2>1. Leave(t) /\ UNCHANGED <<reg, closed, built>>
      BY <1>9 DEF Write, LoadStops, Filled
    <2>2. Less
      BY <1>3, <2>1
    <2> QED BY <1>0, <2>1, <2>2, OwnersKept
  <1>10. ASSUME NEW t \in Threads, reloadConfig(t) PROVE Owners'
    <2>1. PICK f \in Files : Read(t, f)
      BY <1>10, Reread
    <2>2. \A u \in Threads : u # t => Distinct(req'[u].todo) /\ \A o : Pending(u, o)' => Pending(u, o)
      BY <2>1, PendingElse DEF Read
    <2> QED BY <2>1, <2>2, PendingRead, OwnersBuild DEF Read
  <1>11. ASSUME NEW t \in Threads, GetAll(t) PROVE Owners'
    <2>1. Less
      BY <1>2, <1>11, Gathered
    <2> QED BY <1>0, <1>11, <2>1, OwnersKept DEF GetAll
  <1>12. ASSUME NEW t \in Threads, ClearUnload(t) PROVE Owners'
    <2>1. PICK n \in Names : ClearsOne(t, n)
      BY <1>12, ClearedOne
    <2>2. Less
      BY <1>2, <1>12, <2>1, ClearedOne DEF ClearsOne
    <2>3. \A o \in closed' : o \in closed \/ Registered(o)
      BY <2>1, ClosingTyped DEF ClearsOne, Registered
    <2> QED BY <1>0, <1>12, <2>2, <2>3, OwnersKept DEF ClearUnload
  <1>13. ASSUME NEW t \in Threads, ClearDrop(t) PROVE Owners'
    <2>1. Less
      BY <1>2, <1>13, ClearedOff
    <2>2. \A n \in Names : reg'[n] \in {reg[n], Nothing}
      BY <1>13 DEF ClearDrop, Typed, ObjectTypeOK
    <2> QED BY <1>0, <1>13, <2>1, <2>2, OwnersKept DEF ClearDrop
  <1>14. ASSUME NEW t \in Threads, Fill(t) PROVE Owners'
    <2>1. CASE Leave(t) /\ UNCHANGED reg
      <3>1. Less
        BY <1>3, <2>1
      <3> QED BY <1>0, <1>14, <2>1, <3>1, OwnersKept DEF Fill
    <2>2. ASSUME NEW e, FillsOne(t, e) PROVE Owners'
      <3>1. PICK o, n : o = e.obj /\ n = e.name
        OBVIOUS
      <3>2. /\ Distinct(req'[t].todo) /\ Pending(t, o) /\ o \in Object /\ n \in Names
            /\ \A p : Pending(t, p)' => Pending(t, p) /\ p # o
        BY <2>2, <3>1, PendingFill
      <3>3. \A u \in Threads : u # t => Distinct(req'[u].todo) /\ \A p : Pending(u, p)' => Pending(u, p)
        BY <2>2, PendingElse DEF FillsOne
      <3>4. reg' = [reg EXCEPT ![n] = o] /\ UNCHANGED <<closed, built>>
        BY <1>14, <2>2, <3>1 DEF Fill, FillsOne
      <3>5. /\ \A p \in Object, u \in Threads : Pending(u, p)' => Pending(u, p) /\ (u = t => p # o)
            /\ \A u \in Threads : Distinct(req'[u].todo)
        BY <3>2, <3>3
      <3> QED BY <3>2, <3>4, <3>5, OwnersEnter
    <2> QED BY <1>14, <2>1, <2>2, FilledOne
  <1> QED BY <1>4, <1>5, <1>6, <1>7, <1>8, <1>9, <1>10, <1>11, <1>12, <1>13, <1>14, Steps

-----------------------------------------------------------------------------
(* Closed objects leave.                                                    *)

Leaver(t, n) == req[t].pc \in {"drop", "clear drop"} /\ req[t].name = n

\* A step of t after which every name is as it was, and not its to remove, or
\* has no closed object, or is its to remove.
LEMMA LeavesKept ==
    ASSUME ClosedLeaves, NEW t \in Threads,
           \A u \in Threads : u # t => req'[u].pc = req[u].pc /\ req'[u].name = req[u].name,
           \A n \in Names : \/ reg'[n] = reg[n] /\ ~Leaver(t, n) /\ (reg[n] \in closed' => reg[n] \in closed)
                            \/ reg'[n] \notin closed'
                            \/ Leaver(t, n)'
    PROVE  ClosedLeaves'
  <1> SUFFICES ASSUME NEW n \in Names, reg'[n] \in closed'
               PROVE  \E u \in Threads : Leaver(u, n)'
    BY DEF ClosedLeaves, Leaver
  <1>1. CASE Leaver(t, n)'
    BY <1>1
  <1>2. CASE reg'[n] = reg[n] /\ ~Leaver(t, n) /\ reg[n] \in closed
    <2>1. PICK u \in Threads : Leaver(u, n)
      BY <1>2 DEF ClosedLeaves, Leaver
    <2>2. u # t
      BY <1>2, <2>1
    <2> QED BY <2>1, <2>2 DEF Leaver
  <1> QED BY <1>1, <1>2

\* Registering an object of one's own.
LEMMA LeavesEnter ==
    ASSUME Typed, Owners, ClosedLeaves, NEW t \in Threads, NEW n \in Names, NEW o \in Object, Pending(t, o),
           reg'[n] = o, \A m \in Names : m # n => reg'[m] = reg[m],
           closed' = closed, req[t].pc \notin {"drop", "clear drop"},
           \A u \in Threads : u # t => req'[u] = req[u]
    PROVE  ClosedLeaves'
  <1>1. o \notin closed
    BY DEF Owners
  <1>2. \A m \in Names : \/ reg'[m] = reg[m] /\ ~Leaver(t, m) /\ (reg[m] \in closed' => reg[m] \in closed)
                         \/ reg'[m] \notin closed'
    BY <1>1 DEF Leaver
  <1> QED BY <1>2, LeavesKept

\* Removing a name.
LEMMA LeavesDrop ==
    ASSUME Typed, ClosedLeaves, NEW t \in Threads, NEW n \in Names, n = req[t].name,
           reg'[n] = Nothing, \A m \in Names : m # n => reg'[m] = reg[m], closed' = closed,
           \A u \in Threads : u # t => req'[u] = req[u]
    PROVE  ClosedLeaves'
  <1>1. Nothing \notin closed
    BY NoneIsNoObject DEF Typed, ObjectTypeOK
  <1>2. \A m \in Names : \/ reg'[m] = reg[m] /\ ~Leaver(t, m) /\ (reg[m] \in closed' => reg[m] \in closed)
                         \/ reg'[m] \notin closed'
    BY <1>1 DEF Leaver
  <1> QED BY <1>2, LeavesKept

LEMMA LeavesStep ==
    ASSUME Typed, Typed', Owners, ClosedLeaves, [ObjectNext]_objectVars
    PROVE  ClosedLeaves'
  <1>1. CASE UNCHANGED objectVars
    BY <1>1 DEF objectVars, ClosedLeaves
  <1>2. ASSUME NEW t \in Threads, UNCHANGED <<reg, closed>>, req[t].pc \notin {"drop", "clear drop"},
               \A u \in Threads : u # t => req'[u] = req[u] \/ Beside(u)
        PROVE  ClosedLeaves'
    BY <1>2, LeavesKept DEF Leaver, Beside
  \* n's object is closed, and n is t's to remove.
  <1>3. ASSUME NEW t \in Threads, NEW n \in Names, UNCHANGED reg, reg[n] # Nothing, closed' = Closing(n),
               Leaver(t, n)', req[t].pc \notin {"drop", "clear drop"},
               \A u \in Threads : u # t => req'[u] = req[u]
        PROVE  ClosedLeaves'
    <2>1. \A m \in Names : m # n => (reg[m] \in closed' => reg[m] \in closed)
      BY <1>3, ClosingTyped DEF Owners
    <2> QED BY <1>3, <2>1, LeavesKept DEF Leaver
  <1>4. ASSUME NEW t \in Threads, Begins(t) PROVE ClosedLeaves'
    <2>1. PICK op \in Ops, n \in Names : Begin(t, op, n, First(op))
      BY <1>4 DEF Begins
    <2>2. req[t].pc \notin {"drop", "clear drop"} /\ \A u \in Threads : u # t => Beside(u)
      BY <2>1, Begun DEF Busy
    <2> QED BY <1>2, <2>1, <2>2 DEF Begin
  <1>5. ASSUME NEW t \in Threads, Unload(t) PROVE ClosedLeaves'
    <2>1. PICK l \in {"drop", "register", "config"} : Advance(t, l) /\ (reg[req[t].name] # Nothing => l = "drop")
      BY <1>5 DEF Unload
    <2>2. req[t].name \in Names /\ req[t].pc = "unload"
      BY <1>5 DEF Unload, Typed, ObjectTypeOK, Doing, Fits, Request
    <2>3. CASE reg[req[t].name] = Nothing
      BY <1>2, <1>5, <2>1, <2>2, <2>3, Went DEF Unload
    <2>4. CASE reg[req[t].name] # Nothing
      <3>1. PICK n \in Names : n = req[t].name
        BY <2>2
      <3>2. Leaver(t, n)'
        BY <2>1, <2>4, <3>1, Went DEF Leaver, Moved
      <3> QED BY <1>3, <1>5, <2>1, <2>2, <2>4, <3>1, <3>2, Went DEF Unload
    <2> QED BY <2>3, <2>4
  <1>6. ASSUME NEW t \in Threads, Drop(t) PROVE ClosedLeaves'
    <2>1. PICK l \in {"register", "config"} : Advance(t, l)
      BY <1>6 DEF Drop
    <2>2. PICK n \in Names : n = req[t].name
      BY <1>6 DEF Drop, Typed, ObjectTypeOK, Doing, Fits, Request
    <2>3. reg'[n] = Nothing /\ \A m \in Names : m # n => reg'[m] = reg[m]
      BY <1>6, <2>2 DEF Drop, Typed, ObjectTypeOK
    <2> QED BY <1>6, <2>1, <2>2, <2>3, LeavesDrop, Went DEF Drop
  <1>7. ASSUME NEW t \in Threads, Enter(t) PROVE ClosedLeaves'
    <2>1. CASE Leave(t) /\ UNCHANGED reg
      BY <1>2, <1>7, <2>1, Gone DEF Enter
    <2>2. CASE Advance(t, "config") /\ reg' = [reg EXCEPT ![req[t].name] = req[t].new]
      <3>1. /\ req[t].pc = "register" /\ req[t].name \in Names /\ req[t].new \in Object
            /\ \A u \in Threads : u # t => req'[u] = req[u]
        BY <1>7, <2>2, Went DEF Enter, Typed, ObjectTypeOK, Doing, Fits, Request
      <3>2. PICK o, n : o = req[t].new /\ n = req[t].name
        OBVIOUS
      <3>3. Pending(t, o)
        BY <3>1, <3>2 DEF Pending
      <3>4. reg'[n] = o /\ \A m \in Names : m # n => reg'[m] = reg[m]
        BY <2>2, <3>1, <3>2 DEF Typed, ObjectTypeOK
      <3> QED BY <1>7, <3>1, <3>2, <3>3, <3>4, LeavesEnter DEF Enter
    <2> QED BY <1>7, <2>1, <2>2 DEF Enter
  <1>8. ASSUME NEW t \in Threads, Write(t) \/ LoadStops(t) \/ Filled(t) PROVE ClosedLeaves'
    <2>1. Leave(t) /\ UNCHANGED <<reg, closed>> /\ req[t].pc \notin {"drop", "clear drop"}
      BY <1>8 DEF Write, LoadStops, Filled
    <2> QED BY <1>2, <2>1, Gone
  <1>9. ASSUME NEW t \in Threads, reloadConfig(t) PROVE ClosedLeaves'
    <2>1. PICK f \in Files : Read(t, f)
      BY <1>9, Reread
    <2> QED BY <1>2, <2>1 DEF Read, Busy
  <1>10. ASSUME NEW t \in Threads, GetAll(t) PROVE ClosedLeaves'
    BY <1>2, <1>10, Gathered DEF GetAll
  <1>11. ASSUME NEW t \in Threads, ClearUnload(t) PROVE ClosedLeaves'
    <2>1. PICK n \in Names : ClearsOne(t, n)
      BY <1>11, ClearedOne
    <2>2. UNCHANGED reg /\ req[t].pc \notin {"drop", "clear drop"} /\ \A u \in Threads : u # t => req'[u] = req[u]
      BY <1>11, ClearedOne DEF ClearUnload
    <2>3. CASE closed' = closed
      BY <1>2, <2>2, <2>3
    <2>4. CASE reg[n] # Nothing /\ closed' = Closing(n) /\ Leaver(t, n)'
      BY <1>3, <2>2, <2>4
    <2> QED BY <2>1, <2>3, <2>4 DEF ClearsOne, Clearing, Leaver
  <1>12. ASSUME NEW t \in Threads, ClearDrop(t) PROVE ClosedLeaves'
    <2>1. PICK n \in Names : n = req[t].name
      BY <1>12, ClearedOff
    <2>2. reg'[n] = Nothing /\ \A m \in Names : m # n => reg'[m] = reg[m]
      BY <1>12, <2>1 DEF ClearDrop, Typed, ObjectTypeOK
    <2>3. closed' = closed /\ \A u \in Threads : u # t => req'[u] = req[u]
      BY <1>12, ClearedOff DEF ClearDrop
    <2> QED BY <2>1, <2>2, <2>3, LeavesDrop
  <1>13. ASSUME NEW t \in Threads, Fill(t) PROVE ClosedLeaves'
    <2>1. CASE Leave(t) /\ UNCHANGED reg
      BY <1>2, <1>13, <2>1, Gone DEF Fill
    <2>2. ASSUME NEW e, FillsOne(t, e) PROVE ClosedLeaves'
      <3>1. PICK o, n : o = e.obj /\ n = e.name
        OBVIOUS
      <3>2. Pending(t, o) /\ o \in Object /\ n \in Names
        BY <2>2, <3>1, PendingFill
      <3>3. /\ reg' = [reg EXCEPT ![n] = o] /\ UNCHANGED closed /\ req[t].pc \notin {"drop", "clear drop"}
            /\ \A u \in Threads : u # t => req'[u] = req[u]
        BY <1>13, <2>2, <3>1 DEF Fill, FillsOne
      <3>4. reg'[n] = o /\ \A m \in Names : m # n => reg'[m] = reg[m]
        BY <3>2, <3>3 DEF Typed, ObjectTypeOK
      <3> QED BY <3>2, <3>3, <3>4, LeavesEnter
    <2> QED BY <1>13, <2>1, <2>2, FilledOne
  <1> QED BY <1>1, <1>4, <1>5, <1>6, <1>7, <1>8, <1>9, <1>10, <1>11, <1>12, <1>13, Steps

-----------------------------------------------------------------------------
(* One request at a time.                                                   *)

LEMMA InitApart == ASSUME Typed, ObjectInit PROVE Apart /\ Stages /\ Loading
  <1>1. \A t \in Threads : ~Busy(t)
    BY DEF ObjectInit, Busy, Resting
  <1>2. \A n \in Names : Touching(n) = {} /\ Agree(n)
    BY <1>1 DEF ObjectInit, Touching, Agree
  <1> QED BY <1>1, <1>2 DEF Apart, Stages, Staged, Loading, Reloading

\* Another request has not come in between: the threads at the names that are
\* not mixed are those of before, or fewer.
LEMMA ApartKept ==
    ASSUME Typed, Apart, mixed' = mixed,
           \A u \in Threads : /\ Busy(u)' => /\ Busy(u) /\ req'[u].op = req[u].op
                                             /\ req'[u].op # "reload" => req'[u].name = req[u].name
                              /\ Reloading(u)' /\ req'[u].alone => req[u].alone
    PROVE  Apart'
  <1>1. \A u \in Threads : Reloading(u)' => Reloading(u)
    BY DEF Reloading, Busy
  <1>2. \A n \in Names : \A u \in Touching(n)' : u \in Touching(n)
    BY DEF Touching
  <1> QED BY <1>1, <1>2 DEF Apart

\* The request of the thread that takes a step ends or goes on.
GoesOn(t) ==
    /\ \A u \in Threads : u # t => req'[u] = req[u]
    /\ \/ req'[t].pc = "idle"
       \/ /\ Busy(t) /\ req'[t].op = req[t].op /\ req'[t].alone = req[t].alone
          /\ req'[t].op # "reload" => req'[t].name = req[t].name

LEMMA GoingOn ==
    ASSUME Typed, NEW t \in Threads,
           \/ Unload(t) \/ Drop(t) \/ Enter(t) \/ Write(t) \/ LoadStops(t) \/ GetAll(t)
           \/ ClearUnload(t) \/ ClearDrop(t) \/ Fill(t) \/ Filled(t)
    PROVE  GoesOn(t)
  <1>1. ASSUME Leave(t) PROVE GoesOn(t)
    BY <1>1, Gone DEF GoesOn
  <1>2. ASSUME NEW l \in {"drop", "register", "config"}, Advance(t, l), Busy(t) PROVE GoesOn(t)
    BY <1>2, Went DEF GoesOn, Moved
  <1>3. ASSUME NEW l, NEW g, NEW m, Clearing(req'[t], req[t], l, g, m), req[t].pc \in {"getall", "clear", "clear drop"},
               \A u \in Threads : u # t => req'[u] = req[u]
        PROVE  GoesOn(t)
    BY <1>3 DEF GoesOn, Clearing, Busy, Typed, Doing, Fits
  <1>4. CASE Unload(t) \/ Drop(t) \/ Enter(t)
    BY <1>1, <1>2, <1>4 DEF Unload, Drop, Enter, Busy
  <1>5. CASE Write(t) \/ LoadStops(t) \/ Filled(t)
    BY <1>1, <1>5 DEF Write, LoadStops, Filled
  <1>6. CASE GetAll(t)
    BY <1>3, <1>6, Gathered DEF GetAll
  <1>7. CASE ClearUnload(t)
    <2>1. PICK n \in Names : ClearsOne(t, n)
      BY <1>7, ClearedOne
    <2>2. req[t].pc \in {"getall", "clear", "clear drop"} /\ \A u \in Threads : u # t => req'[u] = req[u]
      BY <1>7, ClearedOne DEF ClearUnload
    <2> QED BY <1>3, <2>1, <2>2 DEF ClearsOne
  <1>8. CASE ClearDrop(t)
    BY <1>3, <1>8, ClearedOff DEF ClearDrop
  <1>9. CASE Fill(t)
    <2>1. CASE Leave(t)
      BY <1>1, <2>1
    <2>2. ASSUME NEW e, FillsOne(t, e) PROVE GoesOn(t)
      BY <2>2 DEF FillsOne, GoesOn, Busy, Typed, Doing, Fits
    <2> QED BY <1>9, <2>1, <2>2, FilledOne
  <1> QED BY <1>4, <1>5, <1>6, <1>7, <1>8, <1>9

LEMMA ApartStep ==
    ASSUME Typed, Apart, [ObjectNext]_objectVars
    PROVE  Apart'
  <1>1. ASSUME NEW t \in Threads, GoesOn(t), mixed' = mixed PROVE Apart'
    BY <1>1, ApartKept DEF GoesOn, Busy, Reloading
  <1>2. CASE UNCHANGED objectVars
    BY <1>2, ApartKept DEF objectVars, Busy, Reloading
  <1>3. ASSUME NEW t \in Threads, Begins(t) PROVE Apart'
    <2>1. PICK op \in Ops, n \in Names : Begin(t, op, n, First(op))
      BY <1>3 DEF Begins
    <2>2. /\ \A u \in Threads : u # t => Beside(u)
          /\ req'[t].op # "reload" /\ req'[t].name = n /\ ~Busy(t)
      BY <2>1, Begun DEF Ops
    <2>3. mixed' = (IF Touching(n) = {} THEN mixed ELSE mixed \cup {n}) /\ mixed \subseteq Names
      BY <2>1 DEF Begin, Typed, ObjectTypeOK
    <2>4. \A u \in Threads : Reloading(u)' => Reloading(u) /\ ~req'[u].alone
      BY <2>2 DEF Reloading, Busy, Beside
    <2>5. \A m \in Names : \A u \in Touching(m)' : u \in Touching(m) \/ (u = t /\ m = n)
      BY <2>2 DEF Touching, Reloading, Busy, Beside
    <2>6. \A u \in Threads : Reloading(u)' => mixed' = Names
      BY <2>3, <2>4 DEF Apart
    <2>7. \A m \in Names \ mixed' : \A u, v \in Touching(m)' : u = v
      BY <2>3, <2>5 DEF Apart
    <2> QED BY <2>4, <2>6, <2>7 DEF Apart
  <1>4. ASSUME NEW t \in Threads, reloadConfig(t) PROVE Apart'
    <2>1. PICK f \in Files : Read(t, f)
      BY <1>4, Reread
    <2>2. /\ \A u \in Threads : u # t => Beside(u)
          /\ mixed' = Names /\ (req'[t].alone => \A v \in Threads : ~Busy(v))
      BY <2>1 DEF Read
    <2>3. \A u \in Threads : Reloading(u)' /\ req'[u].alone => u = t
      BY <2>2 DEF Reloading, Busy, Beside
    <2>4. \A u \in Threads : u # t /\ req'[t].alone => ~Busy(u)'
      BY <2>2 DEF Busy, Beside
    <2> QED BY <2>2, <2>3, <2>4 DEF Apart
  <1>5. ASSUME NEW t \in Threads, Filled(t) PROVE Apart'
    <2>1. CASE req[t].alone
      <3>1. Reloading(t)
        BY <1>5 DEF Filled, Reloading, Busy, Typed, Doing, Fits
      <3>2. \A u \in Threads : ~Busy(u)'
        BY <1>5, <2>1, <3>1, Gone DEF Filled, Apart, Busy
      <3> QED BY <3>2 DEF Apart, Reloading, Touching
    <2>2. CASE ~req[t].alone
      BY <1>1, <1>5, <2>2, GoingOn DEF Filled
    <2> QED BY <2>1, <2>2
  <1>6. ASSUME NEW t \in Threads,
               \/ Unload(t) \/ Drop(t) \/ Enter(t) \/ Write(t) \/ LoadStops(t) \/ GetAll(t)
               \/ ClearUnload(t) \/ ClearDrop(t) \/ Fill(t)
        PROVE  Apart'
    <2>1. mixed' = mixed
      BY <1>6 DEF Unload, Drop, Enter, Write, LoadStops, GetAll, ClearUnload, ClearDrop, Fill
    <2> QED BY <1>1, <1>6, <2>1, GoingOn
  <1> QED BY <1>2, <1>3, <1>4, <1>5, <1>6, Steps

-----------------------------------------------------------------------------
(* Where the requests at a name have come to.                               *)

LEMMA StagedElse ==
    ASSUME NEW n, reg'[n] = reg[n], cfg'[n] = cfg[n], \A u \in Threads : u \in Touching(n)' <=> u \in Touching(n),
           \A u \in Touching(n) : req'[u].pc = req[u].pc /\ req'[u].op = req[u].op /\ req'[u].new = req[u].new,
           Staged(n)
    PROVE  Staged(n)'
  <1>1. Touching(n)' = Touching(n)
    BY DEF Touching
  <1>2. Agree(n) => Agree(n)'
    BY DEF Agree
  <1>3. \A u \in Touching(n) : Stage(u, n) => Stage(u, n)'
    <2> SUFFICES ASSUME NEW u \in Touching(n), Stage(u, n) PROVE Stage(u, n)'
      OBVIOUS
    <2>1. Replaced(u, n) => Replaced(u, n)'
      BY DEF Replaced
    <2> QED BY <1>2, <2>1 DEF Stage
  <1> QED BY <1>1, <1>2, <1>3 DEF Staged

\* A step of a request, alone at its name n.
LEMMA StagesOwn ==
    ASSUME Typed, Apart, Stages, NEW t \in Threads, GoesOn(t), mixed' = mixed, ~Reloading(t), Busy(t),
           NEW n \in Names, n = req[t].name,
           \A m \in Names : m # n => reg'[m] = reg[m] /\ cfg'[m] = cfg[m],
           Stage(t, n) => IF req'[t].pc = "idle" THEN Agree(n)' ELSE Stage(t, n)'
    PROVE  Stages'
  <1> SUFFICES ASSUME NEW m \in Names, m \notin mixed PROVE Staged(m)'
    BY DEF Stages
  <1>1. CASE m # n
    <2>1. \A u \in Threads : u \in Touching(m)' <=> u \in Touching(m)
      BY <1>1 DEF GoesOn, Touching, Reloading, Busy
    <2>2. t \notin Touching(m)
      BY <1>1 DEF Touching, Reloading
    <2>3. \A u \in Touching(m) : req'[u] = req[u]
      BY <2>2 DEF GoesOn, Touching
    <2> QED BY <1>1, <2>1, <2>3, StagedElse DEF Stages
  <1>2. CASE m = n
    <2>1. t \in Touching(n)
      BY DEF Touching
    <2>2. \A u \in Touching(n) : u = t
      BY <1>2, <2>1 DEF Apart
    <2>3. Stage(t, n)
      BY <1>2, <2>1 DEF Stages, Staged
    <2>4. \A u \in Touching(n)' : u = t
      BY <2>2 DEF Touching, GoesOn, Busy
    <2>5. CASE req'[t].pc = "idle"
      <3>1. Touching(n)' = {}
        BY <2>4, <2>5 DEF Touching, Busy
      <3> QED BY <1>2, <2>3, <2>5, <3>1 DEF Staged
    <2>6. CASE req'[t].pc # "idle"
      <3>1. t \in Touching(n)'
        BY <2>6 DEF Touching, Busy, GoesOn, Reloading
      <3> QED BY <1>2, <2>3, <2>4, <2>6, <3>1 DEF Staged
    <2> QED BY <2>5, <2>6
  <1> QED BY <1>1, <1>2

LEMMA StagesStep ==
    ASSUME Typed, Typed', Apart, Stages, Loading, [ObjectNext]_objectVars
    PROVE  Stages'
  <1>1. ASSUME NEW t \in Threads, Reloading(t), mixed' = mixed PROVE Stages'
    BY <1>1 DEF Apart, Stages
  <1>2. CASE UNCHANGED objectVars
    BY <1>2 DEF objectVars, Stages, Staged, Stage, Agree, Replaced, Touching, Busy, Reloading
  <1>3. ASSUME NEW t \in Threads, Begins(t) PROVE Stages'
    <2>1. PICK op \in Ops, n \in Names : Begin(t, op, n, First(op)) /\ (op = "create" <=> reg[n] = Nothing)
      BY <1>3 DEF Begins
    <2>2. /\ \A u \in Threads : u # t => Beside(u)
          /\ req'[t].op = op /\ req'[t].name = n /\ req'[t].pc = First(op) /\ ~Busy(t)
      BY <2>1, Begun
    <2>3. mixed' = (IF Touching(n) = {} THEN mixed ELSE mixed \cup {n}) /\ UNCHANGED <<reg, cfg>>
      BY <2>1 DEF Begin
    <2> SUFFICES ASSUME NEW m \in Names, m \notin mixed' PROVE Staged(m)'
      BY DEF Stages
    <2>4. m \notin mixed /\ Staged(m)
      BY <2>3 DEF Stages
    <2>5. CASE m # n
      <3>1. \A u \in Threads : u \in Touching(m)' <=> u \in Touching(m)
        BY <2>2, <2>5 DEF Touching, Reloading, Busy, Beside, Ops
      <3>2. \A u \in Touching(m) : req'[u].pc = req[u].pc /\ req'[u].op = req[u].op /\ req'[u].new = req[u].new
        BY <2>2 DEF Touching, Beside
      <3> QED BY <2>3, <2>4, <3>1, <3>2, StagedElse
    <2>6. CASE m = n
      <3>1. Touching(n) = {} /\ Agree(n)
        BY <2>3, <2>4, <2>6 DEF Staged
      <3>2. \A u \in Threads : u \in Touching(n)' <=> u = t
        BY <2>2, <3>1 DEF Touching, Reloading, Busy, Beside, Ops, First
      <3>3. Agree(n)'
        BY <2>3, <3>1 DEF Agree
      <3>4. CASE op = "create"
        <4>1. reg'[n] = Nothing /\ cfg'[n] = <<>> /\ req'[t].pc = "register"
          BY <2>1, <2>2, <2>3, <3>1, <3>4 DEF Agree, First
        <4>2. Replaced(t, n)'
          BY <2>2, <3>4, <4>1 DEF Replaced
        <4>3. Stage(t, n)'
          BY <4>1, <4>2 DEF Stage
        <4> QED BY <2>6, <3>2, <4>3 DEF Staged, Touching
      <3>5. CASE op # "create"
        <4>1. reg'[n] # Nothing /\ req'[t].pc = "unload"
          BY <2>1, <2>2, <2>3, <3>5 DEF First
        <4>2. Stage(t, n)'
          BY <3>3, <4>1 DEF Stage
        <4> QED BY <2>6, <3>2, <4>2 DEF Staged, Touching
      <3> QED BY <3>4, <3>5
    <2> QED BY <2>5, <2>6
  <1>4. ASSUME NEW t \in Threads, Unload(t) \/ Drop(t) \/ Enter(t) \/ Write(t) PROVE Stages'
    <2>1. /\ req[t].pc \in {"unload", "drop", "register", "config"} /\ mixed' = mixed /\ GoesOn(t)
      BY <1>4, GoingOn DEF Unload, Drop, Enter, Write
    <2>2. /\ Busy(t) /\ ~Reloading(t) /\ req[t].name \in Names /\ req[t].op \in Ops
          /\ (req[t].new = Nothing <=> req[t].op = "delete") /\ req[t].new \in Object \cup {Nothing}
      BY <2>1 DEF Busy, Reloading, Ops, Typed, ObjectTypeOK, Doing, Fits, Request
    <2>3. PICK n \in Names, o \in Object \cup {Nothing} : n = req[t].name /\ o = req[t].new
      BY <2>2
    <2>4. \A m \in Names : m # n => reg'[m] = reg[m] /\ cfg'[m] = cfg[m]
      <3>1. CASE Unload(t) \/ Drop(t) \/ Enter(t)
        BY <2>3, <3>1 DEF Unload, Drop, Enter, Typed, ObjectTypeOK
      <3>2. CASE Write(t)
        BY <2>3, <3>2, Wrote DEF Write
      <3> QED BY <1>4, <3>1, <3>2
    <2>5. ASSUME Stage(t, n)
          PROVE  IF req'[t].pc = "idle" THEN Agree(n)' ELSE Stage(t, n)'
      <3>1. ASSUME NEW l \in {"drop", "register", "config"}, Advance(t, l)
            PROVE  req'[t].pc = l /\ req'[t].op = req[t].op /\ req'[t].new = o /\ l # "idle"
        BY <2>3, <3>1, Went DEF Moved
      <3>2. CASE Unload(t)
        <4>1. reg[n] # Nothing /\ Agree(n) /\ UNCHANGED <<reg, cfg>> /\ Advance(t, "drop")
          BY <2>3, <2>5, <3>2 DEF Stage, Unload
        <4> QED BY <3>1, <4>1 DEF Stage, Agree
      <3>3. CASE Drop(t)
        <4>1. /\ reg[n] # Nothing /\ reg[n] \in Object /\ cfg[n] = <<reg[n]>> /\ UNCHANGED cfg /\ reg'[n] = Nothing
              /\ Advance(t, IF req[t].op = "delete" THEN "config" ELSE "register") /\ req[t].pc = "drop"
          BY <2>3, <2>5, <3>3 DEF Stage, Agree, Drop, Typed, ObjectTypeOK
        <4>2. req[t].op # "create"
          BY <4>1 DEF Typed, Doing, Fits
        <4>3. CASE req[t].op = "update"
          <5>1. Replaced(t, n)'
            BY <3>1, <4>1, <4>3 DEF Replaced
          <5> QED BY <3>1, <4>1, <4>3, <5>1 DEF Stage
        <4>4. CASE req[t].op = "delete"
          <5>1. Replaced(t, n)'
            BY <3>1, <4>1, <4>4 DEF Replaced
          <5> QED BY <2>2, <2>3, <3>1, <4>1, <4>4, <5>1 DEF Stage
        <4> QED BY <2>2, <4>2, <4>3, <4>4 DEF Ops
      <3>4. CASE Enter(t)
        <4>1. reg[n] = Nothing /\ Replaced(t, n) /\ UNCHANGED cfg /\ reg'[n] = o /\ Advance(t, "config")
          BY <2>3, <2>5, <3>4 DEF Stage, Enter, Typed, ObjectTypeOK
        <4>2. Replaced(t, n)'
          BY <3>1, <4>1 DEF Replaced
        <4> QED BY <3>1, <4>1, <4>2 DEF Stage
      <3>5. CASE Write(t)
        <4>1. reg[n] = o /\ Replaced(t, n) /\ reg' = reg /\ req'[t].pc = "idle"
          BY <2>3, <2>5, <3>5, Gone DEF Stage, Write
        <4>2. CASE req[t].op = "create"
          <5>1. cfg[n] = <<>> /\ cfg'[n] = Append(cfg[n], o) /\ o # Nothing
            BY <2>2, <2>3, <3>5, <4>1, <4>2, Wrote DEF Replaced
          <5> QED BY <4>1, <5>1 DEF Agree
        <4>3. CASE req[t].op = "update"
          <5>1. Singleton(cfg[n])
            BY <4>1, <4>3 DEF Replaced, Singleton
          <5>2. cfg'[n] = <<o>>
            BY <2>3, <3>5, <4>3, <5>1, Wrote
          <5>3. o # Nothing
            BY <2>2, <2>3, <4>3
          <5> QED BY <4>1, <5>2, <5>3 DEF Agree
        <4>4. CASE req[t].op = "delete"
          <5>1. cfg'[n] = <<>> /\ o = Nothing
            BY <2>2, <2>3, <3>5, <4>4, Wrote
          <5> QED BY <4>1, <5>1 DEF Agree
        <4> QED BY <2>2, <4>2, <4>3, <4>4 DEF Ops
      <3> QED BY <1>4, <3>2, <3>3, <3>4, <3>5
    <2> QED BY <2>1, <2>2, <2>3, <2>4, <2>5, StagesOwn
  <1>5. ASSUME NEW t \in Threads, reloadConfig(t) PROVE Stages'
    BY <1>5, Reread DEF Read, Stages
  <1>6. ASSUME NEW t \in Threads, LoadStops(t) \/ GetAll(t) \/ ClearUnload(t) \/ ClearDrop(t) \/ Fill(t) \/ Filled(t)
        PROVE  Reloading(t)
    BY <1>6 DEF LoadStops, GetAll, ClearUnload, ClearDrop, Fill, Filled, Reloading, Busy, Typed, Doing, Fits
  <1>7. ASSUME NEW t \in Threads, LoadStops(t) \/ GetAll(t) \/ ClearUnload(t) \/ ClearDrop(t) \/ Fill(t)
        PROVE  Stages'
    BY <1>1, <1>6, <1>7 DEF LoadStops, GetAll, ClearUnload, ClearDrop, Fill
  <1>8. ASSUME NEW t \in Threads, Filled(t) PROVE Stages'
    <2>1. Reloading(t) /\ req[t].todo = <<>> /\ req[t].gone = {} /\ req[t].pc = "clear" /\ UNCHANGED <<reg, cfg>>
      BY <1>6, <1>8 DEF Filled
    <2>2. CASE req[t].alone
      <3>1. \A u \in Threads : ~Busy(u)'
        BY <1>8, <2>1, <2>2, Gone DEF Filled, Apart, Busy
      <3>2. \A n \in Names : Touching(n)' = {}
        BY <3>1 DEF Touching
      <3>3. \A n \in Names : ToLoad(t, n) = {} /\ (FromFile(t, n) <=> reg[n] # Nothing)
        BY <2>1 DEF ToLoad, FromFile
      <3>4. \A n \in Names : Agree(n)'
        BY <2>1, <2>2, <3>3 DEF Loading, Loads, Agree
      <3> QED BY <3>2, <3>4 DEF Stages, Staged
    <2>3. CASE ~req[t].alone
      BY <1>1, <1>8, <2>1, <2>3 DEF Filled
    <2> QED BY <2>2, <2>3
  <1> QED BY <1>2, <1>3, <1>4, <1>5, <1>7, <1>8, Steps

-----------------------------------------------------------------------------
(* A reload that is alone.                                                  *)

\* Steps that leave the configuration and what is to be loaded of n.
LEMMA LoadsKept ==
    ASSUME NEW t, NEW n, Loads(t, n), cfg'[n] = cfg[n], req'[t].todo = req[t].todo,
           \/ ~FromFile(t, n) /\ ~FromFile(t, n)'
           \/ FromFile(t, n) /\ FromFile(t, n)' /\ reg'[n] = reg[n]
    PROVE  Loads(t, n)'
  <1>1. ToLoad(t, n)' = ToLoad(t, n)
    BY DEF ToLoad
  <1> QED BY <1>1 DEF Loads

LEMMA LoadsFill ==
    ASSUME Typed, NEW t \in Threads, NEW e, FillsOne(t, e), cfg' = cfg, NEW n \in Names, Loads(t, n)
    PROVE  Loads(t, n)'
  <1>1. /\ req[t].todo \in Seq(Entry) /\ req[t].todo # <<>> /\ req'[t].todo = Tail(req[t].todo) /\ e = Head(req[t].todo)
        /\ e \in Entry /\ e.name \in Names /\ e.obj \in Object /\ e.obj # Nothing
    BY NoneIsNoObject DEF FillsOne, Typed, ObjectTypeOK, Request, Entry
  <1>2. PICK s : s = req[t].todo
    OBVIOUS
  <1>3. /\ Len(s) \in Nat /\ Len(s) >= 1 /\ DOMAIN s = 1..Len(s) /\ e = s[1]
        /\ DOMAIN Tail(s) = 1..(Len(s) - 1) /\ \A k \in 1..(Len(s) - 1) : Tail(s)[k] = s[k + 1]
    BY <1>1, <1>2, HeadTailProperties, LenProperties, EmptySeq
  <1>4. \A k \in DOMAIN Tail(s) : k \in Nat /\ k + 1 \in DOMAIN s /\ Tail(s)[k] = s[k + 1]
    BY <1>3
  <1>5. \A k \in DOMAIN s : k \in Nat /\ (k # 1 => k - 1 \in DOMAIN Tail(s) /\ Tail(s)[k - 1] = s[k])
    <2>0. \A k \in DOMAIN s : k \in Nat
      BY <1>3
    <2> SUFFICES ASSUME NEW k \in DOMAIN s, k # 1
                 PROVE  k - 1 \in DOMAIN Tail(s) /\ Tail(s)[k - 1] = s[k]
      BY <2>0
    <2>1. k \in Nat /\ k >= 2 /\ k <= Len(s)
      <3>1. PICK m \in Nat : m = Len(s) /\ k \in 1..m
        BY <1>3
      <3> QED BY <3>1
    <2>2. PICK j \in Nat : j + 1 = k
      BY <2>1
    <2>3. j \in 1..(Len(s) - 1) /\ j = k - 1
      BY <1>3, <2>1, <2>2
    <2> QED BY <1>3, <2>2, <2>3
  <1>6. /\ \A k : k \in ToLoad(t, n) <=> k \in DOMAIN s /\ s[k].name = n
        /\ \A k : k \in ToLoad(t, n)' <=> k \in DOMAIN Tail(s) /\ Tail(s)[k].name = n
    BY <1>1, <1>2 DEF ToLoad
  <1>7. /\ reg[e.name] = Nothing /\ reg'[e.name] = e.obj /\ \A m \in Names : m # e.name => reg'[m] = reg[m]
        /\ req[t].gone = {} /\ req'[t].gone = {} /\ req[t].pc = "clear" /\ req'[t].pc = "clear"
    BY <1>1 DEF FillsOne, Typed, ObjectTypeOK
  <1>8. CASE n = e.name
    <2>1. ~FromFile(t, n) /\ FromFile(t, n)'
      BY <1>1, <1>7, <1>8 DEF FromFile
    <2>2. ASSUME ToLoad(t, n)' = {} PROVE cfg'[n] = <<reg'[n]>>
      <3>1. 1 \in ToLoad(t, n)
        BY <1>3, <1>6, <1>8
      <3>2. \A k \in ToLoad(t, n) : k = 1
        <4> SUFFICES ASSUME NEW k \in ToLoad(t, n), k # 1 PROVE FALSE
          OBVIOUS
        <4>1. k - 1 \in DOMAIN Tail(s) /\ Tail(s)[k - 1].name = n
          BY <1>5, <1>6
        <4> QED BY <1>6, <2>2, <4>1
      <3>3. ToLoad(t, n) = {1}
        BY <3>1, <3>2
      <3>4. cfg[n] = <<req[t].todo[1].obj>>
        BY <2>1, <3>1, <3>3 DEF Loads
      <3> QED BY <1>2, <1>3, <1>7, <1>8, <3>4
    <2> QED BY <2>1, <2>2 DEF Loads
  <1>9. CASE n # e.name
    <2>1. /\ FromFile(t, n)' <=> FromFile(t, n)
          /\ reg'[n] = reg[n]
      BY <1>7, <1>9 DEF FromFile
    <2>2. \A k \in ToLoad(t, n)' : k \in Nat /\ k + 1 \in ToLoad(t, n) /\ Tail(s)[k] = s[k + 1]
      BY <1>4, <1>6
    <2>3. \A k \in ToLoad(t, n) : k \in Nat /\ k - 1 \in ToLoad(t, n)'
      BY <1>3, <1>5, <1>6, <1>9
    <2>4. ToLoad(t, n)' = {} => ToLoad(t, n) = {}
      BY <2>3
    <2>5. ASSUME NEW k \in ToLoad(t, n)', ToLoad(t, n)' = {k}, ~FromFile(t, n)
          PROVE  cfg'[n] = <<req'[t].todo[k].obj>>
      <3>1. \A j \in ToLoad(t, n) : j = k + 1
        BY <2>2, <2>3, <2>5
      <3>2. k + 1 \in ToLoad(t, n) /\ ToLoad(t, n) = {k + 1}
        BY <2>2, <2>5, <3>1
      <3>3. cfg[n] = <<req[t].todo[k + 1].obj>>
        BY <2>5, <3>2 DEF Loads
      <3> QED BY <1>1, <1>2, <2>2, <2>5, <3>3
    <2> QED BY <2>1, <2>4, <2>5 DEF Loads
  <1> QED BY <1>8, <1>9

LEMMA LoadsRead ==
    ASSUME Typed, NEW t \in Threads, NEW f \in Files, Read(t, f), NEW n \in Names
    PROVE  Loads(t, n)'
  <1>1. PICK S : S = ObjectsOf(FileEntries(f), n)
    OBVIOUS
  <1>2. S \in SUBSET (1..MaxObjects) /\ MaxObjects \in Nat
    BY <1>1, FileRead DEF Read, Object, Typed, ObjectAssumption
  <1>3. /\ S = {} => InOrder(S) = <<>>
        /\ \A o : S = {o} => InOrder(S) = <<o>>
    BY <1>2, Ordered
  <1>4. cfg'[n] = InOrder(S) /\ req'[t].todo = FileEntries(f) /\ ~FromFile(t, n)'
    BY <1>1 DEF Read, FromFile
  <1>5. S = {req'[t].todo[k].obj : k \in ToLoad(t, n)'}
    BY <1>1, <1>4 DEF ObjectsOf, ToLoad
  <1> QED BY <1>3, <1>4, <1>5 DEF Loads

LEMMA LoadingOwn ==
    ASSUME Apart, Loading, NEW t \in Threads, Busy(t), \A u \in Threads : u # t => req'[u] = req[u],
           Reloading(t)' /\ req'[t].alone => \A n \in Names : Loads(t, n)'
    PROVE  Loading'
  <1> SUFFICES ASSUME NEW u \in Threads, Reloading(u)', req'[u].alone, NEW n \in Names
               PROVE  Loads(u, n)'
    BY DEF Loading
  <1>1. u = t
    BY DEF Apart, Reloading, Busy
  <1> QED BY <1>1

LEMMA LoadingStep ==
    ASSUME Typed, Apart, Loading, [ObjectNext]_objectVars
    PROVE  Loading'
  <1>1. CASE UNCHANGED objectVars
    BY <1>1 DEF objectVars, Loading, Loads, FromFile, ToLoad, Busy, Reloading
  <1>2. ASSUME NEW t \in Threads, Begins(t) PROVE Loading'
    <2>1. PICK op \in Ops, n \in Names : Begin(t, op, n, First(op))
      BY <1>2 DEF Begins
    <2>2. \A u \in Threads : ~(Reloading(u)' /\ req'[u].alone)
      BY <2>1, Begun DEF Beside, Busy, Reloading, Ops
    <2> QED BY <2>2 DEF Loading
  <1>3. ASSUME NEW t \in Threads, reloadConfig(t) PROVE Loading'
    <2>1. PICK f \in Files : Read(t, f)
      BY <1>3, Reread
    <2>2. \A u \in Threads : Reloading(u)' /\ req'[u].alone => u = t
      BY <2>1 DEF Read, Beside, Busy, Reloading
    <2>3. \A n \in Names : Loads(t, n)'
      BY <2>1, LoadsRead
    <2> QED BY <2>2, <2>3 DEF Loading
  <1>4. ASSUME NEW t \in Threads, Unload(t) \/ Drop(t) \/ Enter(t) \/ Write(t) PROVE Loading'
    <2>1. req[t].pc \in {"unload", "drop", "register", "config"} /\ GoesOn(t)
      BY <1>4, GoingOn DEF Unload, Drop, Enter, Write
    <2>2. Busy(t) /\ ~Reloading(t)'
      BY <2>1 DEF Busy, Reloading, GoesOn, Typed, Doing, Fits
    <2> QED BY <2>1, <2>2, LoadingOwn DEF GoesOn
  <1>5. ASSUME NEW t \in Threads, LoadStops(t) \/ Filled(t) PROVE Loading'
    <2>1. req[t].pc \in {"getall", "clear"} /\ Leave(t)
      BY <1>5 DEF LoadStops, Filled
    <2>2. Busy(t) /\ ~Reloading(t)' /\ \A u \in Threads : u # t => req'[u] = req[u]
      BY <2>1, Gone DEF Busy, Reloading
    <2> QED BY <2>2, LoadingOwn
  <1>6. ASSUME NEW t \in Threads, req[t].pc \in {"getall", "clear", "clear drop"}, GoesOn(t),
               Reloading(t)' /\ req[t].alone => \A n \in Names : Loads(t, n) => Loads(t, n)'
        PROVE  Loading'
    <2>1. Busy(t) /\ Reloading(t)
      BY <1>6 DEF Busy, Reloading, Typed, Doing, Fits
    <2>2. Reloading(t)' => req'[t].alone = req[t].alone
      BY <1>6 DEF GoesOn, Reloading, Busy
    <2>3. Reloading(t)' /\ req'[t].alone => \A n \in Names : Loads(t, n)'
      BY <1>6, <2>1, <2>2 DEF Loading
    <2> QED BY <1>6, <2>1, <2>3, LoadingOwn DEF GoesOn
  <1>7. ASSUME NEW t \in Threads, GetAll(t) PROVE Loading'
    <2>1. /\ Clearing(req'[t], req[t], "clear", {n \in Names : reg[n] # Nothing}, req[t].name)
          /\ req[t].pc = "getall" /\ UNCHANGED <<reg, cfg>> /\ GoesOn(t)
      BY <1>7, Gathered, GoingOn DEF GetAll
    <2>2. \A n \in Names : ~FromFile(t, n) /\ ~FromFile(t, n)' /\ req'[t].todo = req[t].todo
      BY <2>1 DEF FromFile, Clearing
    <2>3. \A n \in Names : Loads(t, n) => Loads(t, n)'
      BY <2>1, <2>2, LoadsKept
    <2> QED BY <1>6, <2>1, <2>3
  <1>8. ASSUME NEW t \in Threads, ClearUnload(t) PROVE Loading'
    <2>1. PICK n \in Names : ClearsOne(t, n)
      BY <1>8, ClearedOne
    <2>2. UNCHANGED <<reg, cfg>> /\ GoesOn(t) /\ req[t].pc = "clear"
      BY <1>8, GoingOn DEF ClearUnload
    <2>3. \A m \in Names : (FromFile(t, m)' <=> FromFile(t, m)) /\ req'[t].todo = req[t].todo
      BY <2>1, <2>2 DEF ClearsOne, Clearing, FromFile
    <2>4. \A m \in Names : Loads(t, m) => Loads(t, m)'
      BY <2>2, <2>3, LoadsKept
    <2> QED BY <1>6, <2>2, <2>4
  <1>9. ASSUME NEW t \in Threads, ClearDrop(t) PROVE Loading'
    <2>1. PICK n \in Names : n = req[t].name
      BY <1>9, ClearedOff
    <2>2. /\ Clearing(req'[t], req[t], "clear", req[t].gone \ {n}, n) /\ n \in req[t].gone
          /\ GoesOn(t) /\ req[t].pc = "clear drop" /\ UNCHANGED cfg
      BY <1>9, <2>1, ClearedOff, GoingOn DEF ClearDrop, Typed, Doing, Fits
    <2>3. reg'[n] = Nothing /\ \A m \in Names : m # n => reg'[m] = reg[m]
      BY <1>9, <2>1 DEF ClearDrop, Typed, ObjectTypeOK
    <2>4. ~FromFile(t, n) /\ ~FromFile(t, n)' /\ req'[t].todo = req[t].todo
      BY <2>2, <2>3 DEF FromFile, Clearing
    <2>5. \A m \in Names : m # n => (FromFile(t, m)' <=> FromFile(t, m))
      BY <2>2, <2>3 DEF FromFile, Clearing
    <2>6. \A m \in Names : Loads(t, m) => Loads(t, m)'
      BY <2>2, <2>3, <2>4, <2>5, LoadsKept
    <2> QED BY <1>6, <2>2, <2>6
  <1>10. ASSUME NEW t \in Threads, Fill(t) PROVE Loading'
    <2>1. GoesOn(t) /\ req[t].pc = "clear" /\ cfg' = cfg
      BY <1>10, GoingOn DEF Fill
    <2>2. CASE Leave(t)
      BY <1>6, <2>1, <2>2, Gone DEF Reloading, Busy
    <2>3. ASSUME NEW e, FillsOne(t, e) PROVE Loading'
      BY <1>6, <2>1, <2>3, LoadsFill
    <2> QED BY <1>10, <2>2, <2>3, FilledOne
  <1> QED BY <1>1, <1>2, <1>3, <1>4, <1>5, <1>7, <1>8, <1>9, <1>10, Steps

-----------------------------------------------------------------------------
LEMMA Initially == ObjectAssumption /\ ObjectInit => IInv
  BY InitTyped, InitOwners, InitApart DEF IInv

LEMMA Invariant == IInv /\ [ObjectNext]_objectVars => IInv'
  <1> SUFFICES ASSUME IInv, [ObjectNext]_objectVars PROVE IInv'
    OBVIOUS
  <1>1. Typed /\ Owners /\ ClosedLeaves /\ Apart /\ Stages /\ Loading
    BY DEF IInv
  <1>2. Typed'
    BY <1>1, TypedStep
  <1> QED BY <1>1, <1>2, OwnersStep, LeavesStep, ApartStep, StagesStep, LoadingStep DEF IInv

\* The registry, the configuration and the requests of the web API keep their
\* types, whatever the number of requests, names and files to reload.
THEOREM ObjectTypes == ObjectAssumption /\ ObjectSpec => []ObjectTypeOK
  <1>1. IInv => ObjectTypeOK
    BY DEF IInv, Typed
  <1> QED BY <1>1, Initially, Invariant, PTL DEF ObjectSpec

\* However requests and reloads of named objects overlap, the registry holds no
\* object whose Close was called, unless the call that closed it is about to
\* remove the name.
THEOREM NoClosedObject == ObjectAssumption /\ ObjectSpec => []ClosedLeaves
  <1>1. IInv => ClosedLeaves
    BY DEF IInv
  <1> QED BY <1>1, Initially, Invariant, PTL DEF ObjectSpec

\* Registry and configuration agree on every name whose requests never
\* overlapped and that no unfinished reload touched, although no lock is held
\* from the one to the other: what other names do makes no difference.
THEOREM NamesAgree == ObjectAssumption /\ ObjectSpec => []Consistent
  <1>1. IInv => Consistent
    BY DEF IInv, Stages, Staged, Agree, Consistent
  <1> QED BY <1>1, Initially, Invariant, PTL DEF ObjectSpec
=============================================================================
