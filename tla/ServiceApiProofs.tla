-------------------------- MODULE ServiceApiProofs --------------------------
(* Requests for the services of a node: a name whose requests did not       *)
(* overlap or fail half-way looks the same in the registry and in the       *)
(* configuration, and every open service has an owner, for any number of    *)
(* goroutines, services, addresses and lists.                               *)
EXTENDS ServiceApi, FiniteSetTheorems, SequenceTheorems, TLAPS

-----------------------------------------------------------------------------
(* What the requests are doing.                                             *)

Distinct(l) == \A j, k \in DOMAIN l : l[j].name = l[k].name => j = k

\* Service s was built for an item.
For(s, it) == s \in DOMAIN svcs /\ svcs[s].name = it.name /\ svcs[s].addr = it.addr

\* The steps of every operation, and what a request has in its hands.
Steps(r) ==
    /\ r.op = "none" <=> r.pc = "idle"
    /\ r.op = "create" => r.pc \in {"check", "enter", "config"}
    /\ r.op \in {"update", "resume"} => r.pc \in {"close", "drop", "parse", "register", "config"}
    /\ r.op = "delete" => r.pc \in {"close", "drop", "config"}
    /\ r.op = "pause" => r.pc = "config"
    /\ Distinct(r.items)
    /\ r.op = "none" \/ r.batch \/ Len(r.items) = 1
    /\ r.i \in 1..(Len(r.items) + 1)
    /\ r.pc \in {"drop", "parse", "register"} => r.i \in DOMAIN r.items
    /\ r.pc = "config" /\ r.op # "pause" => r.i = Len(r.items) + 1

Hands(r) ==
    /\ r.pc = "check" => Len(r.made) = r.i - 1
    /\ r.op = "create" /\ r.pc # "check" => Len(r.made) = Len(r.items)
    /\ r.op # "create" => r.made = <<>>
    /\ r.new # NoService <=> r.pc = "register"
    /\ r.new # NoService => For(r.new, r.items[r.i])
    /\ \A k \in DOMAIN r.made : For(r.made[k], r.items[k])

Doing == \A t \in Workers : Steps(work[t]) /\ Hands(work[t])
Named == \A n \in Services : registry[n] # NoService => registry[n] \in DOMAIN svcs /\ svcs[registry[n]].name = n
Typed == ServiceTypeOK /\ Doing /\ Named

-----------------------------------------------------------------------------
(* What a request that is alone at a name has made of it.                   *)

Apart == \A n \in Services \ crossed : \A t, u \in WorkersAt(n) : t = u

Absent(n) == registry[n] = NoService /\ entries[n] = <<>>
Kept(n) == registry[n] # NoService /\ Agrees(n)
Up(s, c) == svcs[s].open /\ svcs[s].served = c

\* Request r has come to item k, which names n.
Creating(r, k, n) ==
    /\ r.pc = "check" => IF k < r.i THEN Absent(n) /\ Up(r.made[k], 0) ELSE Agrees(n)
    /\ r.pc = "enter" => /\ entries[n] = <<>> /\ Up(r.made[k], 0)
                         /\ registry[n] = IF k < r.i THEN r.made[k] ELSE NoService
    /\ r.pc = "config" => entries[n] = <<>> /\ Up(r.made[k], 1) /\ registry[n] = r.made[k]

Ahead(r, k) == k > r.i \/ (k = r.i /\ r.pc = "close")
ClosedOnly(r, k, n) == k = r.i /\ r.pc = "drop" => registry[n] # NoService /\ ~svcs[registry[n]].open

Deleting(r, k, n) ==
    /\ k < r.i => registry[n] = NoService
    /\ ClosedOnly(r, k, n)
    /\ Ahead(r, k) => Kept(n)

Replacing(r, k, n) ==
    /\ Len(entries[n]) = 1
    /\ r.op = "resume" => entries[n][1].addr = r.items[k].addr
    /\ k < r.i => registry[n] # NoService /\ Up(registry[n], 1) /\ svcs[registry[n]].addr = r.items[k].addr
    /\ k = r.i /\ r.pc \in {"parse", "register"} => registry[n] = NoService
    /\ k = r.i /\ r.pc = "register" => Up(r.new, 0)
    /\ ClosedOnly(r, k, n)
    /\ Ahead(r, k) => Kept(n)

Stage(r, k, n) ==
    /\ r.op = "create" => Creating(r, k, n)
    /\ r.op = "delete" => Deleting(r, k, n)
    /\ r.op \in {"update", "resume"} => Replacing(r, k, n)
    /\ r.op = "pause" => Kept(n)

Staged(r) == \A k \in DOMAIN r.items : r.items[k].name \notin crossed => Stage(r, k, r.items[k].name)
Stages == \A t \in Workers : Staged(work[t])

IInv == Typed /\ Apart /\ Undisturbed /\ Stages /\ Owned

-----------------------------------------------------------------------------
(* Lists of items.                                                          *)

LEMMA ItemsOf ==
    ASSUME NEW l \in Seq(Item)
    PROVE  /\ Len(l) \in Nat /\ DOMAIN l = 1..Len(l)
           /\ \A k \in DOMAIN l : k \in Nat /\ l[k] \in Item /\ l[k].name \in Services /\ l[k].addr \in Addrs
           /\ \A n : n \in NamesIn(l) <=> \E k \in DOMAIN l : l[k].name = n
           /\ NamesIn(l) \subseteq Services
  <1>1. Len(l) \in Nat /\ DOMAIN l = 1..Len(l) /\ \A k \in DOMAIN l : l[k] \in Item
    BY LenProperties, ElementOfSeq
  <1>2. \A k \in DOMAIN l : k \in Nat /\ l[k].name \in Services /\ l[k].addr \in Addrs
    BY <1>1 DEF Item
  <1> QED BY <1>1, <1>2 DEF NamesIn

LEMMA ListsOf ==
    ASSUME NEW l \in Lists
    PROVE  l \in Seq(Item) /\ Distinct(l)
  BY ServiceAssumption DEF Distinct

\* Some of the items of a list, in their order.
LEMMA SomeItems ==
    ASSUME NEW l \in Seq(Item), Distinct(l), NEW S \in SUBSET DOMAIN l, NEW m \in Only(l, S)
    PROVE  /\ m \in Seq(Item) /\ Distinct(m)
           /\ \A k \in DOMAIN m : \E j \in S : m[k] = l[j]
  <1>1. PICK s \in Places(S) : m = [k \in DOMAIN s |-> l[s[k]]]
    BY DEF Only
  <1>2. Cardinality(S) \in Nat
    <2>1. IsFiniteSet(1..Len(l)) /\ DOMAIN l = 1..Len(l)
      BY ItemsOf, FS_Interval
    <2> QED BY <2>1, FS_Subset, FS_CardinalityType
  <1>3. PICK c \in Nat : c = Cardinality(S)
    BY <1>2
  <1>4. s \in [1..c -> S] /\ \A j, k \in 1..c : j < k => s[j] < s[k]
    BY <1>1, <1>3 DEF Places
  <1>5. \A k \in 1..c : s[k] \in S /\ s[k] \in DOMAIN l /\ s[k] \in Nat /\ l[s[k]] \in Item
    BY <1>4, ItemsOf
  <1>6. m \in [1..c -> Item] /\ \A k \in 1..c : m[k] = l[s[k]]
    BY <1>1, <1>4, <1>5
  <1>7. m \in Seq(Item) /\ DOMAIN m = 1..c
    BY <1>6, SeqDef
  <1>8. ASSUME NEW j \in 1..c, NEW k \in 1..c, m[j].name = m[k].name PROVE j = k
    <2>1. s[j] = s[k]
      BY <1>5, <1>6, <1>8 DEF Distinct
    <2>2. ~(j < k) /\ ~(k < j)
      BY <1>4, <1>5, <2>1
    <2> QED BY <2>2
  <1> QED BY <1>5, <1>6, <1>7, <1>8 DEF Distinct

LEMMA EntryOf ==
    ASSUME NEW l \in Seq(Item), Distinct(l), NEW k \in DOMAIN l
    PROVE  Described(l, l[k].name).addr = l[k].addr /\ ~Described(l, l[k].name).paused
           /\ Described(l, l[k].name) \in ConfigEntry
  <1> DEFINE it == CHOOSE x \in {l[j] : j \in DOMAIN l} : x.name = l[k].name
  <1>1. it \in {l[j] : j \in DOMAIN l} /\ it.name = l[k].name
    OBVIOUS
  <1>2. it = l[k]
    BY <1>1 DEF Distinct
  <1>3. Described(l, l[k].name) = [addr |-> it.addr, paused |-> FALSE]
    BY DEF Described
  <1> HIDE DEF it
  <1> QED BY <1>2, <1>3, ItemsOf DEF ConfigEntry

-----------------------------------------------------------------------------
(* The services.                                                            *)

LEMMA ServicesOf ==
    ASSUME NEW s \in Seq(Service)
    PROVE  /\ Len(s) \in Nat /\ DOMAIN s = 1..Len(s)
           /\ \A k \in DOMAIN s : /\ k \in Nat /\ s[k] \in Service /\ s[k].name \in Services
                                  /\ s[k].open \in BOOLEAN /\ s[k].served \in Nat
  <1>1. Len(s) \in Nat /\ DOMAIN s = 1..Len(s) /\ \A k \in DOMAIN s : s[k] \in Service
    BY LenProperties, ElementOfSeq
  <1> QED BY <1>1 DEF Service

\* q has the services of s, those in S closed.
Closing(s, q, S) ==
    /\ q \in Seq(Service) /\ Len(q) = Len(s) /\ DOMAIN q = DOMAIN s
    /\ \A k \in DOMAIN s : /\ q[k].name = s[k].name /\ q[k].addr = s[k].addr /\ q[k].served = s[k].served
                           /\ q[k].open <=> s[k].open /\ k \notin S
                           /\ k \notin S => q[k] = s[k]

LEMMA Closes ==
    ASSUME NEW s \in Seq(Service), NEW S
    PROVE  Closing(s, Shut(s, S), S)
  <1>1. PICK q : q = Shut(s, S)
    OBVIOUS
  <1>2. Len(s) \in Nat /\ DOMAIN s = 1..Len(s) /\ \A k \in DOMAIN s : s[k] \in Service
    BY ServicesOf
  <1>3. DOMAIN q = DOMAIN s
        /\ \A k \in DOMAIN s : q[k] = IF k \in S THEN [s[k] EXCEPT !.open = FALSE] ELSE s[k]
    BY <1>1 DEF Shut
  <1>4. \A k \in DOMAIN s : q[k] \in Service
    BY <1>2, <1>3 DEF Service
  <1>5. q = [k \in 1..Len(s) |-> q[k]]
    BY <1>1, <1>2 DEF Shut
  <1>6. q \in Seq(Service) /\ Len(q) = Len(s)
    BY <1>2, <1>4, <1>5, SeqDef, LenProperties
  <1>7. \A k \in DOMAIN s : /\ q[k].name = s[k].name /\ q[k].addr = s[k].addr /\ q[k].served = s[k].served
                            /\ q[k].open <=> s[k].open /\ k \notin S
    BY <1>2, <1>3 DEF Service
  <1> QED BY <1>1, <1>3, <1>6, <1>7 DEF Closing

\* q has the services of s, those in S served once more.
Serving(s, q, S) ==
    /\ q \in Seq(Service) /\ Len(q) = Len(s) /\ DOMAIN q = DOMAIN s
    /\ \A k \in DOMAIN s : /\ q[k].name = s[k].name /\ q[k].addr = s[k].addr /\ q[k].open = s[k].open
                           /\ k \in S => q[k].served = s[k].served + 1
                           /\ k \notin S => q[k] = s[k]

LEMMA Serves ==
    ASSUME svcs \in Seq(Service), NEW S
    PROVE  Serving(svcs, Serve(S), S)
  <1>1. PICK q : q = Serve(S)
    OBVIOUS
  <1>0. PICK s \in Seq(Service) : s = svcs
    OBVIOUS
  <1>2. Len(s) \in Nat /\ DOMAIN s = 1..Len(s)
        /\ \A k \in DOMAIN s : s[k] \in Service /\ s[k].served \in Nat
    BY ServicesOf
  <1>3. DOMAIN q = DOMAIN s
        /\ \A k \in DOMAIN s : q[k] = IF k \in S THEN [s[k] EXCEPT !.served = @ + 1] ELSE s[k]
    BY <1>0, <1>1 DEF Serve
  <1>7. \A k \in DOMAIN s : /\ q[k].name = s[k].name /\ q[k].addr = s[k].addr /\ q[k].open = s[k].open
                            /\ k \in S => q[k].served = s[k].served + 1
                            /\ q[k] \in Service
    <2> SUFFICES ASSUME NEW k \in DOMAIN s
                 PROVE  /\ q[k].name = s[k].name /\ q[k].addr = s[k].addr /\ q[k].open = s[k].open
                        /\ k \in S => q[k].served = s[k].served + 1
                        /\ q[k] \in Service
      OBVIOUS
    <2>1. CASE k \in S
      <3>1. q[k] = [s[k] EXCEPT !.served = s[k].served + 1] /\ s[k].served + 1 \in Nat
        BY <1>2, <1>3, <2>1
      <3> QED BY <1>2, <3>1 DEF Service
    <2>2. CASE k \notin S
      BY <1>2, <1>3, <2>2
    <2> QED BY <2>1, <2>2
  <1>5. q = [k \in 1..Len(s) |-> q[k]]
    BY <1>0, <1>1, <1>2 DEF Serve
  <1>6. q \in Seq(Service) /\ Len(q) = Len(s)
    BY <1>2, <1>7, <1>5, SeqDef, LenProperties
  <1> QED BY <1>0, <1>1, <1>3, <1>6, <1>7 DEF Serving

\* q has one more service, for an item.
Building(s, q, it) ==
    /\ q \in Seq(Service) /\ Len(s) \in Nat /\ Len(q) = Len(s) + 1
    /\ DOMAIN s = 1..Len(s) /\ DOMAIN q = 1..(Len(s) + 1)
    /\ \A k \in DOMAIN s : k \in DOMAIN q /\ q[k] = s[k]
    /\ \A k \in DOMAIN q : k \in DOMAIN s \/ k = Len(s) + 1
    /\ Len(s) + 1 \in DOMAIN q
    /\ q[Len(s) + 1].name = it.name /\ q[Len(s) + 1].addr = it.addr
    /\ q[Len(s) + 1].open /\ q[Len(s) + 1].served = 0

LEMMA Builds ==
    ASSUME svcs \in Seq(Service), NEW it \in Item
    PROVE  Building(svcs, Built(it), it)
  <1>0. PICK s \in Seq(Service) : s = svcs
    OBVIOUS
  <1>1. PICK e : e = [name |-> it.name, addr |-> it.addr, open |-> TRUE, served |-> 0]
    OBVIOUS
  <1>2. e \in Service /\ e.name = it.name /\ e.addr = it.addr /\ e.open = TRUE /\ e.served = 0
    BY <1>1 DEF Service, Item
  <1>3. PICK q : q = Append(s, e)
    OBVIOUS
  <1>4. /\ q \in Seq(Service) /\ Len(q) = Len(s) + 1 /\ q[Len(s) + 1] = e
        /\ \A k \in 1..Len(s) : q[k] = s[k]
    BY <1>2, <1>3, AppendProperties
  <1>5. Len(s) \in Nat /\ DOMAIN s = 1..Len(s) /\ DOMAIN q = 1..(Len(s) + 1)
    BY <1>4, ServicesOf
  <1>6. /\ \A k \in DOMAIN s : k \in DOMAIN q
        /\ \A k \in DOMAIN q : k \in DOMAIN s \/ k = Len(s) + 1
        /\ Len(s) + 1 \in DOMAIN q
    BY <1>5
  <1>7. q = Built(it)
    BY <1>0, <1>1, <1>3 DEF Built
  <1> QED BY <1>0, <1>2, <1>4, <1>5, <1>6, <1>7 DEF Building
-----------------------------------------------------------------------------
(* The entries.                                                             *)

LEMMA LenOne == \A e : Len(e) = 1 => e # <<>>
  <1> SUFFICES ASSUME NEW e, Len(e) = 1, e = <<>> PROVE FALSE
    OBVIOUS
  <1>1. Len(e) = 0
    BY EmptySeq
  <1> QED BY <1>1

LEMMA MarkOne ==
    ASSUME NEW e \in Seq(ConfigEntry), e # <<>>, NEW p \in BOOLEAN
    PROVE  LET m == [e EXCEPT ![1].paused = p]
           IN  /\ m \in Seq(ConfigEntry) /\ Len(m) = Len(e) /\ m # <<>>
               /\ m[1].addr = e[1].addr /\ m[1].paused = p
  <1>1. Len(e) \in Nat /\ DOMAIN e = 1..Len(e) /\ \A k \in DOMAIN e : e[k] \in ConfigEntry
    BY LenProperties, ElementOfSeq
  <1>2. 1 \in DOMAIN e
    BY <1>1, EmptySeq
  <1>3. PICK d : d = [e[1] EXCEPT !.paused = p]
    OBVIOUS
  <1>4. d \in ConfigEntry /\ d.addr = e[1].addr /\ d.paused = p
    BY <1>1, <1>2, <1>3 DEF ConfigEntry
  <1>5. PICK m : m = [e EXCEPT ![1].paused = p]
    OBVIOUS
  <1>6. m = [e EXCEPT ![1] = d]
    BY <1>3, <1>5
  <1>7. m \in [1..Len(e) -> ConfigEntry] /\ m[1] = d
    BY <1>1, <1>2, <1>4, <1>6
  <1>8. m \in Seq(ConfigEntry) /\ Len(m) = Len(e)
    BY <1>1, <1>7, SeqDef, LenProperties
  <1> QED BY <1>1, <1>2, <1>4, <1>5, <1>7, <1>8

\* What becomes of the entries when the first ones of the names in S are marked.
MarkedAs(S, p) ==
    /\ Marked(S, p) \in [Services -> Seq(ConfigEntry)]
    /\ \A n \in Services :
          /\ n \notin S => Marked(S, p)[n] = entries[n]
          /\ Len(Marked(S, p)[n]) = Len(entries[n])
          /\ entries[n] = <<>> => Marked(S, p)[n] = <<>>
          /\ entries[n] # <<>> => Marked(S, p)[n][1].addr = entries[n][1].addr
          /\ n \in S /\ entries[n] # <<>> => Marked(S, p)[n][1].paused = p

LEMMA Marks ==
    ASSUME entries \in [Services -> Seq(ConfigEntry)], NEW S, NEW p \in BOOLEAN
    PROVE  MarkedAs(S, p)
  <1>1. PICK m : m = Marked(S, p)
    OBVIOUS
  <1>2. m = [n \in Services |-> IF n \in S /\ entries[n] # <<>> THEN [entries[n] EXCEPT ![1].paused = p] ELSE entries[n]]
    BY <1>1 DEF Marked
  <1>3. ASSUME NEW n \in Services
        PROVE  /\ m[n] \in Seq(ConfigEntry)
               /\ n \notin S => m[n] = entries[n]
               /\ Len(m[n]) = Len(entries[n])
               /\ entries[n] = <<>> => m[n] = <<>>
               /\ entries[n] # <<>> => m[n][1].addr = entries[n][1].addr
               /\ n \in S /\ entries[n] # <<>> => m[n][1].paused = p
    <2>1. PICK e \in Seq(ConfigEntry) : e = entries[n]
      OBVIOUS
    <2>2. CASE n \in S /\ e # <<>>
      <3>1. m[n] = [e EXCEPT ![1].paused = p]
        BY <1>2, <2>1, <2>2
      <3> QED BY <2>1, <2>2, <3>1, MarkOne
    <2>3. CASE ~(n \in S /\ e # <<>>)
      BY <1>2, <2>1, <2>3
    <2> QED BY <2>2, <2>3
  <1>4. m = [n \in Services |-> m[n]]
    BY <1>2
  <1>5. m \in [Services -> Seq(ConfigEntry)]
    BY <1>3, <1>4
  <1> QED BY <1>1, <1>3, <1>5 DEF MarkedAs

LEMMA Appends ==
    ASSUME entries \in [Services -> Seq(ConfigEntry)], NEW l \in Seq(Item), Distinct(l)
    PROVE  /\ Appended(l) \in [Services -> Seq(ConfigEntry)]
           /\ \A n \in Services \ NamesIn(l) : Appended(l)[n] = entries[n]
           /\ \A k \in DOMAIN l : entries[l[k].name] = <<>> =>
                 /\ Len(Appended(l)[l[k].name]) = 1 /\ Appended(l)[l[k].name][1].addr = l[k].addr
                 /\ ~Appended(l)[l[k].name][1].paused
  <1>1. PICK m : m = Appended(l)
    OBVIOUS
  <1>2. m = [n \in Services |-> IF n \in NamesIn(l) THEN Append(entries[n], Described(l, n)) ELSE entries[n]]
    BY <1>1 DEF Appended
  <1>3. ASSUME NEW n \in Services PROVE m[n] \in Seq(ConfigEntry)
    <2>1. CASE n \in NamesIn(l)
      <3>1. PICK k \in DOMAIN l : l[k].name = n
        BY <2>1, ItemsOf
      <3>2. Described(l, n) \in ConfigEntry
        BY <3>1, EntryOf
      <3>3. PICK e \in Seq(ConfigEntry), d \in ConfigEntry : e = entries[n] /\ d = Described(l, n)
        BY <3>2
      <3>4. Append(e, d) \in Seq(ConfigEntry)
        BY AppendProperties
      <3> QED BY <1>2, <2>1, <3>3, <3>4
    <2>2. CASE n \notin NamesIn(l)
      BY <1>2, <2>2
    <2> QED BY <2>1, <2>2
  <1>4. m = [n \in Services |-> m[n]]
    BY <1>2
  <1>5. m \in [Services -> Seq(ConfigEntry)]
    BY <1>3, <1>4
  <1>6. ASSUME NEW k \in DOMAIN l, entries[l[k].name] = <<>>
        PROVE  Len(m[l[k].name]) = 1 /\ m[l[k].name][1].addr = l[k].addr /\ ~m[l[k].name][1].paused
    <2>1. PICK n \in Services : n = l[k].name /\ n \in NamesIn(l)
      BY ItemsOf
    <2>2. PICK d : d = Described(l, n)
      OBVIOUS
    <2>3. d.addr = l[k].addr /\ ~d.paused /\ m[n] = Append(<<>>, d)
      BY <1>2, <1>6, <2>1, <2>2, EntryOf
    <2>4. m[n] = <<d>>
      BY <2>3
    <2> QED BY <2>1, <2>3, <2>4
  <1> QED BY <1>1, <1>2, <1>5, <1>6

LEMMA ReplaceOne ==
    ASSUME NEW e \in Seq(ConfigEntry), e # <<>>, NEW d \in ConfigEntry
    PROVE  LET m == [e EXCEPT ![1] = d] IN m \in Seq(ConfigEntry) /\ Len(m) = Len(e) /\ m[1] = d
  <1>1. Len(e) \in Nat /\ DOMAIN e = 1..Len(e) /\ \A k \in DOMAIN e : e[k] \in ConfigEntry
    BY LenProperties, ElementOfSeq
  <1>2. 1 \in DOMAIN e
    BY <1>1, EmptySeq
  <1>3. PICK m : m = [e EXCEPT ![1] = d]
    OBVIOUS
  <1>4. m \in [1..Len(e) -> ConfigEntry] /\ m[1] = d
    BY <1>1, <1>2, <1>3
  <1>5. m \in Seq(ConfigEntry) /\ Len(m) = Len(e)
    BY <1>1, <1>4, SeqDef, LenProperties
  <1> QED BY <1>3, <1>4, <1>5

LEMMA Replaces ==
    ASSUME entries \in [Services -> Seq(ConfigEntry)], NEW l \in Seq(Item), Distinct(l)
    PROVE  /\ Replaced(l) \in [Services -> Seq(ConfigEntry)]
           /\ \A n \in Services \ NamesIn(l) : Replaced(l)[n] = entries[n]
           /\ \A k \in DOMAIN l : Len(entries[l[k].name]) = 1 =>
                 /\ Len(Replaced(l)[l[k].name]) = 1 /\ Replaced(l)[l[k].name][1].addr = l[k].addr
                 /\ ~Replaced(l)[l[k].name][1].paused
  <1>1. PICK m : m = Replaced(l)
    OBVIOUS
  <1>2. m = [n \in Services |-> IF n \in NamesIn(l) /\ entries[n] # <<>>
                                THEN [entries[n] EXCEPT ![1] = Described(l, n)] ELSE entries[n]]
    BY <1>1 DEF Replaced
  <1>3. ASSUME NEW k \in DOMAIN l, entries[l[k].name] # <<>>
        PROVE  /\ m[l[k].name] \in Seq(ConfigEntry) /\ Len(m[l[k].name]) = Len(entries[l[k].name])
               /\ m[l[k].name][1].addr = l[k].addr /\ ~m[l[k].name][1].paused
    <2>1. PICK n \in Services : n = l[k].name /\ n \in NamesIn(l)
      BY ItemsOf
    <2>2. PICK d \in ConfigEntry : d = Described(l, n)
      BY <2>1, EntryOf
    <2>3. PICK e \in Seq(ConfigEntry) : e = entries[n]
      OBVIOUS
    <2>4. d.addr = l[k].addr /\ ~d.paused
      BY <2>1, <2>2, EntryOf
    <2>5. m[n] = [e EXCEPT ![1] = d] /\ e # <<>>
      BY <1>2, <1>3, <2>1, <2>2, <2>3
    <2> QED BY <2>1, <2>3, <2>4, <2>5, ReplaceOne
  <1>4. ASSUME NEW n \in Services PROVE m[n] \in Seq(ConfigEntry)
    <2>1. CASE n \in NamesIn(l) /\ entries[n] # <<>>
      BY <1>3, <2>1, ItemsOf
    <2>2. CASE ~(n \in NamesIn(l) /\ entries[n] # <<>>)
      BY <1>2, <2>2
    <2> QED BY <2>1, <2>2
  <1>5. m = [n \in Services |-> m[n]]
    BY <1>2
  <1>6. m \in [Services -> Seq(ConfigEntry)]
    BY <1>4, <1>5
  <1>7. \A n \in Services : Len(entries[n]) = 1 => entries[n] # <<>>
    BY LenOne
  <1>8. \A k \in DOMAIN l : l[k].name \in Services
    BY ItemsOf
  <1> QED BY <1>1, <1>2, <1>3, <1>6, <1>7, <1>8

LEMMA Removes ==
    ASSUME entries \in [Services -> Seq(ConfigEntry)], NEW l \in Seq(Item)
    PROVE  /\ Removed(l) \in [Services -> Seq(ConfigEntry)]
           /\ \A n \in Services : Removed(l)[n] = IF n \in NamesIn(l) THEN <<>> ELSE entries[n]
  <1>1. <<>> \in Seq(ConfigEntry)
    OBVIOUS
  <1> QED BY <1>1 DEF Removed

-----------------------------------------------------------------------------
(* The request of a goroutine.                                              *)

LEMMA RequestOf ==
    ASSUME Typed, NEW t \in Workers
    PROVE  /\ work[t] \in Work /\ work[t].items \in Seq(Item) /\ Distinct(work[t].items)
           /\ Len(work[t].items) \in Nat /\ DOMAIN work[t].items = 1..Len(work[t].items)
           /\ work[t].i \in Nat /\ work[t].i \in 1..(Len(work[t].items) + 1)
           /\ (More(t) <=> work[t].i \in DOMAIN work[t].items)
           /\ (~More(t) <=> work[t].i = Len(work[t].items) + 1)
           /\ More(t) => Cur(t) \in Item /\ Cur(t).name \in NamesIn(work[t].items) /\ Cur(t).name \in Services
           /\ Cur(t) = work[t].items[work[t].i]
           /\ NamesIn(work[t].items) \subseteq Services
           /\ Before(t) \subseteq NamesIn(work[t].items)
  <1>1. work[t] \in Work /\ work[t].i \in 1..(Len(work[t].items) + 1) /\ Distinct(work[t].items)
    BY DEF Typed, ServiceTypeOK, Doing, Steps
  <1>2. PICK l \in Seq(Item), i \in Nat : l = work[t].items /\ i = work[t].i
    BY <1>1 DEF Work
  <1>3. Len(l) \in Nat /\ DOMAIN l = 1..Len(l) /\ NamesIn(l) \subseteq Services
    BY ItemsOf
  <1>4. i <= Len(l) <=> i \in DOMAIN l
    BY <1>1, <1>2, <1>3
  <1>5. ~(i <= Len(l)) <=> i = Len(l) + 1
    BY <1>1, <1>2, <1>3
  <1>6. i \in DOMAIN l => l[i] \in Item /\ l[i].name \in NamesIn(l) /\ l[i].name \in Services
    BY ItemsOf
  <1>7. \A k \in 1..(i - 1) : k \in DOMAIN l
    BY <1>1, <1>2, <1>3
  <1>8. Before(t) \subseteq NamesIn(l)
    BY <1>2, <1>7 DEF Before, NamesIn
  <1> QED BY <1>1, <1>2, <1>3, <1>4, <1>5, <1>6, <1>8 DEF More, Cur

LEMMA ItemOf ==
    ASSUME Typed, NEW t \in Workers, NEW k \in DOMAIN work[t].items
    PROVE  /\ k \in Nat /\ work[t].items[k] \in Item /\ work[t].items[k].name \in Services
           /\ work[t].items[k].addr \in Addrs /\ work[t].items[k].name \in NamesIn(work[t].items)
           /\ work[t].items[k].name \in Before(t) <=> k < work[t].i
           /\ More(t) => (work[t].items[k].name = Cur(t).name <=> k = work[t].i)
  <1>1. work[t].items \in Seq(Item) /\ Distinct(work[t].items)
        /\ work[t].i \in Nat /\ work[t].i \in 1..(Len(work[t].items) + 1)
        /\ (More(t) <=> work[t].i \in DOMAIN work[t].items)
    BY RequestOf
  <1>2. PICK l \in Seq(Item), i \in Nat : l = work[t].items /\ i = work[t].i
    BY <1>1
  <1>3. Len(l) \in Nat /\ DOMAIN l = 1..Len(l) /\ k \in Nat /\ l[k] \in Item
        /\ l[k].name \in Services /\ l[k].addr \in Addrs /\ l[k].name \in NamesIn(l)
    BY <1>2, ItemsOf
  <1>4. \A j \in 1..(i - 1) : j \in DOMAIN l /\ j < i
    BY <1>1, <1>2, <1>3
  <1>5. l[k].name \in Before(t) => k < i
    <2> SUFFICES ASSUME l[k].name \in Before(t) PROVE k < i
      OBVIOUS
    <2>1. PICK j \in 1..(i - 1) : l[j].name = l[k].name
      BY <1>2 DEF Before
    <2>2. j = k
      BY <1>1, <1>2, <1>4, <2>1 DEF Distinct
    <2> QED BY <1>4, <2>2
  <1>6. k < i => k \in 1..(i - 1)
    BY <1>2, <1>3
  <1>7. k < i => l[k].name \in Before(t)
    BY <1>2, <1>6 DEF Before
  <1>8. i \in DOMAIN l => (l[k].name = l[i].name <=> k = i)
    BY <1>1, <1>2 DEF Distinct
  <1> QED BY <1>1, <1>2, <1>3, <1>5, <1>7, <1>8 DEF Cur

\* The services a request has built and not handed over.
LEMMA MadeOf ==
    ASSUME Typed, NEW t \in Workers
    PROVE  /\ work[t].made \in Seq(Ids) /\ Len(work[t].made) \in Nat /\ DOMAIN work[t].made = 1..Len(work[t].made)
           /\ Len(work[t].made) <= Len(work[t].items)
           /\ MadeBy(t) \subseteq DOMAIN svcs
           /\ \A k \in DOMAIN work[t].made : k \in DOMAIN work[t].items /\ For(work[t].made[k], work[t].items[k])
           /\ \A s : s \in MadeBy(t) <=> \E k \in DOMAIN work[t].made : work[t].made[k] = s
  <1>1. work[t].made \in Seq(Ids) /\ Hands(work[t])
    BY DEF Typed, ServiceTypeOK, Work, Doing
  <1>2. Len(work[t].made) \in Nat /\ DOMAIN work[t].made = 1..Len(work[t].made)
    BY <1>1, LenProperties
  <1>3. /\ Len(work[t].items) \in Nat /\ DOMAIN work[t].items = 1..Len(work[t].items)
        /\ work[t].i \in Nat /\ work[t].i \in 1..(Len(work[t].items) + 1)
    BY RequestOf
  <1>4. Len(work[t].made) <= Len(work[t].items)
    <2>1. CASE work[t].pc = "check"
      BY <1>1, <1>2, <1>3, <2>1 DEF Hands
    <2>2. CASE work[t].op = "create" /\ work[t].pc # "check"
      BY <1>1, <1>2, <1>3, <2>2 DEF Hands
    <2>3. CASE work[t].op # "create"
      BY <1>1, <1>2, <1>3, <2>3 DEF Hands
    <2> QED BY <2>1, <2>2, <2>3
  <1>5. \A k \in DOMAIN work[t].made : k \in DOMAIN work[t].items
    BY <1>2, <1>3, <1>4
  <1>6. \A k \in DOMAIN work[t].made : For(work[t].made[k], work[t].items[k])
    BY <1>1 DEF Hands
  <1> QED BY <1>1, <1>2, <1>4, <1>5, <1>6 DEF MadeBy, For

-----------------------------------------------------------------------------
(* What a step of goroutine t leaves alone.                                 *)

\* q has the services of s and maybe more; only those with names in N are other
\* than before, and none of them is opened again.
Within(s, q, N) ==
    /\ q \in Seq(Service)
    /\ \A k \in DOMAIN s :
          /\ k \in DOMAIN q /\ q[k].name = s[k].name /\ q[k].addr = s[k].addr
          /\ q[k].open => s[k].open
          /\ s[k].name \notin N => q[k] = s[k]
    /\ \A k \in DOMAIN q : k \in DOMAIN s \/ q[k].name \in N

SvcsFrame(t) == Len(svcs') <= MaxBuilt /\ Within(svcs, svcs', NamesIn(work[t].items))

RegistryFrame(t) ==
    /\ registry' \in [Services -> Ids \cup {NoService}] /\ Named'
    /\ \A n \in Services \ NamesIn(work[t].items) : registry'[n] = registry[n]

EntriesFrame(t) ==
    /\ entries' \in [Services -> Seq(ConfigEntry)]
    /\ \A n \in Services \ NamesIn(work[t].items) : entries'[n] = entries[n]

HistoryFrame ==
    /\ leaked \subseteq leaked' /\ leaked' \subseteq DOMAIN svcs'
    /\ crossed \subseteq crossed' /\ crossed' \subseteq Services

Others(t) == work' \in [Workers -> Work] /\ \A u \in Workers : u # t => work'[u] = work[u]

Frame(t) == SvcsFrame(t) /\ RegistryFrame(t) /\ EntriesFrame(t) /\ HistoryFrame /\ Others(t)

\* The request of t goes on with its list, at step l and item j.
Goes(t, l, j) ==
    /\ work'[t].op = work[t].op /\ work'[t].batch = work[t].batch /\ work'[t].items = work[t].items
    /\ work'[t].pc = l /\ work'[t].i = j

\* What it has in its hands.
Holds(t, m, x) == work'[t].made = m /\ work'[t].new = x

\* It is over.
Left(t) ==
    /\ work'[t].op = "none" /\ work'[t].pc = "idle" /\ work'[t].items = <<>> /\ work'[t].i = 1
    /\ work'[t].made = <<>> /\ work'[t].new = NoService /\ ~work'[t].batch

Labels == {"idle", "check", "enter", "close", "drop", "parse", "register", "config"}

LEMMA WorkOf ==
    ASSUME Typed, NEW t \in Workers
    PROVE  work[t] \in Work
  BY DEF Typed, ServiceTypeOK

LEMMA Answered ==
    ASSUME Typed, NEW t \in Workers, Answer(t)
    PROVE  Others(t) /\ Left(t)
  <1>1. Waiting \in Work
    BY DEF Waiting, Work
  <1>2. work' \in [Workers -> Work] /\ work'[t] = Waiting /\ \A u \in Workers : u # t => work'[u] = work[u]
    BY <1>1 DEF Answer, Typed, ServiceTypeOK
  <1> QED BY <1>2 DEF Others, Left, Waiting

LEMMA Proceeded ==
    ASSUME Typed, NEW t \in Workers, NEW l \in Labels, Proceed(t, l)
    PROVE  Others(t) /\ Goes(t, l, work[t].i) /\ Holds(t, work[t].made, work[t].new)
  <1>1. PICK q : q = [work[t] EXCEPT !.pc = l]
    OBVIOUS
  <1>2. /\ q \in Work /\ q.op = work[t].op /\ q.batch = work[t].batch /\ q.items = work[t].items
        /\ q.pc = l /\ q.i = work[t].i /\ q.made = work[t].made /\ q.new = work[t].new
    BY <1>1, WorkOf DEF Work, Labels
  <1>3. work' \in [Workers -> Work] /\ work'[t] = q /\ \A u \in Workers : u # t => work'[u] = work[u]
    BY <1>1, <1>2 DEF Proceed, Typed, ServiceTypeOK
  <1> QED BY <1>2, <1>3 DEF Others, Goes, Holds

LEMMA Advanced ==
    ASSUME Typed, NEW t \in Workers, NEW l \in Labels, NEW j \in Nat, work' = [work EXCEPT ![t].pc = l, ![t].i = j]
    PROVE  Others(t) /\ Goes(t, l, j) /\ Holds(t, work[t].made, work[t].new)
  <1>1. PICK q : q = [work[t] EXCEPT !.pc = l, !.i = j]
    OBVIOUS
  <1>2. /\ q \in Work /\ q.op = work[t].op /\ q.batch = work[t].batch /\ q.items = work[t].items
        /\ q.pc = l /\ q.i = j /\ q.made = work[t].made /\ q.new = work[t].new
    BY <1>1, WorkOf DEF Work, Labels
  <1>3. work' \in [Workers -> Work] /\ work'[t] = q /\ \A u \in Workers : u # t => work'[u] = work[u]
    BY <1>1, <1>2 DEF Typed, ServiceTypeOK
  <1> QED BY <1>2, <1>3 DEF Others, Goes, Holds

LEMMA Turned ==
    ASSUME Typed, NEW t \in Workers, work' = [work EXCEPT ![t].i = @ + 1]
    PROVE  Others(t) /\ Goes(t, work[t].pc, work[t].i + 1) /\ Holds(t, work[t].made, work[t].new)
  <1>0. PICK j \in Nat : j = work[t].i + 1
    BY DEF Typed, ServiceTypeOK, Work
  <1>1. PICK q : q = [work[t] EXCEPT !.i = j]
    OBVIOUS
  <1>2. /\ q \in Work /\ q.op = work[t].op /\ q.batch = work[t].batch /\ q.items = work[t].items
        /\ q.pc = work[t].pc /\ q.i = j /\ q.made = work[t].made /\ q.new = work[t].new
    BY <1>1, WorkOf DEF Work
  <1>3. work' \in [Workers -> Work] /\ work'[t] = q /\ \A u \in Workers : u # t => work'[u] = work[u]
    BY <1>1, <1>2, <1>0 DEF Typed, ServiceTypeOK
  <1> QED BY <1>2, <1>3, <1>0 DEF Others, Goes, Holds

LEMMA Parsed ==
    ASSUME Typed, NEW t \in Workers, NEW s \in Ids,
           work' = [work EXCEPT ![t].i = @ + 1, ![t].made = Append(@, s)]
    PROVE  Others(t) /\ Goes(t, work[t].pc, work[t].i + 1) /\ Holds(t, Append(work[t].made, s), work[t].new)
  <1>0. PICK m \in Seq(Ids) : m = work[t].made
    BY DEF Typed, ServiceTypeOK, Work
  <1>1. PICK j \in Nat : j = work[t].i + 1
    BY DEF Typed, ServiceTypeOK, Work
  <1>2. PICK q : q = [work[t] EXCEPT !.i = j, !.made = Append(m, s)]
    OBVIOUS
  <1>3. /\ q \in Work /\ q.op = work[t].op /\ q.batch = work[t].batch /\ q.items = work[t].items
        /\ q.pc = work[t].pc /\ q.i = j /\ q.made = Append(m, s) /\ q.new = work[t].new
    <2>1. Append(m, s) \in Seq(Ids)
      BY AppendProperties
    <2> QED BY <1>2, <2>1, WorkOf DEF Work
  <1>4. work' \in [Workers -> Work] /\ work'[t] = q /\ \A u \in Workers : u # t => work'[u] = work[u]
    BY <1>0, <1>1, <1>2, <1>3 DEF Typed, ServiceTypeOK
  <1> QED BY <1>0, <1>1, <1>3, <1>4 DEF Others, Goes, Holds

LEMMA Renewed ==
    ASSUME Typed, NEW t \in Workers, NEW s \in Ids,
           work' = [work EXCEPT ![t].new = s, ![t].pc = "register"]
    PROVE  Others(t) /\ Goes(t, "register", work[t].i) /\ Holds(t, work[t].made, s)
  <1>1. PICK q : q = [work[t] EXCEPT !.new = s, !.pc = "register"]
    OBVIOUS
  <1>2. /\ q \in Work /\ q.op = work[t].op /\ q.batch = work[t].batch /\ q.items = work[t].items
        /\ q.pc = "register" /\ q.i = work[t].i /\ q.made = work[t].made /\ q.new = s
    BY <1>1, WorkOf DEF Work
  <1>3. work' \in [Workers -> Work] /\ work'[t] = q /\ \A u \in Workers : u # t => work'[u] = work[u]
    BY <1>1, <1>2 DEF Typed, ServiceTypeOK
  <1> QED BY <1>2, <1>3 DEF Others, Goes, Holds

LEMMA HandedOver ==
    ASSUME Typed, NEW t \in Workers,
           work' = [work EXCEPT ![t].i = @ + 1, ![t].pc = "close", ![t].new = NoService]
    PROVE  Others(t) /\ Goes(t, "close", work[t].i + 1) /\ Holds(t, work[t].made, NoService)
  <1>0. PICK j \in Nat : j = work[t].i + 1
    BY DEF Typed, ServiceTypeOK, Work
  <1>1. PICK q : q = [work[t] EXCEPT !.i = j, !.pc = "close", !.new = NoService]
    OBVIOUS
  <1>2. /\ q \in Work /\ q.op = work[t].op /\ q.batch = work[t].batch /\ q.items = work[t].items
        /\ q.pc = "close" /\ q.i = j /\ q.made = work[t].made /\ q.new = NoService
    BY <1>1, WorkOf DEF Work
  <1>3. work' \in [Workers -> Work] /\ work'[t] = q /\ \A u \in Workers : u # t => work'[u] = work[u]
    BY <1>1, <1>2, <1>0 DEF Typed, ServiceTypeOK
  <1> QED BY <1>2, <1>3, <1>0 DEF Others, Goes, Holds

-----------------------------------------------------------------------------
(* The frame, by what a step does to the services and the registry.         *)

LEMMA WithinSame ==
    ASSUME NEW s \in Seq(Service), NEW N
    PROVE  Within(s, s, N)
  BY DEF Within

LEMMA WithinMore ==
    ASSUME NEW s \in Seq(Service), NEW q, NEW N, Within(s, q, N), NEW M, N \subseteq M
    PROVE  Within(s, q, M)
  BY DEF Within

LEMMA WithinTwice ==
    ASSUME NEW s \in Seq(Service), NEW q, NEW z, NEW N, Within(s, q, N), Within(q, z, N)
    PROVE  Within(s, z, N)
  <1>1. \A k \in DOMAIN z : k \in DOMAIN s \/ z[k].name \in N
    BY DEF Within
  <1>2. \A k \in DOMAIN s : s[k].name \notin N => z[k] = s[k]
    BY DEF Within
  <1> QED BY <1>1, <1>2 DEF Within

LEMMA ClosingWithin ==
    ASSUME NEW s \in Seq(Service), NEW q, NEW S, Closing(s, q, S), NEW N,
           \A k \in DOMAIN s : k \in S => s[k].name \in N
    PROVE  Within(s, q, N) /\ Len(q) = Len(s)
  BY DEF Closing, Within

LEMMA ServingWithin ==
    ASSUME NEW s \in Seq(Service), NEW q, NEW S, Serving(s, q, S), NEW N,
           \A k \in DOMAIN s : k \in S => s[k].name \in N
    PROVE  Within(s, q, N) /\ Len(q) = Len(s)
  BY DEF Serving, Within

LEMMA BuildingWithin ==
    ASSUME NEW s \in Seq(Service), NEW q, NEW it \in Item, Building(s, q, it)
    PROVE  Within(s, q, {it.name})
  BY DEF Building, Within

\* The three things that happen to the services in a step of t.
LEMMA SvcsSame ==
    ASSUME Typed, NEW t \in Workers, svcs' = svcs
    PROVE  SvcsFrame(t)
  <1>1. PICK s \in Seq(Service) : s = svcs
    BY DEF Typed, ServiceTypeOK
  <1>2. PICK N : N = NamesIn(work[t].items)
    OBVIOUS
  <1> QED BY <1>1, <1>2, WithinSame DEF Typed, ServiceTypeOK, SvcsFrame

LEMMA SvcsClosed ==
    ASSUME Typed, NEW t \in Workers, NEW S, svcs' = Shut(svcs, S), NEW N, N \subseteq NamesIn(work[t].items),
           \A s \in S : s \in DOMAIN svcs => svcs[s].name \in N
    PROVE  SvcsFrame(t) /\ Closing(svcs, svcs', S) /\ Within(svcs, svcs', N)
  <1>1. PICK s \in Seq(Service) : s = svcs
    BY DEF Typed, ServiceTypeOK
  <1>1a. PICK M : M = NamesIn(work[t].items)
    OBVIOUS
  <1>2. Closing(s, Shut(s, S), S)
    BY Closes
  <1>3. Within(s, Shut(s, S), N) /\ Within(s, Shut(s, S), M) /\ Len(Shut(s, S)) = Len(s)
    BY <1>1, <1>1a, <1>2, ClosingWithin, WithinMore
  <1> QED BY <1>1, <1>1a, <1>2, <1>3 DEF Typed, ServiceTypeOK, SvcsFrame

LEMMA SvcsServed ==
    ASSUME Typed, NEW t \in Workers, NEW S, svcs' = Serve(S),
           \A s \in S : s \in DOMAIN svcs => svcs[s].name \in NamesIn(work[t].items)
    PROVE  SvcsFrame(t) /\ Serving(svcs, svcs', S)
  <1>1. PICK s \in Seq(Service) : s = svcs
    BY DEF Typed, ServiceTypeOK
  <1>1a. PICK q, N : q = svcs' /\ N = NamesIn(work[t].items)
    OBVIOUS
  <1>2. Serving(s, q, S)
    BY <1>1, <1>1a, Serves DEF Typed, ServiceTypeOK
  <1>3. Within(s, q, N) /\ Len(q) = Len(s)
    BY <1>1, <1>1a, <1>2, ServingWithin
  <1> QED BY <1>1, <1>1a, <1>2, <1>3 DEF Typed, ServiceTypeOK, SvcsFrame

LEMMA SvcsBuilt ==
    ASSUME Typed, NEW t \in Workers, More(t), Room, NEW q, q = Built(Cur(t))
    PROVE  /\ Building(svcs, q, Cur(t)) /\ Len(svcs) + 1 \in Ids
           /\ Within(svcs, q, {Cur(t).name}) /\ q \in Seq(Service) /\ Len(q) <= MaxBuilt
  <1>1. PICK it \in Item : it = Cur(t)
    BY RequestOf
  <1>2. PICK s \in Seq(Service) : s = svcs
    BY DEF Typed, ServiceTypeOK
  <1>3. Building(s, q, it)
    BY <1>1, <1>2, Builds
  <1>4. Len(s) \in Nat /\ Len(s) < MaxBuilt /\ MaxBuilt \in Nat /\ Len(q) = Len(s) + 1 /\ q \in Seq(Service)
    BY <1>2, <1>3, ServiceAssumption DEF Building, Room
  <1>5. Len(q) <= MaxBuilt /\ Len(s) + 1 \in Ids
    BY <1>4 DEF Ids
  <1>6. Within(s, q, {it.name})
    BY <1>3, BuildingWithin
  <1> QED BY <1>1, <1>2, <1>3, <1>4, <1>5, <1>6

LEMMA SvcsMade ==
    ASSUME Typed, NEW t \in Workers, More(t), Within(svcs, svcs', {Cur(t).name}), Len(svcs') <= MaxBuilt
    PROVE  SvcsFrame(t)
  <1>1. PICK s \in Seq(Service) : s = svcs
    BY DEF Typed, ServiceTypeOK
  <1>1a. PICK M : M = NamesIn(work[t].items)
    OBVIOUS
  <1>2. {Cur(t).name} \subseteq M
    BY <1>1, <1>1a, RequestOf
  <1> QED BY <1>1, <1>1a, <1>2, WithinMore DEF SvcsFrame

LEMMA RegistrySame ==
    ASSUME Typed, NEW t \in Workers, SvcsFrame(t), registry' = registry
    PROVE  RegistryFrame(t)
  <1>1. Named'
    BY DEF Typed, SvcsFrame, Within, Named
  <1> QED BY <1>1 DEF Typed, ServiceTypeOK, RegistryFrame

LEMMA RegistryEmptied ==
    ASSUME Typed, NEW t \in Workers, SvcsFrame(t), NEW M, M \subseteq NamesIn(work[t].items),
           registry' \in [Services -> Ids \cup {NoService}],
           \A m \in Services : registry'[m] = IF m \in M THEN NoService ELSE registry[m]
    PROVE  RegistryFrame(t)
  <1>1. Named'
    BY DEF Typed, SvcsFrame, Within, Named
  <1> QED BY <1>1 DEF RegistryFrame

LEMMA RegistryEntered ==
    ASSUME Typed, NEW t \in Workers, More(t), SvcsFrame(t), NEW s \in Ids, For(s, Cur(t)),
           registry' = [registry EXCEPT ![Cur(t).name] = s]
    PROVE  RegistryFrame(t) /\ registry'[Cur(t).name] = s
           /\ \A m \in Services : m # Cur(t).name => registry'[m] = registry[m]
  <1>1. Cur(t).name \in Services /\ Cur(t).name \in NamesIn(work[t].items)
    BY RequestOf
  <1>2. PICK n \in Services : n = Cur(t).name
    BY <1>1
  <1>3. registry' \in [Services -> Ids \cup {NoService}]
        /\ registry'[n] = s /\ \A m \in Services : m # n => registry'[m] = registry[m]
    BY <1>2 DEF Typed, ServiceTypeOK
  <1>4. s \in DOMAIN svcs' /\ svcs'[s].name = n
    BY <1>2 DEF For, SvcsFrame, Within
  <1>5. Named'
    BY <1>3, <1>4 DEF Typed, SvcsFrame, Within, Named
  <1> QED BY <1>1, <1>2, <1>3, <1>5 DEF RegistryFrame

LEMMA EntriesSame ==
    ASSUME Typed, NEW t \in Workers, entries' = entries
    PROVE  EntriesFrame(t)
  BY DEF Typed, ServiceTypeOK, EntriesFrame

\* The hands of goroutine u, when nothing happens to its request.
LEMMA HandsKept ==
    ASSUME NEW t \in Workers, SvcsFrame(t), NEW u \in Workers, Hands(work[u]), work'[u] = work[u]
    PROVE  Hands(work[u])'
  <1>1. \A s, it : For(s, it) => s \in DOMAIN svcs' /\ svcs'[s].name = it.name /\ svcs'[s].addr = it.addr
    BY DEF For, SvcsFrame, Within
  <1>2. work[u].new # NoService => For(work[u].new, work[u].items[work[u].i])'
    BY <1>1 DEF Hands, For
  <1>3. \A k \in DOMAIN work[u].made : For(work[u].made[k], work[u].items[k])'
    BY <1>1 DEF Hands, For
  <1> QED BY <1>2, <1>3 DEF Hands

-----------------------------------------------------------------------------
(* The steps, by their effects.                                             *)

LEMMA ParseEffect ==
    ASSUME Typed, NEW t \in Workers, CreateParse(t)
    PROVE  /\ Frame(t) /\ UNCHANGED <<registry, entries, crossed>> /\ work[t].pc = "check" /\ More(t)
           /\ \A s \in DOMAIN svcs : s \in DOMAIN svcs' /\ svcs'[s] = svcs[s]
           /\ \/ /\ Building(svcs, svcs', Cur(t)) /\ Len(svcs) + 1 \in Ids /\ leaked' = leaked
                 /\ Goes(t, "check", work[t].i + 1) /\ registry[Cur(t).name] = NoService
                 /\ Holds(t, Append(work[t].made, Len(svcs) + 1), work[t].new)
              \/ /\ Left(t) /\ MadeBy(t) \subseteq leaked'
                 /\ \A s \in DOMAIN svcs' : s \in DOMAIN svcs \/ s \in leaked'
  <1>1. work[t].pc = "check" /\ More(t) /\ UNCHANGED <<registry, entries, crossed>>
    BY DEF CreateParse
  <1>2. /\ svcs \in Seq(Service) /\ Len(svcs) <= MaxBuilt /\ leaked \subseteq DOMAIN svcs /\ crossed \subseteq Services
        /\ MadeBy(t) \subseteq DOMAIN svcs
    BY MadeOf DEF Typed, ServiceTypeOK
  <1>3. CASE registry[Cur(t).name] = NoService /\ Room /\ svcs' = Built(Cur(t)) /\ leaked' = leaked
             /\ work' = [work EXCEPT ![t].i = @ + 1, ![t].made = Append(@, Len(svcs) + 1)]
    <2>1. Building(svcs, svcs', Cur(t)) /\ Within(svcs, svcs', {Cur(t).name}) /\ Len(svcs') <= MaxBuilt
          /\ Len(svcs) + 1 \in Ids
      BY <1>1, <1>3, SvcsBuilt
    <2>2. PICK s \in Ids : s = Len(svcs) + 1
      BY <2>1
    <2>3. Others(t) /\ Goes(t, "check", work[t].i + 1) /\ Holds(t, Append(work[t].made, Len(svcs) + 1), work[t].new)
      BY <1>1, <1>3, <2>2, Parsed
    <2>4. SvcsFrame(t)
      BY <1>1, <2>1, SvcsMade
    <2>5. HistoryFrame
      BY <1>1, <1>2, <1>3, <2>1 DEF HistoryFrame, Within
    <2> QED BY <1>1, <1>3, <2>1, <2>3, <2>4, <2>5, RegistrySame, EntriesSame DEF Frame, Building
  <1>4. CASE Answer(t) /\ svcs' = svcs /\ leaked' = leaked \cup MadeBy(t)
    <2>1. Others(t) /\ Left(t)
      BY <1>4, Answered
    <2>2. SvcsFrame(t) /\ HistoryFrame
      BY <1>1, <1>2, <1>4, SvcsSame DEF HistoryFrame
    <2> QED BY <1>1, <1>4, <2>1, <2>2, RegistrySame, EntriesSame DEF Frame
  <1>5. CASE Answer(t) /\ Room /\ svcs' = Built(Cur(t)) /\ leaked' = leaked \cup MadeBy(t) \cup {Len(svcs) + 1}
    <2>1. Building(svcs, svcs', Cur(t)) /\ Within(svcs, svcs', {Cur(t).name}) /\ Len(svcs') <= MaxBuilt
      BY <1>1, <1>5, SvcsBuilt
    <2>2. Others(t) /\ Left(t)
      BY <1>5, Answered
    <2>3. SvcsFrame(t)
      BY <1>1, <2>1, SvcsMade
    <2>4. HistoryFrame /\ \A s \in DOMAIN svcs' : s \in DOMAIN svcs \/ s \in leaked'
      BY <1>1, <1>2, <1>5, <2>1 DEF HistoryFrame, Building
    <2> QED BY <1>1, <1>5, <2>1, <2>2, <2>3, <2>4, RegistrySame, EntriesSame DEF Frame, Building
  <1> QED BY <1>3, <1>4, <1>5 DEF CreateParse, ParseFails

\* Steps that only go on.
LEMMA PlainEffect ==
    ASSUME Typed, NEW t \in Workers, UNCHANGED <<svcs, registry, entries, leaked, crossed>>, Others(t)
    PROVE  Frame(t)
  <1>1. SvcsFrame(t) /\ HistoryFrame
    BY SvcsSame DEF Typed, ServiceTypeOK, HistoryFrame
  <1> QED BY <1>1, RegistrySame, EntriesSame DEF Frame

LEMMA MadeCur ==
    ASSUME Typed, NEW t \in Workers, work[t].pc = "enter"
    PROVE  /\ work[t].op = "create" /\ DOMAIN work[t].made = DOMAIN work[t].items
           /\ More(t) => /\ work[t].made[work[t].i] \in Ids /\ For(work[t].made[work[t].i], Cur(t))
                         /\ work[t].i \in DOMAIN work[t].made
  <1>1. Steps(work[t]) /\ Hands(work[t]) /\ work[t] \in Work
    BY DEF Typed, ServiceTypeOK, Doing
  <1>2. work[t].op = "create"
    BY <1>1 DEF Steps, Work
  <1>3. DOMAIN work[t].made = DOMAIN work[t].items
    BY <1>1, <1>2, MadeOf, RequestOf DEF Hands
  <1>4. More(t) => work[t].i \in DOMAIN work[t].made
    BY <1>3, RequestOf
  <1>5. \A k \in DOMAIN work[t].made : work[t].made[k] \in Ids
    BY MadeOf, ElementOfSeq
  <1> QED BY <1>1, <1>2, <1>3, <1>4, <1>5, RequestOf DEF Hands

LEMMA RegisteredFor ==
    ASSUME Typed, NEW t \in Workers, NEW M, M \subseteq NamesIn(work[t].items)
    PROVE  \A s \in {registry[m] : m \in M} : s \in DOMAIN svcs => svcs[s].name \in M
  <1>1. \A n \in NamesIn(work[t].items) : n \in Services
    BY RequestOf
  <1>2. NoService \notin DOMAIN svcs
    BY ServicesOf, ServiceAssumption DEF Typed, ServiceTypeOK
  <1> QED BY <1>1, <1>2 DEF Typed, Named

LEMMA EnterEffect ==
    ASSUME Typed, NEW t \in Workers, CreateRegister(t)
    PROVE  /\ Frame(t) /\ UNCHANGED <<entries, crossed>> /\ work[t].pc = "enter" /\ More(t) /\ work[t].op = "create"
           /\ \/ /\ registry[Cur(t).name] = NoService /\ registry'[Cur(t).name] = work[t].made[work[t].i]
                 /\ \A m \in Services : m # Cur(t).name => registry'[m] = registry[m]
                 /\ UNCHANGED <<svcs, leaked>>
                 /\ Goes(t, "enter", work[t].i + 1) /\ Holds(t, work[t].made, work[t].new)
              \/ /\ registry[Cur(t).name] # NoService /\ Left(t)
                 /\ \A m \in Services : registry'[m] = IF m \in Before(t) THEN NoService ELSE registry[m]
                 /\ work[t].batch => /\ Closing(svcs, svcs', {registry[m] : m \in Before(t)})
                                     /\ {work[t].made[k] : k \in work[t].i..Len(work[t].made)} \subseteq leaked'
                 /\ ~work[t].batch => Closing(svcs, svcs', {work[t].made[1]})
  <1>1. work[t].pc = "enter" /\ More(t) /\ UNCHANGED <<entries, crossed>>
    BY DEF CreateRegister
  <1>2. /\ work[t].op = "create" /\ work[t].made[work[t].i] \in Ids /\ For(work[t].made[work[t].i], Cur(t))
        /\ DOMAIN work[t].made = DOMAIN work[t].items /\ work[t].i \in DOMAIN work[t].made
    BY <1>1, MadeCur
  <1>3. leaked \subseteq DOMAIN svcs /\ crossed \subseteq Services
    BY DEF Typed, ServiceTypeOK
  <1>4. CASE registry[Cur(t).name] = NoService
    <2>1. /\ registry' = [registry EXCEPT ![Cur(t).name] = work[t].made[work[t].i]]
          /\ work' = [work EXCEPT ![t].i = @ + 1] /\ UNCHANGED <<svcs, leaked>>
      BY <1>4 DEF CreateRegister
    <2>2. Others(t) /\ Goes(t, "enter", work[t].i + 1) /\ Holds(t, work[t].made, work[t].new)
      BY <1>1, <2>1, Turned
    <2>3. SvcsFrame(t) /\ HistoryFrame
      BY <1>1, <1>3, <2>1, SvcsSame DEF HistoryFrame
    <2>4. PICK s \in Ids : s = work[t].made[work[t].i]
      BY <1>2
    <2>5. /\ RegistryFrame(t) /\ registry'[Cur(t).name] = work[t].made[work[t].i]
          /\ \A m \in Services : m # Cur(t).name => registry'[m] = registry[m]
      BY <1>1, <1>2, <2>1, <2>3, <2>4, RegistryEntered
    <2> QED BY <1>1, <1>2, <1>4, <2>1, <2>2, <2>3, <2>5, EntriesSame DEF Frame
  <1>5. CASE registry[Cur(t).name] # NoService
    <2>1. /\ registry' = [m \in Services |-> IF m \in Before(t) THEN NoService ELSE registry[m]] /\ Answer(t)
          /\ work[t].batch => /\ svcs' = Shut(svcs, {registry[m] : m \in Before(t)})
                              /\ leaked' = leaked \cup {work[t].made[k] : k \in work[t].i..Len(work[t].made)}
          /\ ~work[t].batch => svcs' = Shut(svcs, {work[t].made[1]}) /\ leaked' = leaked
      BY <1>5 DEF CreateRegister
    <2>2. Others(t) /\ Left(t)
      BY <2>1, Answered
    <2>3. /\ \A m \in Services : registry'[m] = IF m \in Before(t) THEN NoService ELSE registry[m]
          /\ registry' \in [Services -> Ids \cup {NoService}]
      BY <2>1 DEF Typed, ServiceTypeOK
    <2>4. PICK N, B : N = NamesIn(work[t].items) /\ B = Before(t)
      OBVIOUS
    <2>5. B \subseteq N
      BY <2>4, RequestOf
    <2>6. CASE work[t].batch
      <3>1. PICK S : S = {registry[m] : m \in B}
        OBVIOUS
      <3>2. \A s \in S : s \in DOMAIN svcs => svcs[s].name \in B
        BY <2>4, <2>5, <3>1, RegisteredFor
      <3>3. SvcsFrame(t) /\ Closing(svcs, svcs', S)
        BY <2>1, <2>4, <2>5, <2>6, <3>1, <3>2, SvcsClosed
      <3>4. {work[t].made[k] : k \in work[t].i..Len(work[t].made)} \subseteq DOMAIN svcs
        <4>1. /\ \A k \in work[t].i..Len(work[t].made) : k \in DOMAIN work[t].made
              /\ \A k \in DOMAIN work[t].made : work[t].made[k] \in DOMAIN svcs
          BY <1>2, MadeOf, RequestOf DEF For
        <4> QED BY <4>1
      <3>5. HistoryFrame
        BY <1>1, <1>3, <2>1, <2>6, <3>3, <3>4 DEF HistoryFrame, Closing
      <3>6. RegistryFrame(t)
        BY <2>3, <2>4, <2>5, <3>3, RegistryEmptied
      <3> QED BY <1>1, <1>2, <1>5, <2>1, <2>2, <2>3, <2>4, <2>6, <3>1, <3>3, <3>5, <3>6, EntriesSame DEF Frame
    <2>7. CASE ~work[t].batch
      <3>1. PICK S : S = {work[t].made[1]}
        OBVIOUS
      <3>2. 1 \in DOMAIN work[t].made
        BY <1>2, MadeOf
      <3>3. \A s \in S : svcs[s].name \in N
        <4>1. For(work[t].made[1], work[t].items[1]) /\ 1 \in DOMAIN work[t].items
          BY <3>2, MadeOf
        <4>2. work[t].items[1].name \in N
          BY <2>4, <4>1, ItemOf
        <4> QED BY <3>1, <4>1, <4>2 DEF For
      <3>4. SvcsFrame(t) /\ Closing(svcs, svcs', S)
        BY <2>1, <2>4, <2>7, <3>1, <3>3, SvcsClosed
      <3>5. HistoryFrame
        BY <1>1, <1>3, <2>1, <2>7, <3>4 DEF HistoryFrame, Closing
      <3>6. RegistryFrame(t)
        BY <2>3, <2>4, <2>5, <3>4, RegistryEmptied
      <3> QED BY <1>1, <1>2, <1>5, <2>1, <2>2, <2>3, <2>7, <3>1, <3>4, <3>5, <3>6, EntriesSame DEF Frame
    <2> QED BY <2>6, <2>7
  <1> QED BY <1>4, <1>5

LEMMA ServeEffect ==
    ASSUME Typed, NEW t \in Workers, CreateServe(t)
    PROVE  /\ Frame(t) /\ UNCHANGED <<registry, entries, leaked, crossed>> /\ work[t].pc = "enter" /\ ~More(t)
           /\ Goes(t, "config", work[t].i) /\ Holds(t, work[t].made, work[t].new) /\ work[t].op = "create"
           /\ Serving(svcs, svcs', IF work[t].batch THEN {registry[n] : n \in NamesIn(work[t].items)} ELSE {work[t].made[1]})
  <1>1. PICK S : S = IF work[t].batch THEN {registry[n] : n \in NamesIn(work[t].items)} ELSE {work[t].made[1]}
    OBVIOUS
  <1>2. /\ work[t].pc = "enter" /\ ~More(t) /\ svcs' = Serve(S) /\ Proceed(t, "config")
        /\ UNCHANGED <<registry, entries, leaked, crossed>>
    BY <1>1 DEF CreateServe
  <1>3. Others(t) /\ Goes(t, "config", work[t].i) /\ Holds(t, work[t].made, work[t].new)
    BY <1>2, Proceeded DEF Labels
  <1>4. work[t].op = "create" /\ DOMAIN work[t].made = DOMAIN work[t].items
    BY <1>2, MadeCur
  <1>5. \A s \in S : s \in DOMAIN svcs => svcs[s].name \in NamesIn(work[t].items)
    <2>1. CASE work[t].batch
      <3>1. PICK N : N = NamesIn(work[t].items)
        OBVIOUS
      <3> QED BY <1>1, <2>1, <3>1, RegisteredFor
    <2>2. CASE ~work[t].batch
      <3>1. Len(work[t].items) = 1
        BY <1>4, <2>2 DEF Typed, Doing, Steps
      <3>2. 1 \in DOMAIN work[t].made
        BY <1>4, <3>1, RequestOf
      <3>3. For(work[t].made[1], work[t].items[1]) /\ 1 \in DOMAIN work[t].items
        BY <3>2, MadeOf
      <3> QED BY <1>1, <2>2, <3>3, ItemOf DEF For
    <2> QED BY <2>1, <2>2
  <1>6. SvcsFrame(t) /\ Serving(svcs, svcs', S)
    BY <1>2, <1>5, SvcsServed
  <1>7. HistoryFrame
    BY <1>2, <1>6 DEF HistoryFrame, Serving, Typed, ServiceTypeOK
  <1> QED BY <1>1, <1>2, <1>3, <1>4, <1>6, <1>7, RegistrySame, EntriesSame DEF Frame

LEMMA CloseEffect ==
    ASSUME Typed, NEW t \in Workers, CloseOld(t)
    PROVE  /\ Frame(t) /\ UNCHANGED <<registry, entries, leaked>> /\ work[t].pc = "close" /\ More(t)
           /\ \/ Left(t) /\ crossed' = crossed \cup NamesIn(work[t].items) /\ svcs' = svcs
              \/ /\ Goes(t, "drop", work[t].i) /\ Holds(t, work[t].made, work[t].new) /\ crossed' = crossed
                 /\ Closing(svcs, svcs', {registry[Cur(t).name]}) /\ Within(svcs, svcs', {Cur(t).name})
  <1>1. work[t].pc = "close" /\ More(t) /\ UNCHANGED <<registry, entries, leaked>>
    BY DEF CloseOld
  <1>2. leaked \subseteq DOMAIN svcs /\ crossed \subseteq Services /\ NamesIn(work[t].items) \subseteq Services
    BY RequestOf DEF Typed, ServiceTypeOK
  <1>3. CASE Answer(t) /\ crossed' = crossed \cup NamesIn(work[t].items) /\ svcs' = svcs
    <2>1. SvcsFrame(t) /\ HistoryFrame
      BY <1>1, <1>2, <1>3, SvcsSame DEF HistoryFrame
    <2> QED BY <1>1, <1>3, <2>1, Answered, RegistrySame, EntriesSame DEF Frame
  <1>4. CASE svcs' = Shut(svcs, {registry[Cur(t).name]}) /\ Proceed(t, "drop") /\ crossed' = crossed
    <2>1. PICK S, M : S = {registry[Cur(t).name]} /\ M = {Cur(t).name}
      OBVIOUS
    <2>2. M \subseteq NamesIn(work[t].items) /\ S = {registry[m] : m \in M}
      BY <1>1, <2>1, RequestOf
    <2>3. \A s \in S : s \in DOMAIN svcs => svcs[s].name \in M
      BY <2>2, RegisteredFor
    <2>4. SvcsFrame(t) /\ Closing(svcs, svcs', S) /\ Within(svcs, svcs', M)
      BY <1>4, <2>1, <2>2, <2>3, SvcsClosed
    <2>5. HistoryFrame
      BY <1>1, <1>2, <1>4, <2>4 DEF HistoryFrame, Closing
    <2>6. Others(t) /\ Goes(t, "drop", work[t].i) /\ Holds(t, work[t].made, work[t].new)
      BY <1>4, Proceeded DEF Labels
    <2> QED BY <1>1, <1>4, <2>1, <2>4, <2>5, <2>6, RegistrySame, EntriesSame DEF Frame
  <1> QED BY <1>3, <1>4 DEF CloseOld

LEMMA DropEffect ==
    ASSUME Typed, NEW t \in Workers, Unregister(t)
    PROVE  /\ Frame(t) /\ UNCHANGED <<entries, leaked, crossed>> /\ work[t].pc = "drop" /\ More(t)
           /\ Closing(svcs, svcs', {registry[Cur(t).name]}) /\ Within(svcs, svcs', {Cur(t).name})
           /\ registry'[Cur(t).name] = NoService
           /\ \A m \in Services : m # Cur(t).name => registry'[m] = registry[m]
           /\ Holds(t, work[t].made, work[t].new)
           /\ work[t].op = "delete" => Goes(t, "close", work[t].i + 1)
           /\ work[t].op # "delete" => Goes(t, "parse", work[t].i)
  <1>1. work[t].pc = "drop" /\ UNCHANGED <<entries, leaked, crossed>>
    BY DEF Unregister
  <1>2. More(t)
    BY <1>1, RequestOf DEF Typed, Doing, Steps
  <1>3. PICK n \in Services : n = Cur(t).name /\ n \in NamesIn(work[t].items)
    BY <1>2, RequestOf
  <1>4. registry' = [registry EXCEPT ![n] = NoService]
    BY <1>3 DEF Unregister
  <1>5. /\ registry' \in [Services -> Ids \cup {NoService}]
        /\ \A m \in Services : registry'[m] = IF m \in {n} THEN NoService ELSE registry[m]
    BY <1>4 DEF Typed, ServiceTypeOK
  <1>6. /\ SvcsFrame(t) /\ HistoryFrame
        /\ Closing(svcs, svcs', {registry[Cur(t).name]}) /\ Within(svcs, svcs', {Cur(t).name})
    <2>1. PICK S, M : S = {registry[n]} /\ M = {n}
      OBVIOUS
    <2>2. M \subseteq NamesIn(work[t].items) /\ S = {registry[m] : m \in M}
      BY <1>3, <2>1
    <2>3. \A s \in S : s \in DOMAIN svcs => svcs[s].name \in M
      BY <2>2, RegisteredFor
    <2>4. svcs' = Shut(svcs, S)
      BY <1>3, <2>1 DEF Unregister
    <2>5. SvcsFrame(t) /\ Closing(svcs, svcs', S) /\ Within(svcs, svcs', M)
      BY <2>2, <2>3, <2>4, SvcsClosed
    <2>6. HistoryFrame
      BY <1>1, <2>5 DEF HistoryFrame, Closing, Typed, ServiceTypeOK
    <2> QED BY <1>3, <2>1, <2>5, <2>6
  <1>7. RegistryFrame(t)
    <2>1. {n} \subseteq NamesIn(work[t].items)
      BY <1>3
    <2> QED BY <1>5, <1>6, <2>1, RegistryEmptied
  <1>8. /\ Others(t) /\ Holds(t, work[t].made, work[t].new)
        /\ work[t].op = "delete" => Goes(t, "close", work[t].i + 1)
        /\ work[t].op # "delete" => Goes(t, "parse", work[t].i)
    <2>1. CASE work[t].op = "delete"
      <3>1. PICK j \in Nat : j = work[t].i + 1
        BY RequestOf
      <3>2. work' = [work EXCEPT ![t].i = j, ![t].pc = "close"]
        BY <2>1, <3>1 DEF Unregister
      <3>3. work' = [work EXCEPT ![t].pc = "close", ![t].i = j]
        BY <3>2
      <3> QED BY <2>1, <3>1, <3>3, Advanced DEF Labels
    <2>2. CASE work[t].op # "delete"
      BY <2>2, Proceeded DEF Unregister, Labels
    <2> QED BY <2>1, <2>2
  <1> QED BY <1>1, <1>2, <1>3, <1>5, <1>6, <1>7, <1>8, EntriesSame DEF Frame

\* A request that fails with the services s, and one that fails all in all.
Failing(t) ==
    /\ Left(t) /\ registry' = registry
    /\ crossed' = crossed \cup {Cur(t).name} \cup (IF work[t].op = "update" THEN Before(t) ELSE {})
    /\ Within(svcs, svcs', {Cur(t).name} \cup Before(t))
    /\ \A s \in DOMAIN svcs : svcs[s].name # Cur(t).name => svcs'[s].served = svcs[s].served
    /\ \A n \in Services \ Before(t) : entries'[n] = entries[n]
    /\ ~(work[t].op = "resume" /\ work[t].batch) => Within(svcs, svcs', {Cur(t).name}) /\ entries' = entries
    /\ work[t].op = "resume" /\ work[t].batch => entries' = Marked(Before(t), TRUE)

FailsWith(t, s) ==
    /\ SvcsFrame(t) /\ EntriesFrame(t) /\ Others(t) /\ Failing(t) /\ DOMAIN svcs' = DOMAIN s
    /\ \A k \in DOMAIN s : /\ svcs'[k].served = s[k].served /\ svcs'[k].name = s[k].name
                           /\ svcs'[k].open => s[k].open

LEMMA FailsEffect ==
    ASSUME Typed, NEW t \in Workers, More(t), NEW s \in Seq(Service), Within(svcs, s, {Cur(t).name}),
           Len(s) <= MaxBuilt, Fails(t, s), registry' = registry
    PROVE  FailsWith(t, s)
  <1>1. PICK v \in Seq(Service) : v = svcs
    BY DEF Typed, ServiceTypeOK
  <1>1a. PICK B, n, N : B = Before(t) /\ n = Cur(t).name /\ N = NamesIn(work[t].items)
    OBVIOUS
  <1>2. n \in N /\ B \subseteq N /\ N \subseteq Services /\ {n} \subseteq {n} \cup B /\ {n} \cup B \subseteq N
    BY <1>1, <1>1a, RequestOf
  <1>3. Others(t) /\ Left(t) /\ crossed' = crossed \cup {n} \cup (IF work[t].op = "update" THEN B ELSE {})
    BY <1>1, <1>1a, Answered DEF Fails
  <1>4. Within(v, s, {n}) /\ Within(v, s, {n} \cup B)
    BY <1>1, <1>1a, <1>2, WithinMore
  <1>5. CASE ~(work[t].op = "resume" /\ work[t].batch)
    <2>1. svcs' = s /\ entries' = entries
      BY <1>5 DEF Fails
    <2>2. SvcsFrame(t)
      BY <1>1, <1>1a, <1>2, <1>4, <2>1, WithinMore DEF SvcsFrame
    <2> QED BY <1>1, <1>1a, <1>3, <1>4, <1>5, <2>1, <2>2, EntriesSame DEF FailsWith, Failing, Within
  <1>6. CASE work[t].op = "resume" /\ work[t].batch
    <2>1. PICK S : S = {registry[m] : m \in B}
      OBVIOUS
    <2>2. svcs' = Shut(s, S) /\ entries' = Marked(B, TRUE)
      BY <1>1, <1>1a, <1>6, <2>1 DEF Fails
    <2>3. PICK q : q = svcs' /\ Closing(s, q, S)
      BY <2>2, Closes
    <2>4. \A k \in S : k \in DOMAIN s => s[k].name \in B
      <3>1. NoService \notin DOMAIN s
        BY ServicesOf, ServiceAssumption
      <3>2. \A m \in B : registry[m] # NoService => registry[m] \in DOMAIN v /\ v[registry[m]].name = m
        BY <1>1, <1>1a, <1>2 DEF Typed, Named
      <3> QED BY <1>1, <1>1a, <2>1, <3>1, <3>2 DEF Within
    <2>5. Within(s, q, B) /\ Len(q) = Len(s)
      BY <2>3, <2>4, ClosingWithin
    <2>6. Within(s, q, {n} \cup B)
      BY <2>5, WithinMore
    <2>7. Within(v, q, {n} \cup B)
      BY <1>4, <2>6, WithinTwice
    <2>8. Within(v, q, N)
      BY <1>2, <2>7, WithinMore
    <2>9. /\ entries' \in [Services -> Seq(ConfigEntry)]
          /\ \A m \in Services \ B : entries'[m] = entries[m]
      <3>1. entries \in [Services -> Seq(ConfigEntry)]
        BY DEF Typed, ServiceTypeOK
      <3>2. /\ Marked(B, TRUE) \in [Services -> Seq(ConfigEntry)]
            /\ \A m \in Services : m \notin B => Marked(B, TRUE)[m] = entries[m]
        <4>1. MarkedAs(B, TRUE)
          BY <3>1, Marks, Zenon
        <4> QED BY <4>1 DEF MarkedAs
      <3> QED BY <2>2, <3>2
    <2>10. EntriesFrame(t)
      BY <1>1, <1>1a, <1>2, <2>9 DEF EntriesFrame
    <2>11. SvcsFrame(t)
      BY <1>1, <1>1a, <2>3, <2>5, <2>8 DEF SvcsFrame
    <2>12. DOMAIN svcs' = DOMAIN s
           /\ \A k \in DOMAIN s : /\ svcs'[k].served = s[k].served /\ svcs'[k].name = s[k].name
                                  /\ svcs'[k].open => s[k].open
      BY <2>3 DEF Closing
    <2>13. \A k \in DOMAIN svcs : svcs[k].name # Cur(t).name => svcs'[k].served = svcs[k].served
      BY <1>1, <1>1a, <1>4, <2>12 DEF Within
    <2>14. Failing(t)
      BY <1>1, <1>1a, <1>3, <1>6, <2>2, <2>3, <2>7, <2>9, <2>13 DEF Failing
    <2> QED BY <1>3, <2>10, <2>11, <2>12, <2>14 DEF FailsWith
  <1> QED BY <1>5, <1>6

LEMMA ReparseEffect ==
    ASSUME Typed, NEW t \in Workers, Reparse(t)
    PROVE  /\ Frame(t) /\ registry' = registry /\ work[t].pc = "parse" /\ More(t)
           /\ \/ /\ Building(svcs, svcs', Cur(t)) /\ Within(svcs, svcs', {Cur(t).name})
                 /\ Len(svcs) + 1 \in Ids /\ UNCHANGED <<entries, leaked, crossed>>
                 /\ Goes(t, "register", work[t].i) /\ Holds(t, work[t].made, Len(svcs) + 1)
              \/ Failing(t) /\ \A s \in DOMAIN svcs' : s \in DOMAIN svcs \/ s \in leaked'
  <1>1. work[t].pc = "parse" /\ registry' = registry
    BY DEF Reparse
  <1>2. More(t)
    BY <1>1, RequestOf DEF Typed, Doing, Steps
  <1>3. PICK v \in Seq(Service) : v = svcs
    BY DEF Typed, ServiceTypeOK
  <1>3a. PICK n : n = Cur(t).name
    OBVIOUS
  <1>4. leaked \subseteq DOMAIN svcs /\ crossed \subseteq Services /\ Len(v) <= MaxBuilt
    BY <1>3, <1>3a DEF Typed, ServiceTypeOK
  <1>5. Cur(t).name \in Services /\ Before(t) \subseteq Services
    BY <1>2, RequestOf
  <1>6. CASE /\ Room /\ svcs' = Built(Cur(t))
             /\ work' = [work EXCEPT ![t].new = Len(svcs) + 1, ![t].pc = "register"]
             /\ UNCHANGED <<leaked, crossed, entries>>
    <2>1. Building(svcs, svcs', Cur(t)) /\ Within(svcs, svcs', {Cur(t).name}) /\ Len(svcs') <= MaxBuilt
          /\ Len(svcs) + 1 \in Ids
      BY <1>2, <1>6, SvcsBuilt
    <2>2. PICK s \in Ids : s = Len(svcs) + 1
      BY <2>1
    <2>3. Others(t) /\ Goes(t, "register", work[t].i) /\ Holds(t, work[t].made, Len(svcs) + 1)
      BY <1>6, <2>2, Renewed
    <2>4. SvcsFrame(t)
      BY <1>2, <2>1, SvcsMade
    <2>5. HistoryFrame
      BY <1>4, <1>6, <2>1 DEF HistoryFrame, Within
    <2> QED BY <1>1, <1>2, <1>6, <2>1, <2>3, <2>4, <2>5, RegistrySame, EntriesSame DEF Frame
  <1>7. CASE Fails(t, svcs) /\ leaked' = leaked
    <2>1. Within(v, v, {n})
      BY WithinSame
    <2>2. FailsWith(t, v)
      BY <1>1, <1>2, <1>3, <1>3a, <1>4, <1>7, <2>1, FailsEffect
    <2>3. DOMAIN svcs' = DOMAIN svcs
      BY <1>3, <1>3a, <2>2 DEF FailsWith
    <2>4. HistoryFrame
      BY <1>4, <1>5, <1>7, <2>2, <2>3 DEF HistoryFrame, FailsWith, Failing
    <2> QED BY <1>1, <1>2, <2>2, <2>3, <2>4, RegistrySame DEF Frame, FailsWith
  <1>8. CASE Room /\ Fails(t, Built(Cur(t))) /\ leaked' = leaked \cup {Len(svcs) + 1}
    <2>0. PICK s : s = Built(Cur(t))
      OBVIOUS
    <2>1. /\ Building(svcs, s, Cur(t)) /\ Within(svcs, s, {Cur(t).name}) /\ Len(s) <= MaxBuilt
          /\ s \in Seq(Service)
      BY <1>2, <1>8, <2>0, SvcsBuilt
    <2>2. FailsWith(t, s)
      BY <1>1, <1>2, <1>8, <2>0, <2>1, FailsEffect
    <2>3. DOMAIN svcs' = DOMAIN s
      BY <2>2 DEF FailsWith
    <2>4. HistoryFrame /\ \A k \in DOMAIN svcs' : k \in DOMAIN svcs \/ k \in leaked'
      BY <1>4, <1>5, <1>8, <2>1, <2>2, <2>3 DEF HistoryFrame, FailsWith, Failing, Building
    <2> QED BY <1>1, <1>2, <2>2, <2>4, RegistrySame DEF Frame, FailsWith
  <1> QED BY <1>6, <1>7, <1>8 DEF Reparse

LEMMA RegisterEffect ==
    ASSUME Typed, NEW t \in Workers, Register(t)
    PROVE  /\ Frame(t) /\ leaked' = leaked /\ work[t].pc = "register" /\ More(t) /\ DOMAIN svcs' = DOMAIN svcs
           /\ work[t].new \in Ids /\ For(work[t].new, Cur(t))
           /\ \/ /\ registry[Cur(t).name] = NoService /\ registry'[Cur(t).name] = work[t].new
                 /\ \A m \in Services : m # Cur(t).name => registry'[m] = registry[m]
                 /\ Serving(svcs, svcs', {work[t].new}) /\ UNCHANGED <<entries, crossed>>
                 /\ Goes(t, "close", work[t].i + 1) /\ Holds(t, work[t].made, NoService)
              \/ Failing(t) /\ (work[t].new \in DOMAIN svcs' => ~svcs'[work[t].new].open)
  <1>1. work[t].pc = "register" /\ leaked' = leaked
    BY DEF Register
  <1>2. More(t)
    BY <1>1, RequestOf DEF Typed, Doing, Steps
  <1>3. PICK x \in Ids : x = work[t].new /\ For(x, Cur(t))
    <2>1. Hands(work[t]) /\ work[t] \in Work
      BY DEF Typed, ServiceTypeOK, Doing
    <2> QED BY <1>1, <2>1 DEF Hands, Work, Cur
  <1>4. PICK v \in Seq(Service) : v = svcs
    BY DEF Typed, ServiceTypeOK
  <1>4a. PICK n : n = Cur(t).name
    OBVIOUS
  <1>5. leaked \subseteq DOMAIN svcs /\ crossed \subseteq Services /\ Len(v) <= MaxBuilt
    BY <1>4, <1>4a DEF Typed, ServiceTypeOK
  <1>6. Cur(t).name \in Services /\ Before(t) \subseteq Services /\ Cur(t).name \in NamesIn(work[t].items)
    BY <1>2, RequestOf
  <1>7. x \in DOMAIN v /\ v[x].name = n
    BY <1>3, <1>4, <1>4a DEF For
  <1>8. CASE registry[Cur(t).name] = NoService
    <2>1. /\ registry' = [registry EXCEPT ![Cur(t).name] = x] /\ svcs' = Serve({x})
          /\ work' = [work EXCEPT ![t].i = @ + 1, ![t].pc = "close", ![t].new = NoService]
          /\ UNCHANGED <<entries, crossed>>
      BY <1>3, <1>8 DEF Register
    <2>2. PICK S : S = {x}
      OBVIOUS
    <2>3. SvcsFrame(t) /\ Serving(svcs, svcs', S)
      <3>1. \A s \in S : s \in DOMAIN svcs => svcs[s].name \in NamesIn(work[t].items)
        BY <1>4, <1>4a, <1>6, <1>7, <2>2
      <3>2. svcs' = Serve(S)
        BY <2>1, <2>2
      <3> QED BY <3>1, <3>2, SvcsServed
    <2>4. /\ RegistryFrame(t) /\ registry'[Cur(t).name] = x
          /\ \A m \in Services : m # Cur(t).name => registry'[m] = registry[m]
      BY <1>2, <1>3, <2>1, <2>3, RegistryEntered
    <2>5. HistoryFrame
      BY <1>1, <1>5, <2>1, <2>3 DEF HistoryFrame, Serving
    <2> QED BY <1>1, <1>2, <1>3, <1>8, <2>1, <2>2, <2>3, <2>4, <2>5, HandedOver, EntriesSame DEF Frame, Serving
  <1>9. CASE registry[Cur(t).name] # NoService
    <2>1. Fails(t, Shut(svcs, {x})) /\ registry' = registry
      BY <1>3, <1>9 DEF Register
    <2>2. PICK s : s = Shut(v, {x}) /\ Closing(v, s, {x})
      BY Closes
    <2>3. Within(v, s, {n}) /\ Len(s) = Len(v)
      BY <1>7, <2>2, ClosingWithin
    <2>4. s \in Seq(Service)
      BY <2>2 DEF Closing
    <2>5. FailsWith(t, s)
      BY <1>2, <1>4, <1>4a, <1>5, <2>1, <2>2, <2>3, <2>4, FailsEffect
    <2>6. DOMAIN svcs' = DOMAIN svcs /\ ~svcs'[x].open
      BY <1>4, <1>4a, <1>7, <2>2, <2>5 DEF FailsWith, Closing
    <2>7. HistoryFrame
      BY <1>1, <1>5, <1>6, <2>5, <2>6 DEF HistoryFrame, FailsWith, Failing
    <2> QED BY <1>1, <1>2, <1>3, <2>1, <2>5, <2>6, <2>7, RegistrySame DEF Frame, FailsWith
  <1> QED BY <1>8, <1>9

LEMMA WriteEffect ==
    ASSUME Typed, NEW t \in Workers, WriteConfig(t)
    PROVE  /\ Frame(t) /\ UNCHANGED <<svcs, registry, leaked, crossed>> /\ work[t].pc = "config" /\ Left(t)
           /\ work[t].op = "create" => entries' = Appended(work[t].items)
           /\ work[t].op = "update" => entries' = Replaced(work[t].items)
           /\ work[t].op = "delete" => entries' = Removed(work[t].items)
           /\ work[t].op = "pause" => entries' = Marked(NamesIn(work[t].items), TRUE)
           /\ work[t].op = "resume" => entries' = Marked(NamesIn(work[t].items), FALSE)
  <1>1. PICK l \in Seq(Item) : l = work[t].items /\ Distinct(l)
    BY RequestOf
  <1>1a. PICK N : N = NamesIn(l)
    OBVIOUS
  <1>2. work[t].pc = "config" /\ Answer(t) /\ UNCHANGED <<svcs, registry, leaked, crossed>>
    BY DEF WriteConfig
  <1>3. /\ work[t].op = "create" => entries' = Appended(l)
        /\ work[t].op = "update" => entries' = Replaced(l)
        /\ work[t].op = "delete" => entries' = Removed(l)
        /\ work[t].op = "pause" => entries' = Marked(N, TRUE)
        /\ work[t].op = "resume" => entries' = Marked(N, FALSE)
    BY <1>1, <1>1a DEF WriteConfig
  <1>4. work[t].op \in {"create", "update", "delete", "pause", "resume"}
    <2>1. work[t] \in Work /\ Steps(work[t])
      BY DEF Typed, ServiceTypeOK, Doing
    <2> QED BY <1>2, <2>1 DEF Work, Steps
  <1>5. EntriesFrame(t)
    <2>1. entries \in [Services -> Seq(ConfigEntry)]
      BY DEF Typed, ServiceTypeOK
    <2>2. /\ Appended(l) \in [Services -> Seq(ConfigEntry)]
          /\ \A n \in Services \ N : Appended(l)[n] = entries[n]
      BY <1>1, <1>1a, <2>1, Appends
    <2>3. /\ Replaced(l) \in [Services -> Seq(ConfigEntry)]
          /\ \A n \in Services \ N : Replaced(l)[n] = entries[n]
      BY <1>1, <1>1a, <2>1, Replaces
    <2>4. /\ Removed(l) \in [Services -> Seq(ConfigEntry)]
          /\ \A n \in Services \ N : Removed(l)[n] = entries[n]
      BY <1>1, <1>1a, <2>1, Removes
    <2>5. /\ Marked(N, TRUE) \in [Services -> Seq(ConfigEntry)]
          /\ \A n \in Services \ N : Marked(N, TRUE)[n] = entries[n]
      <3>1. MarkedAs(N, TRUE)
        BY <2>1, Marks, Zenon
      <3> QED BY <3>1 DEF MarkedAs
    <2>6. /\ Marked(N, FALSE) \in [Services -> Seq(ConfigEntry)]
          /\ \A n \in Services \ N : Marked(N, FALSE)[n] = entries[n]
      <3>1. MarkedAs(N, FALSE)
        BY <2>1, Marks, Zenon
      <3> QED BY <3>1 DEF MarkedAs
    <2>7. \E e \in [Services -> Seq(ConfigEntry)] : entries' = e /\ \A n \in Services \ N : e[n] = entries[n]
      BY <1>3, <1>4, <2>2, <2>3, <2>4, <2>5, <2>6
    <2> QED BY <1>1, <1>1a, <2>7 DEF EntriesFrame
  <1>6. Others(t) /\ Left(t)
    BY <1>2, Answered
  <1>7. SvcsFrame(t) /\ HistoryFrame
    BY <1>2, SvcsSame DEF Typed, ServiceTypeOK, HistoryFrame
  <1> QED BY <1>1, <1>1a, <1>2, <1>3, <1>5, <1>6, <1>7, RegistrySame DEF Frame

-----------------------------------------------------------------------------
(* How a request starts.                                                    *)

Ops == {"create", "update", "delete", "pause", "resume"}
First(op) == IF op = "create" THEN "check" ELSE IF op = "pause" THEN "config" ELSE "close"
ByEntries(l) == \A k \in DOMAIN l : entries[l[k].name] # <<>> /\ l[k].addr = entries[l[k].name][1].addr

Starts(t, op, batch, l) ==
    /\ l \in Seq(Item) /\ Distinct(l) /\ (batch \/ Len(l) = 1) /\ Start(t, op, batch, l, First(op))
    /\ op # "create" => Registered(l)
    /\ op = "resume" => ByEntries(l)

Begins(t) == \E op \in Ops : \E batch \in BOOLEAN : \E l : Starts(t, op, batch, l)

LEMMA EntriesRead ==
    ASSUME Typed, NEW l \in Seq(Item), Distinct(l), \A n \in NamesIn(l) : entries[n] # <<>>
    PROVE  /\ FromConfig(l) \in Seq(Item) /\ Distinct(FromConfig(l)) /\ Len(FromConfig(l)) = Len(l)
           /\ NamesIn(FromConfig(l)) = NamesIn(l) /\ ByEntries(FromConfig(l))
  <1>1. /\ Len(l) \in Nat /\ DOMAIN l = 1..Len(l)
        /\ \A k \in DOMAIN l : l[k] \in Item /\ l[k].name \in Services /\ l[k].name \in NamesIn(l)
    BY ItemsOf
  <1>2. \A n \in NamesIn(l) : entries[n][1].addr \in Addrs
    <2> SUFFICES ASSUME NEW n \in NamesIn(l) PROVE entries[n][1].addr \in Addrs
      OBVIOUS
    <2>1. PICK e \in Seq(ConfigEntry) : e = entries[n] /\ e # <<>>
      BY ItemsOf DEF Typed, ServiceTypeOK
    <2>2. e[1] \in ConfigEntry
      <3>1. Len(e) \in Nat /\ Len(e) # 0
        BY <2>1, EmptySeq, LenProperties
      <3> QED BY <3>1, ElementOfSeq
    <2> QED BY <2>1, <2>2 DEF ConfigEntry
  <1>3. PICK m : m = FromConfig(l)
    OBVIOUS
  <1>4. m = [k \in DOMAIN l |-> [name |-> l[k].name, addr |-> entries[l[k].name][1].addr]]
    BY <1>3 DEF FromConfig
  <1>5. \A k \in DOMAIN l : m[k] \in Item /\ m[k].name = l[k].name /\ m[k].addr = entries[l[k].name][1].addr
    BY <1>1, <1>2, <1>4 DEF Item
  <1>6. DOMAIN m = DOMAIN l /\ m \in [1..Len(l) -> Item]
    BY <1>1, <1>4, <1>5
  <1>7. m \in Seq(Item) /\ Len(m) = Len(l)
    BY <1>1, <1>6, SeqDef, LenProperties
  <1>8. NamesIn(m) = NamesIn(l)
    BY <1>5, <1>6 DEF NamesIn
  <1>9. ByEntries(m)
    BY <1>1, <1>5, <1>6 DEF ByEntries
  <1> QED BY <1>3, <1>5, <1>6, <1>7, <1>8, <1>9 DEF Distinct

LEMMA PartStarts ==
    ASSUME Typed, NEW t \in Workers, NEW l \in Lists, Registered(l), NEW S \in SUBSET DOMAIN l, NEW m \in Only(l, S)
    PROVE  /\ m \in Seq(Item) /\ Distinct(m) /\ Registered(m) /\ NamesIn(m) \subseteq NamesIn(l)
  <1>1. l \in Seq(Item) /\ Distinct(l)
    BY ListsOf
  <1>2. m \in Seq(Item) /\ Distinct(m) /\ \A k \in DOMAIN m : \E j \in S : m[k] = l[j]
    BY <1>1, SomeItems
  <1>3. NamesIn(m) \subseteq NamesIn(l)
    BY <1>2 DEF NamesIn
  <1> QED BY <1>2, <1>3 DEF Registered

LEMMA Starting ==
    ASSUME Typed, NEW t \in Workers,
           \/ createService(t) \/ createServices(t) \/ updateService(t) \/ updateServices(t)
           \/ deleteServices(t) \/ pauseService(t) \/ pauseServices(t)
           \/ resumeService(t) \/ resumeServices(t)
    PROVE  Begins(t)
  <1>1. CASE createService(t)
    <2>1. PICK l \in Lists : Len(l) = 1 /\ Start(t, "create", FALSE, l, "check")
      BY <1>1 DEF createService
    <2>2. Starts(t, "create", FALSE, l)
      BY <2>1, ListsOf DEF Starts, First
    <2> QED BY <2>2, Zenon DEF Begins, Ops
  <1>2. CASE createServices(t)
    <2>1. PICK l \in Lists : Start(t, "create", TRUE, l, "check")
      BY <1>2 DEF createServices
    <2>2. Starts(t, "create", TRUE, l)
      BY <2>1, ListsOf DEF Starts, First
    <2> QED BY <2>2, Zenon DEF Begins, Ops
  <1>3. CASE updateService(t)
    <2>1. PICK l \in Lists : Len(l) = 1 /\ Registered(l) /\ Start(t, "update", FALSE, l, "close")
      BY <1>3 DEF updateService
    <2>2. Starts(t, "update", FALSE, l)
      BY <2>1, ListsOf DEF Starts, First
    <2> QED BY <2>2, Zenon DEF Begins, Ops
  <1>4. CASE updateServices(t)
    <2>1. PICK l \in Lists : Registered(l) /\ Start(t, "update", TRUE, l, "close")
      BY <1>4 DEF updateServices
    <2>2. Starts(t, "update", TRUE, l)
      BY <2>1, ListsOf DEF Starts, First
    <2> QED BY <2>2, Zenon DEF Begins, Ops
  <1>5. CASE deleteServices(t)
    <2>1. PICK l \in Lists : Registered(l) /\ Start(t, "delete", TRUE, l, "close")
      BY <1>5 DEF deleteServices
    <2>2. Starts(t, "delete", TRUE, l)
      BY <2>1, ListsOf DEF Starts, First
    <2> QED BY <2>2, Zenon DEF Begins, Ops
  <1>6. CASE pauseService(t)
    <2>1. PICK l \in Lists : Len(l) = 1 /\ Registered(l) /\ Start(t, "pause", FALSE, l, "config")
      BY <1>6 DEF pauseService
    <2>2. Starts(t, "pause", FALSE, l)
      BY <2>1, ListsOf DEF Starts, First
    <2> QED BY <2>2, Zenon DEF Begins, Ops
  <1>7. CASE pauseServices(t)
    <2>0. PICK l \in Lists :
             /\ Registered(l)
             /\ \E m \in Only(l, {k \in DOMAIN l : ~IsPaused(l[k].name)}) : Start(t, "pause", TRUE, m, "config")
      BY <1>7 DEF pauseServices
    <2>1. PICK m \in Only(l, {k \in DOMAIN l : ~IsPaused(l[k].name)}) : Start(t, "pause", TRUE, m, "config")
      BY <2>0
    <2>2. PICK S \in SUBSET DOMAIN l : S = {k \in DOMAIN l : ~IsPaused(l[k].name)}
      OBVIOUS
    <2>3. m \in Seq(Item) /\ Distinct(m) /\ Registered(m)
      BY <2>0, <2>1, <2>2, PartStarts
    <2>4. Starts(t, "pause", TRUE, m)
      BY <2>1, <2>3 DEF Starts, First
    <2> QED BY <2>4, Zenon DEF Begins, Ops
  <1>8. CASE resumeService(t)
    <2>1. PICK l \in Lists :
             Len(l) = 1 /\ Registered(l) /\ IsPaused(l[1].name) /\ Start(t, "resume", FALSE, FromConfig(l), "close")
      BY <1>8 DEF resumeService
    <2>2. l \in Seq(Item) /\ Distinct(l)
      BY ListsOf
    <2>3. \A n \in NamesIn(l) : entries[n] # <<>>
      <3>1. DOMAIN l = {1}
        BY <2>1, <2>2, ItemsOf
      <3> QED BY <2>1, <3>1 DEF NamesIn, IsPaused
    <2>4. PICK m : m = FromConfig(l) /\ m \in Seq(Item) /\ Distinct(m) /\ Len(m) = 1 /\ ByEntries(m) /\ NamesIn(m) = NamesIn(l)
      BY <2>1, <2>2, <2>3, EntriesRead
    <2>5. Registered(m)
      BY <2>1, <2>4 DEF Registered
    <2>6. Starts(t, "resume", FALSE, m)
      BY <2>1, <2>4, <2>5 DEF Starts, First
    <2> QED BY <2>6, Zenon DEF Begins, Ops
  <1>9. CASE resumeServices(t)
    <2>0. PICK l \in Lists :
             /\ Registered(l) /\ \A n \in NamesIn(l) : entries[n] # <<>>
             /\ \E p \in Only(l, {k \in DOMAIN l : IsPaused(l[k].name)}) :
                   Start(t, "resume", TRUE, FromConfig(p), "close")
      BY <1>9 DEF resumeServices
    <2>1. PICK p \in Only(l, {k \in DOMAIN l : IsPaused(l[k].name)}) : Start(t, "resume", TRUE, FromConfig(p), "close")
      BY <2>0
    <2>2. PICK S \in SUBSET DOMAIN l : S = {k \in DOMAIN l : IsPaused(l[k].name)}
      OBVIOUS
    <2>3. p \in Seq(Item) /\ Distinct(p) /\ Registered(p) /\ NamesIn(p) \subseteq NamesIn(l)
      BY <2>0, <2>1, <2>2, PartStarts
    <2>4. PICK m : m = FromConfig(p) /\ m \in Seq(Item) /\ Distinct(m) /\ ByEntries(m) /\ NamesIn(m) = NamesIn(p)
      BY <2>0, <2>3, EntriesRead
    <2>5. Registered(m)
      BY <2>3, <2>4 DEF Registered
    <2>6. Starts(t, "resume", TRUE, m)
      BY <2>1, <2>4, <2>5 DEF Starts, First
    <2> QED BY <2>6, Zenon DEF Begins, Ops
  <1> QED BY <1>1, <1>2, <1>3, <1>4, <1>5, <1>6, <1>7, <1>8, <1>9

LEMMA StartEffect ==
    ASSUME Typed, NEW t \in Workers, NEW op \in Ops, NEW batch \in BOOLEAN, NEW l, Starts(t, op, batch, l)
    PROVE  /\ Frame(t) /\ UNCHANGED <<svcs, registry, entries, leaked>> /\ ~Working(t)
           /\ crossed' = crossed \cup {n \in NamesIn(l) : WorkersAt(n) # {}}
           /\ work'[t].op = op /\ work'[t].batch = batch /\ work'[t].items = l /\ work'[t].i = 1
           /\ work'[t].pc = First(op) /\ work'[t].made = <<>> /\ work'[t].new = NoService
  <1>1. /\ l \in Seq(Item) /\ ~Working(t) /\ UNCHANGED <<svcs, registry, entries, leaked>>
        /\ work' = [work EXCEPT ![t] = [Waiting EXCEPT !.op = op, !.batch = batch, !.items = l, !.pc = First(op)]]
        /\ crossed' = crossed \cup {n \in NamesIn(l) : WorkersAt(n) # {}}
    BY DEF Starts, Start
  <1>2. PICK q : q = [Waiting EXCEPT !.op = op, !.batch = batch, !.items = l, !.pc = First(op)]
    OBVIOUS
  <1>3. /\ q.op = op /\ q.batch = batch /\ q.items = l /\ q.i = 1
        /\ q.pc = First(op) /\ q.made = <<>> /\ q.new = NoService
    BY <1>2 DEF Waiting
  <1>4. q \in Work
    <2>1. Waiting \in Work /\ First(op) \in {"check", "config", "close"}
      BY DEF Waiting, Work, First
    <2> QED BY <1>1, <1>2, <2>1 DEF Work, Ops
  <1>5. Others(t) /\ work'[t] = q
    BY <1>1, <1>2, <1>4 DEF Others, Typed, ServiceTypeOK
  <1>6. NamesIn(l) \subseteq Services
    BY <1>1, ItemsOf
  <1>7. HistoryFrame /\ SvcsFrame(t)
    BY <1>1, <1>6, SvcsSame DEF HistoryFrame, Typed, ServiceTypeOK
  <1> QED BY <1>1, <1>3, <1>5, <1>7, RegistrySame, EntriesSame DEF Frame

-----------------------------------------------------------------------------
(* The types.                                                               *)

LEMMA TypedOwn ==
    ASSUME Typed, NEW t \in Workers, Frame(t), Steps(work[t])', Hands(work[t])'
    PROVE  Typed'
  <1>1. \A u \in Workers : Steps(work[u])' /\ Hands(work[u])'
    <2> SUFFICES ASSUME NEW u \in Workers, u # t PROVE Steps(work[u])' /\ Hands(work[u])'
      OBVIOUS
    <2>1. work'[u] = work[u] /\ Steps(work[u]) /\ Hands(work[u])
      BY DEF Frame, Others, Typed, Doing
    <2>2. Hands(work[u])'
      BY <2>1, HandsKept DEF Frame
    <2> QED BY <2>1, <2>2 DEF Steps
  <1>2. \A u \in Workers : (work[u].i \in 1..(Len(work[u].items) + 1))'
    BY <1>1 DEF Steps
  <1>3. ServiceTypeOK'
    BY <1>2 DEF Frame, SvcsFrame, Within, RegistryFrame, EntriesFrame, HistoryFrame, Others, ServiceTypeOK
  <1> QED BY <1>1, <1>3 DEF Typed, Doing, Frame, RegistryFrame

LEMMA LeftTyped ==
    ASSUME Typed, NEW t \in Workers, Frame(t), Left(t)
    PROVE  Typed'
  <1>1. Len(<<>>) = 0 /\ DOMAIN <<>> = {}
    OBVIOUS
  <1>2. Steps(work[t])'
    BY <1>1 DEF Left, Steps, Distinct
  <1>3. Hands(work[t])'
    BY <1>1 DEF Left, Hands
  <1> QED BY <1>2, <1>3, TypedOwn

\* Steps that go on with the same services in their hands.
LEMMA GoesTyped ==
    ASSUME Typed, NEW t \in Workers, Frame(t), NEW l \in Labels, NEW j, Goes(t, l, j),
           NEW x, Holds(t, work[t].made, x), work[t].pc # "idle", l # "idle",
           j \in 1..(Len(work[t].items) + 1),
           work[t].op = "create" => l \in {"enter", "config"} /\ Len(work[t].made) = Len(work[t].items),
           work[t].op \in {"update", "resume"} => l \in {"close", "drop", "parse", "register", "config"},
           work[t].op = "delete" => l \in {"close", "drop", "config"},
           work[t].op # "pause",
           l \in {"drop", "parse", "register"} => j \in DOMAIN work[t].items,
           l = "config" => j = Len(work[t].items) + 1,
           x # NoService <=> l = "register",
           l = "register" => For(x, work[t].items[j])'
    PROVE  Typed'
  <1>1. work[t] \in Work /\ Steps(work[t]) /\ Hands(work[t])
    BY DEF Typed, ServiceTypeOK, Doing
  <1>2. Steps(work[t])'
    BY <1>1 DEF Goes, Steps
  <1>3. \A k \in DOMAIN work[t].made : For(work[t].made[k], work[t].items[k])'
    BY <1>1 DEF Goes, Hands, For, Frame, SvcsFrame, Within, Holds
  <1>4. work'[t].new # NoService => For(work[t].new, work[t].items[work[t].i])'
    BY DEF Goes, Holds, For
  <1>5. l # "check"
    BY <1>1 DEF Work, Steps
  <1>6. Hands(work[t])'
    BY <1>1, <1>3, <1>4, <1>5 DEF Goes, Holds, Hands
  <1> QED BY <1>2, <1>6, TypedOwn

LEMMA OpAt ==
    ASSUME Typed, NEW t \in Workers
    PROVE  /\ work[t].pc \in {"check", "enter"} => work[t].op = "create"
           /\ work[t].pc \in {"parse", "register"} => work[t].op \in {"update", "resume"}
           /\ work[t].pc \in {"close", "drop"} => work[t].op \in {"update", "resume", "delete"}
           /\ work[t].pc # "idle" => work[t].op \in Ops
           /\ work[t].op # "create" => work[t].made = <<>>
           /\ work[t].new # NoService <=> work[t].pc = "register"
           /\ work[t].pc \in {"drop", "parse", "register"} => More(t)
           /\ work[t].pc = "config" /\ work[t].op # "pause" => work[t].i = Len(work[t].items) + 1
           /\ work[t].op = "create" /\ work[t].pc # "check" => Len(work[t].made) = Len(work[t].items)
           /\ work[t].pc = "check" => Len(work[t].made) = work[t].i - 1
           /\ work[t].pc # "idle" => work[t].batch \/ Len(work[t].items) = 1
  <1>1. work[t] \in Work /\ Steps(work[t]) /\ Hands(work[t])
    BY DEF Typed, ServiceTypeOK, Doing
  <1>2. work[t].op \in {"none", "create", "update", "delete", "pause", "resume"}
    BY <1>1 DEF Work
  <1>3. work[t].pc \in {"drop", "parse", "register"} => More(t)
    BY <1>1, RequestOf DEF Steps
  <1> QED BY <1>1, <1>2, <1>3 DEF Steps, Hands, Ops

LEMMA ParseTyped ==
    ASSUME Typed, NEW t \in Workers, CreateParse(t)
    PROVE  Typed'
  <1>1. Frame(t) /\ work[t].pc = "check" /\ More(t)
    BY ParseEffect
  <1>2. CASE /\ Building(svcs, svcs', Cur(t)) /\ Len(svcs) + 1 \in Ids
             /\ Goes(t, "check", work[t].i + 1) /\ Holds(t, Append(work[t].made, Len(svcs) + 1), work[t].new)
    <2>1. /\ work[t].op = "create" /\ work[t].new = NoService /\ Len(work[t].made) = work[t].i - 1
          /\ work[t].batch \/ Len(work[t].items) = 1
      BY <1>1, OpAt
    <2>2. PICK m \in Seq(Ids), x \in Ids : m = work[t].made /\ x = Len(svcs) + 1
      BY <1>2, MadeOf
    <2>3. PICK n \in Nat : n = Len(m) /\ DOMAIN m = 1..n
      BY LenProperties
    <2>4. /\ Len(Append(m, x)) = n + 1 /\ Append(m, x) \in Seq(Ids) /\ Append(m, x)[n + 1] = x
          /\ \A k \in 1..n : Append(m, x)[k] = m[k]
      BY <2>3, AppendProperties
    <2>5. DOMAIN Append(m, x) = 1..(n + 1)
      BY <2>4, LenProperties
    <2>6. work[t].i = n + 1 /\ work[t].i + 1 \in 1..(Len(work[t].items) + 1)
      <3>1. /\ work[t].i \in Nat /\ work[t].i <= Len(work[t].items) /\ Len(work[t].items) \in Nat
        BY <1>1, RequestOf DEF More
      <3>2. Len(work[t].made) = n /\ Len(work[t].made) = work[t].i - 1
        BY <2>1, <2>2, <2>3
      <3>3. PICK i \in Nat, l \in Nat : i = work[t].i /\ l = Len(work[t].items)
        BY <3>1
      <3>4. i = n + 1 /\ i <= l
        BY <3>1, <3>2, <3>3
      <3>5. i + 1 \in 1..(l + 1)
        BY <3>4
      <3> QED BY <3>3, <3>4, <3>5
    <2>7. Steps(work[t])'
      BY <1>2, <2>1, <2>6, RequestOf DEF Goes, Steps
    <2>8. work'[t].made = Append(m, x) /\ work'[t].items = work[t].items
      BY <1>2, <2>2 DEF Holds, Goes
    <2>9. ASSUME NEW k \in 1..n PROVE For(work[t].made[k], work[t].items[k])'
      <3>1. For(m[k], work[t].items[k])
        BY <2>2, <2>3, MadeOf
      <3>2. work'[t].made[k] = m[k]
        BY <2>4, <2>8
      <3> QED BY <1>2, <2>8, <3>1, <3>2 DEF For, Building
    <2>10. For(work[t].made[n + 1], work[t].items[n + 1])'
      <3>1. work'[t].made[n + 1] = x /\ Cur(t) = work[t].items[n + 1]
        BY <2>4, <2>6, <2>8, RequestOf
      <3> QED BY <1>2, <2>2, <2>8, <3>1 DEF For, Building
    <2>11. \A k \in DOMAIN work'[t].made : For(work[t].made[k], work[t].items[k])'
      <3>1. \A k \in 1..(n + 1) : k \in 1..n \/ k = n + 1
        OBVIOUS
      <3> QED BY <2>5, <2>8, <2>9, <2>10, <3>1
    <2>12. Len(work'[t].made) = work'[t].i - 1
      BY <1>2, <2>3, <2>4, <2>6, <2>8 DEF Goes
    <2>13. Hands(work[t])'
      BY <1>2, <2>1, <2>11, <2>12 DEF Goes, Holds, Hands
    <2> QED BY <1>1, <2>7, <2>13, TypedOwn
  <1>3. CASE Left(t)
    BY <1>1, <1>3, LeftTyped
  <1> QED BY <1>2, <1>3, ParseEffect

LEMMA ParsedTyped ==
    ASSUME Typed, NEW t \in Workers, CreateParsed(t)
    PROVE  Typed' /\ Frame(t) /\ Goes(t, "enter", 1) /\ Holds(t, work[t].made, work[t].new)
  <1>1. work[t].pc = "check" /\ ~More(t) /\ UNCHANGED <<svcs, registry, entries, leaked, crossed>>
        /\ work' = [work EXCEPT ![t].pc = "enter", ![t].i = 1]
    BY DEF CreateParsed
  <1>2. Others(t) /\ Goes(t, "enter", 1) /\ Holds(t, work[t].made, work[t].new)
    BY <1>1, Advanced DEF Labels
  <1>3. Frame(t)
    BY <1>1, <1>2, PlainEffect
  <1>4. /\ work[t].op = "create" /\ work[t].new = NoService /\ Len(work[t].made) = work[t].i - 1
        /\ work[t].i = Len(work[t].items) + 1 /\ Len(work[t].items) \in Nat
    BY <1>1, OpAt, RequestOf
  <1>5. Len(work[t].made) = Len(work[t].items) /\ 1 \in 1..(Len(work[t].items) + 1)
    BY <1>4
  <1>6. Typed'
    BY <1>1, <1>2, <1>3, <1>4, <1>5, GoesTyped DEF Labels
  <1> QED BY <1>2, <1>3, <1>6

LEMMA EnterTyped ==
    ASSUME Typed, NEW t \in Workers, CreateRegister(t)
    PROVE  Typed'
  <1>1. Frame(t) /\ work[t].pc = "enter" /\ More(t) /\ work[t].op = "create"
    BY EnterEffect
  <1>2. CASE Goes(t, "enter", work[t].i + 1) /\ Holds(t, work[t].made, work[t].new)
    <2>1. work[t].new = NoService /\ Len(work[t].made) = Len(work[t].items)
      BY <1>1, OpAt
    <2>2. work[t].i + 1 \in 1..(Len(work[t].items) + 1)
      BY <1>1, RequestOf
    <2> QED BY <1>1, <1>2, <2>1, <2>2, GoesTyped DEF Labels
  <1>3. CASE Left(t)
    BY <1>1, <1>3, LeftTyped
  <1> QED BY <1>2, <1>3, EnterEffect

LEMMA ServeTyped ==
    ASSUME Typed, NEW t \in Workers, CreateServe(t)
    PROVE  Typed'
  <1>1. Frame(t) /\ work[t].pc = "enter" /\ ~More(t) /\ work[t].op = "create"
        /\ Goes(t, "config", work[t].i) /\ Holds(t, work[t].made, work[t].new)
    BY ServeEffect
  <1>2. work[t].new = NoService /\ Len(work[t].made) = Len(work[t].items)
    BY <1>1, OpAt
  <1>3. work[t].i = Len(work[t].items) + 1 /\ work[t].i \in 1..(Len(work[t].items) + 1)
    BY <1>1, RequestOf
  <1> QED BY <1>1, <1>2, <1>3, GoesTyped DEF Labels

LEMMA CloseTyped ==
    ASSUME Typed, NEW t \in Workers, CloseOld(t)
    PROVE  Typed'
  <1>1. Frame(t) /\ work[t].pc = "close" /\ More(t)
    BY CloseEffect
  <1>2. CASE Goes(t, "drop", work[t].i) /\ Holds(t, work[t].made, work[t].new)
    <2>1. work[t].new = NoService /\ work[t].op \in {"update", "resume", "delete"}
      BY <1>1, OpAt
    <2>2. work[t].i \in DOMAIN work[t].items /\ work[t].i \in 1..(Len(work[t].items) + 1)
      BY <1>1, RequestOf
    <2> QED BY <1>1, <1>2, <2>1, <2>2, GoesTyped DEF Labels
  <1>3. CASE Left(t)
    BY <1>1, <1>3, LeftTyped
  <1> QED BY <1>2, <1>3, CloseEffect

LEMMA DropTyped ==
    ASSUME Typed, NEW t \in Workers, Unregister(t)
    PROVE  Typed'
  <1>1. Frame(t) /\ work[t].pc = "drop" /\ More(t) /\ Holds(t, work[t].made, work[t].new)
    BY DropEffect
  <1>2. work[t].new = NoService /\ work[t].op \in {"update", "resume", "delete"}
    BY <1>1, OpAt
  <1>3. work[t].i \in DOMAIN work[t].items /\ work[t].i \in 1..(Len(work[t].items) + 1)
        /\ work[t].i + 1 \in 1..(Len(work[t].items) + 1)
    BY <1>1, RequestOf
  <1>4. CASE work[t].op = "delete"
    <2>1. Goes(t, "close", work[t].i + 1)
      BY <1>4, DropEffect
    <2> QED BY <1>1, <1>2, <1>3, <1>4, <2>1, GoesTyped DEF Labels
  <1>5. CASE work[t].op # "delete"
    <2>1. Goes(t, "parse", work[t].i)
      BY <1>5, DropEffect
    <2> QED BY <1>1, <1>2, <1>3, <1>5, <2>1, GoesTyped DEF Labels
  <1> QED BY <1>4, <1>5

LEMMA ReparseTyped ==
    ASSUME Typed, NEW t \in Workers, Reparse(t)
    PROVE  Typed'
  <1>1. Frame(t) /\ work[t].pc = "parse" /\ More(t)
    BY ReparseEffect
  <1>2. CASE /\ Building(svcs, svcs', Cur(t)) /\ Len(svcs) + 1 \in Ids
             /\ Goes(t, "register", work[t].i) /\ Holds(t, work[t].made, Len(svcs) + 1)
    <2>1. work[t].op \in {"update", "resume"}
      BY <1>1, OpAt
    <2>2. work[t].i \in DOMAIN work[t].items /\ work[t].i \in 1..(Len(work[t].items) + 1)
          /\ Cur(t) = work[t].items[work[t].i]
      BY <1>1, RequestOf
    <2>3. PICK x \in Ids : x = Len(svcs) + 1 /\ x # NoService
      BY <1>2, ServiceAssumption DEF Ids
    <2>3a. PICK j : j = work[t].i
      OBVIOUS
    <2>4. For(x, work[t].items[j])'
      BY <1>2, <2>2, <2>3, <2>3a DEF For, Building, Goes
    <2> QED BY <1>1, <1>2, <2>1, <2>2, <2>3, <2>3a, <2>4, GoesTyped DEF Labels
  <1>3. CASE Failing(t)
    BY <1>1, <1>3, LeftTyped DEF Failing
  <1> QED BY <1>2, <1>3, ReparseEffect

LEMMA RegisterTyped ==
    ASSUME Typed, NEW t \in Workers, Register(t)
    PROVE  Typed'
  <1>1. Frame(t) /\ work[t].pc = "register" /\ More(t)
    BY RegisterEffect
  <1>2. CASE Goes(t, "close", work[t].i + 1) /\ Holds(t, work[t].made, NoService)
    <2>1. work[t].op \in {"update", "resume"}
      BY <1>1, OpAt
    <2>2. work[t].i + 1 \in 1..(Len(work[t].items) + 1)
      BY <1>1, RequestOf
    <2> QED BY <1>1, <1>2, <2>1, <2>2, GoesTyped DEF Labels
  <1>3. CASE Failing(t)
    BY <1>1, <1>3, LeftTyped DEF Failing
  <1> QED BY <1>2, <1>3, RegisterEffect

LEMMA DoneTyped ==
    ASSUME Typed, NEW t \in Workers, LoopDone(t)
    PROVE  Typed' /\ Frame(t) /\ Goes(t, "config", work[t].i) /\ Holds(t, work[t].made, work[t].new)
  <1>1. work[t].pc = "close" /\ ~More(t) /\ Proceed(t, "config") /\ UNCHANGED <<svcs, registry, entries, leaked, crossed>>
    BY DEF LoopDone
  <1>2. Others(t) /\ Goes(t, "config", work[t].i) /\ Holds(t, work[t].made, work[t].new)
    BY <1>1, Proceeded DEF Labels
  <1>3. Frame(t)
    BY <1>1, <1>2, PlainEffect
  <1>4. work[t].new = NoService /\ work[t].op \in {"update", "resume", "delete"}
    BY <1>1, OpAt
  <1>5. work[t].i = Len(work[t].items) + 1 /\ work[t].i \in 1..(Len(work[t].items) + 1)
    BY <1>1, RequestOf
  <1>6. Typed'
    BY <1>1, <1>2, <1>3, <1>4, <1>5, GoesTyped DEF Labels
  <1> QED BY <1>2, <1>3, <1>6

LEMMA StartTyped ==
    ASSUME Typed, NEW t \in Workers, Begins(t)
    PROVE  Typed'
  <1>1. PICK op \in Ops, batch \in BOOLEAN : \E l : Starts(t, op, batch, l)
    BY DEF Begins
  <1>2. PICK l : Starts(t, op, batch, l)
    BY <1>1
  <1>3. /\ Frame(t) /\ work'[t].op = op /\ work'[t].batch = batch /\ work'[t].items = l /\ work'[t].i = 1
        /\ work'[t].pc = First(op) /\ work'[t].made = <<>> /\ work'[t].new = NoService
    BY <1>2, StartEffect
  <1>4. l \in Seq(Item) /\ Distinct(l) /\ (batch \/ Len(l) = 1) /\ Len(l) \in Nat
    BY <1>2, ItemsOf DEF Starts
  <1>5. Steps(work[t])'
    BY <1>3, <1>4 DEF Steps, Ops, First
  <1>6. Len(<<>>) = 0 /\ DOMAIN <<>> = {}
    OBVIOUS
  <1>7. Hands(work[t])'
    BY <1>3, <1>6 DEF Hands, Ops, First
  <1> QED BY <1>3, <1>5, <1>7, TypedOwn

\* A step, as one of a start and the ten steps of a request.
LEMMA Moves ==
    ASSUME Typed, ServiceNext
    PROVE  \E t \in Workers : Begins(t) \/ Step(t)
  BY Starting DEF ServiceNext

LEMMA StepTyped ==
    ASSUME Typed, NEW t \in Workers, Step(t)
    PROVE  Typed' /\ Frame(t)
  <1>1. CASE CreateParse(t) \/ CreateParsed(t) \/ CreateRegister(t) \/ CreateServe(t)
    BY <1>1, ParseTyped, ParseEffect, ParsedTyped, EnterTyped, EnterEffect, ServeTyped, ServeEffect
  <1>2. CASE CloseOld(t) \/ Unregister(t) \/ Reparse(t) \/ Register(t)
    BY <1>2, CloseTyped, CloseEffect, DropTyped, DropEffect, ReparseTyped, ReparseEffect, RegisterTyped, RegisterEffect
  <1>3. CASE LoopDone(t) \/ WriteConfig(t)
    BY <1>3, DoneTyped, WriteEffect, LeftTyped
  <1> QED BY <1>1, <1>2, <1>3 DEF Step

LEMMA TypedStep ==
    ASSUME Typed, [ServiceNext]_serviceVars
    PROVE  Typed'
  <1>1. CASE UNCHANGED serviceVars
    BY <1>1 DEF serviceVars, Typed, ServiceTypeOK, Doing, Steps, Hands, For, Named
  <1>2. CASE ServiceNext
    BY <1>2, Moves, StartTyped, StepTyped
  <1> QED BY <1>1, <1>2

-----------------------------------------------------------------------------
(* What a step makes of a name that its request is alone at.                *)

\* k names n, and what is left when the step is done.
Result(t, k, n) == IF work'[t].pc = "idle" THEN Agrees(n)' ELSE Stage(work[t], k, n)'

Case(t, k, n) == /\ Typed /\ t \in Workers /\ k \in DOMAIN work[t].items /\ n = work[t].items[k].name
                 /\ n \notin crossed' /\ Stage(work[t], k, n)

LEMMA CaseOf ==
    ASSUME NEW t, NEW k, NEW n, Case(t, k, n)
    PROVE  /\ k \in Nat /\ n \in Services /\ n \in NamesIn(work[t].items) /\ work[t].i \in Nat
           /\ k <= Len(work[t].items) /\ 1 <= k /\ Len(work[t].items) \in Nat
           /\ n \in Before(t) <=> k < work[t].i
           /\ More(t) => (n = Cur(t).name <=> k = work[t].i)
           /\ registry[n] # NoService => registry[n] \in DOMAIN svcs /\ svcs[registry[n]].name = n
           /\ entries[n] \in Seq(ConfigEntry)
  <1>1. Typed /\ t \in Workers /\ k \in DOMAIN work[t].items /\ n = work[t].items[k].name
    BY DEF Case
  <1>2. /\ n \in Services /\ n \in NamesIn(work[t].items)
        /\ n \in Before(t) <=> k < work[t].i
        /\ More(t) => (n = Cur(t).name <=> k = work[t].i)
    BY <1>1, ItemOf
  <1>3. work[t].i \in Nat /\ k \in 1..Len(work[t].items) /\ Len(work[t].items) \in Nat
    BY <1>1, RequestOf
  <1>4. k \in Nat /\ 1 <= k /\ k <= Len(work[t].items)
    BY <1>3
  <1>5. registry[n] # NoService => registry[n] \in DOMAIN svcs /\ svcs[registry[n]].name = n
    BY <1>1, <1>2 DEF Typed, Named
  <1>6. entries[n] \in Seq(ConfigEntry)
    BY <1>1, <1>2 DEF Typed, ServiceTypeOK
  <1> QED BY <1>2, <1>3, <1>4, <1>5, <1>6

LEMMA MadeHere ==
    ASSUME NEW t, NEW k, NEW n, Case(t, k, n), k \in DOMAIN work[t].made
    PROVE  work[t].made[k] \in DOMAIN svcs /\ svcs[work[t].made[k]].name = n
           /\ svcs[work[t].made[k]].addr = work[t].items[k].addr
  BY MadeOf DEF Case, For

LEMMA ParseStage ==
    ASSUME NEW t, NEW k, NEW n, Case(t, k, n), CreateParse(t)
    PROVE  Result(t, k, n)
  <1>0. Typed /\ t \in Workers
    BY DEF Case
  <1>1. /\ work[t].pc = "check" /\ More(t) /\ work[t].op = "create" /\ Len(work[t].made) = work[t].i - 1
        /\ registry' = registry /\ entries' = entries
        /\ \A s \in DOMAIN svcs : svcs'[s] = svcs[s]
    BY <1>0, ParseEffect, OpAt
  <1>2. IF k < work[t].i THEN Absent(n) /\ Up(work[t].made[k], 0) ELSE Agrees(n)
    BY <1>1 DEF Case, Stage, Creating
  <1>3. Agrees(n) => Agrees(n)'
    BY <1>1, CaseOf DEF Agrees
  <1>4. CASE Left(t)
    BY <1>1, <1>2, <1>3, <1>4 DEF Left, Absent, Agrees, Result
  <1>5. CASE /\ Building(svcs, svcs', Cur(t)) /\ Len(svcs) + 1 \in Ids /\ Goes(t, "check", work[t].i + 1)
             /\ Holds(t, Append(work[t].made, Len(svcs) + 1), work[t].new) /\ registry[Cur(t).name] = NoService
    <2>1. PICK m \in Seq(Ids), x \in Ids : m = work[t].made /\ x = Len(svcs) + 1
      BY <1>0, <1>5, MadeOf
    <2>2. PICK i \in Nat : i = work[t].i /\ Len(m) = i - 1 /\ i >= 1
      BY <1>0, <1>1, <2>1, RequestOf
    <2>3. /\ \A j \in 1..(i - 1) : Append(m, x)[j] = m[j]
          /\ Append(m, x)[i] = x
      BY <2>2, AppendProperties
    <2>4. work'[t].made = Append(m, x) /\ work'[t].i = i + 1 /\ work'[t].pc = "check" /\ work'[t].op = "create"
      BY <1>1, <1>5, <2>1, <2>2 DEF Holds, Goes
    <2>5. k \in Nat /\ 1 <= k
      BY CaseOf
    <2>6. CASE k < i
      <3>1. k \in 1..(i - 1) /\ work'[t].made[k] = m[k]
        BY <2>2, <2>3, <2>4, <2>5, <2>6
      <3>2. m[k] \in DOMAIN svcs
        BY <1>0, <2>1, <2>2, <3>1, MadeOf, MadeHere
      <3>3. Absent(n)' /\ Up(work[t].made[k], 0)'
        BY <1>1, <1>2, <2>1, <2>2, <2>6, <3>1, <3>2 DEF Absent, Up
      <3> QED BY <2>2, <2>4, <2>5, <2>6, <3>3 DEF Result, Stage, Creating
    <2>7. CASE k = i
      <3>1. Agrees(n) /\ registry[n] = NoService
        BY <1>0, <1>1, <1>2, <1>5, <2>2, <2>7, CaseOf
      <3>2. Absent(n)'
        BY <1>1, <3>1 DEF Agrees, Absent
      <3>3. Up(work[t].made[k], 0)'
        BY <1>5, <2>1, <2>3, <2>4, <2>7 DEF Building, Up
      <3> QED BY <2>2, <2>4, <2>7, <3>2, <3>3 DEF Result, Stage, Creating
    <2>8. CASE k > i
      <3>1. Agrees(n)' /\ ~(k < i + 1)
        BY <1>2, <1>3, <2>2, <2>5, <2>8
      <3> QED BY <2>4, <3>1 DEF Result, Stage, Creating
    <2> QED BY <2>2, <2>5, <2>6, <2>7, <2>8
  <1> QED BY <1>0, <1>4, <1>5, ParseEffect

LEMMA ParsedStage ==
    ASSUME NEW t, NEW k, NEW n, Case(t, k, n), CreateParsed(t)
    PROVE  Result(t, k, n)
  <1>0. Typed /\ t \in Workers
    BY DEF Case
  <1>1. /\ work[t].pc = "check" /\ ~More(t) /\ work[t].op = "create"
        /\ UNCHANGED <<svcs, registry, entries>>
        /\ Goes(t, "enter", 1) /\ Holds(t, work[t].made, work[t].new)
    BY <1>0, ParsedTyped, OpAt DEF CreateParsed
  <1>2. k < work[t].i /\ ~(k < 1)
    BY <1>0, <1>1, CaseOf, RequestOf
  <1>3. Absent(n) /\ Up(work[t].made[k], 0)
    BY <1>1, <1>2 DEF Case, Stage, Creating
  <1> QED BY <1>1, <1>2, <1>3 DEF Result, Stage, Creating, Absent, Up, Goes, Holds

LEMMA EnterStage ==
    ASSUME NEW t, NEW k, NEW n, Case(t, k, n), CreateRegister(t)
    PROVE  Result(t, k, n)
  <1>0. Typed /\ t \in Workers
    BY DEF Case
  <1>1. work[t].pc = "enter" /\ More(t) /\ work[t].op = "create" /\ entries' = entries
    BY <1>0, EnterEffect
  <1>2. /\ entries[n] = <<>> /\ Up(work[t].made[k], 0)
        /\ registry[n] = IF k < work[t].i THEN work[t].made[k] ELSE NoService
    BY <1>1 DEF Case, Stage, Creating
  <1>3. /\ k \in Nat /\ work[t].i \in Nat /\ n \in Services
        /\ (n = Cur(t).name <=> k = work[t].i) /\ (n \in Before(t) <=> k < work[t].i)
    BY <1>1, CaseOf
  <1>4. CASE /\ registry'[Cur(t).name] = work[t].made[work[t].i]
             /\ \A m \in Services : m # Cur(t).name => registry'[m] = registry[m]
             /\ svcs' = svcs /\ Goes(t, "enter", work[t].i + 1) /\ Holds(t, work[t].made, work[t].new)
    <2>1. registry'[n] = IF k < work[t].i + 1 THEN work[t].made[k] ELSE NoService
      BY <1>2, <1>3, <1>4
    <2> QED BY <1>1, <1>2, <1>4, <2>1 DEF Result, Stage, Creating, Up, Goes, Holds
  <1>5. CASE /\ registry[Cur(t).name] # NoService /\ Left(t)
             /\ \A m \in Services : registry'[m] = IF m \in Before(t) THEN NoService ELSE registry[m]
    BY <1>1, <1>2, <1>3, <1>5 DEF Result, Left, Agrees
  <1> QED BY <1>0, <1>4, <1>5, EnterEffect

LEMMA ServeStage ==
    ASSUME NEW t, NEW k, NEW n, Case(t, k, n), CreateServe(t)
    PROVE  Result(t, k, n)
  <1>0. Typed /\ t \in Workers
    BY DEF Case
  <1>1. PICK S : S = IF work[t].batch THEN {registry[m] : m \in NamesIn(work[t].items)} ELSE {work[t].made[1]}
    OBVIOUS
  <1>2. /\ work[t].pc = "enter" /\ ~More(t) /\ work[t].op = "create" /\ UNCHANGED <<registry, entries>>
        /\ Goes(t, "config", work[t].i) /\ Holds(t, work[t].made, work[t].new) /\ Serving(svcs, svcs', S)
    BY <1>0, <1>1, ServeEffect
  <1>3. k < work[t].i /\ n \in NamesIn(work[t].items) /\ (~work[t].batch => k = 1) /\ k \in DOMAIN work[t].made
    <2>1. ~work[t].batch => Len(work[t].items) = 1
      BY <1>0, <1>2, OpAt
    <2>2. k \in DOMAIN work[t].made
      BY <1>0, <1>2, MadeCur DEF Case
    <2>3. work[t].i = Len(work[t].items) + 1
      BY <1>0, <1>2, RequestOf
    <2>4. k \in Nat /\ 1 <= k /\ k <= Len(work[t].items) /\ Len(work[t].items) \in Nat /\ n \in NamesIn(work[t].items)
      BY CaseOf
    <2>5. k < work[t].i
      BY <2>3, <2>4
    <2>6. ~work[t].batch => k = 1
      <3>1. Len(work[t].items) = 1 => k = 1
        BY <2>4
      <3> QED BY <2>1, <3>1
    <2> QED BY <2>2, <2>4, <2>5, <2>6
  <1>4. entries[n] = <<>> /\ Up(work[t].made[k], 0) /\ registry[n] = work[t].made[k]
    BY <1>2, <1>3 DEF Case, Stage, Creating
  <1>5. work[t].made[k] \in S /\ work[t].made[k] \in DOMAIN svcs
    BY <1>1, <1>3, <1>4, MadeHere
  <1>6. svcs'[work[t].made[k]].open /\ svcs'[work[t].made[k]].served = 1
    BY <1>2, <1>4, <1>5 DEF Serving, Up
  <1> QED BY <1>2, <1>4, <1>6 DEF Result, Stage, Creating, Up, Goes, Holds

\* Nothing happens to name n.
Spared(n) == /\ registry'[n] = registry[n] /\ entries'[n] = entries[n]
             /\ registry[n] # NoService => svcs'[registry[n]] = svcs[registry[n]]

LEMMA SparedStays ==
    ASSUME NEW n, Spared(n)
    PROVE  /\ Agrees(n) => Agrees(n)'
           /\ Kept(n) => Kept(n)'
  BY DEF Spared, Agrees, Kept

\* The items that a loop is not at.
LEMMA Elsewhere ==
    ASSUME NEW t, NEW k, NEW n, Case(t, k, n), work[t].op \in {"update", "resume", "delete"}, k # work[t].i,
           Spared(n), NEW l \in {"close", "drop", "parse", "register", "config"}, NEW j \in Nat,
           Goes(t, l, j), j = work[t].i \/ (j = work[t].i + 1 /\ l = "close")
    PROVE  Result(t, k, n)
  <1>1. work[t].i \in Nat /\ k \in Nat
    BY CaseOf
  <1>2. /\ work'[t].op = work[t].op /\ work'[t].items = work[t].items /\ work'[t].pc = l /\ work'[t].i = j
    BY DEF Goes
  <1>3. CASE k < work[t].i
    <2>1. k < j /\ ~(k > j) /\ k # j
      BY <1>1, <1>3
    <2>2. CASE work[t].op = "delete"
      <3>1. registry'[n] = NoService
        BY <1>3, <2>2 DEF Case, Stage, Deleting, Spared
      <3> QED BY <1>2, <2>1, <2>2, <3>1 DEF Result, Stage, Deleting, ClosedOnly, Ahead
    <2>3. CASE work[t].op \in {"update", "resume"}
      <3>1. /\ Len(entries[n]) = 1 /\ (work[t].op = "resume" => entries[n][1].addr = work[t].items[k].addr)
            /\ registry[n] # NoService /\ Up(registry[n], 1) /\ svcs[registry[n]].addr = work[t].items[k].addr
        BY <1>3, <2>3 DEF Case, Stage, Replacing
      <3>2. /\ Len(entries'[n]) = 1 /\ (work[t].op = "resume" => entries'[n][1].addr = work[t].items[k].addr)
            /\ registry'[n] # NoService /\ Up(registry[n], 1)' /\ svcs'[registry'[n]].addr = work[t].items[k].addr
        BY <3>1 DEF Spared, Up
      <3> QED BY <1>2, <2>1, <2>3, <3>2 DEF Result, Stage, Replacing, ClosedOnly, Ahead
    <2> QED BY <2>2, <2>3
  <1>4. CASE k > work[t].i
    <2>1. ~(k < j) /\ (k = j => l = "close")
      BY <1>1, <1>4
    <2>2. Kept(n)
      BY <1>4 DEF Case, Stage, Deleting, Replacing, Ahead
    <2>3. Kept(n)'
      BY <2>2, SparedStays
    <2>4. CASE work[t].op = "delete"
      BY <1>2, <2>1, <2>3, <2>4 DEF Result, Stage, Deleting, ClosedOnly
    <2>5. CASE work[t].op \in {"update", "resume"}
      <3>1. /\ Len(entries[n]) = 1 /\ (work[t].op = "resume" => entries[n][1].addr = work[t].items[k].addr)
        BY <2>5 DEF Case, Stage, Replacing
      <3>2. /\ Len(entries'[n]) = 1 /\ (work[t].op = "resume" => entries'[n][1].addr = work[t].items[k].addr)
        BY <3>1 DEF Spared
      <3> QED BY <1>2, <2>1, <2>3, <2>5, <3>2 DEF Result, Stage, Replacing, ClosedOnly
    <2> QED BY <2>4, <2>5
  <1> QED BY <1>1, <1>3, <1>4

LEMMA CloseStage ==
    ASSUME NEW t, NEW k, NEW n, Case(t, k, n), CloseOld(t)
    PROVE  Result(t, k, n)
  <1>0. Typed /\ t \in Workers
    BY DEF Case
  <1>1. /\ work[t].pc = "close" /\ More(t) /\ UNCHANGED <<registry, entries>>
        /\ work[t].op \in {"update", "resume", "delete"}
    BY <1>0, CloseEffect, OpAt
  <1>2. /\ k \in Nat /\ work[t].i \in Nat /\ n \in Services /\ n \in NamesIn(work[t].items)
        /\ (n = Cur(t).name <=> k = work[t].i)
        /\ (registry[n] # NoService => registry[n] \in DOMAIN svcs /\ svcs[registry[n]].name = n)
    BY <1>1, CaseOf
  <1>3. /\ Goes(t, "drop", work[t].i)
        /\ Closing(svcs, svcs', {registry[Cur(t).name]}) /\ Within(svcs, svcs', {Cur(t).name})
    BY <1>0, <1>2, CloseEffect DEF Case
  <1>4. CASE k # work[t].i
    <2>1. Spared(n)
      BY <1>1, <1>2, <1>3, <1>4 DEF Spared, Within
    <2> QED BY <1>1, <1>2, <1>3, <1>4, <2>1, Elsewhere
  <1>5. CASE k = work[t].i
    <2>1. Kept(n)
      BY <1>1, <1>5 DEF Case, Stage, Deleting, Replacing, Ahead
    <2>2. registry'[n] # NoService /\ ~svcs'[registry'[n]].open
      BY <1>1, <1>2, <1>3, <1>5, <2>1 DEF Kept, Closing
    <2>3. /\ work'[t].op = work[t].op /\ work'[t].items = work[t].items /\ work'[t].pc = "drop" /\ work'[t].i = k
          /\ ~(k < k) /\ ~(k > k)
      BY <1>2, <1>3, <1>5 DEF Goes
    <2>4. CASE work[t].op = "delete"
      BY <2>2, <2>3, <2>4 DEF Result, Stage, Deleting, ClosedOnly, Ahead
    <2>5. CASE work[t].op \in {"update", "resume"}
      <3>1. /\ Len(entries'[n]) = 1 /\ (work[t].op = "resume" => entries'[n][1].addr = work[t].items[k].addr)
        BY <1>1, <2>5 DEF Case, Stage, Replacing
      <3> QED BY <2>2, <2>3, <2>5, <3>1 DEF Result, Stage, Replacing, ClosedOnly, Ahead
    <2> QED BY <1>1, <2>4, <2>5
  <1> QED BY <1>4, <1>5

LEMMA DropStage ==
    ASSUME NEW t, NEW k, NEW n, Case(t, k, n), Unregister(t)
    PROVE  Result(t, k, n)
  <1>0. Typed /\ t \in Workers
    BY DEF Case
  <1>1. /\ work[t].pc = "drop" /\ More(t) /\ entries' = entries
        /\ Within(svcs, svcs', {Cur(t).name})
        /\ work[t].op \in {"update", "resume", "delete"}
        /\ registry'[Cur(t).name] = NoService
        /\ \A m \in Services : m # Cur(t).name => registry'[m] = registry[m]
    BY <1>0, DropEffect, OpAt
  <1>2. /\ k \in Nat /\ work[t].i \in Nat /\ n \in Services /\ n \in NamesIn(work[t].items)
        /\ (n = Cur(t).name <=> k = work[t].i)
        /\ (registry[n] # NoService => registry[n] \in DOMAIN svcs /\ svcs[registry[n]].name = n)
    BY <1>1, CaseOf
  <1>3. /\ work[t].op = "delete" => Goes(t, "close", work[t].i + 1)
        /\ work[t].op # "delete" => Goes(t, "parse", work[t].i)
    BY <1>0, DropEffect
  <1>4. CASE k # work[t].i
    <2>1. Spared(n)
      BY <1>1, <1>2, <1>4 DEF Spared, Within
    <2>2. CASE work[t].op = "delete"
      <3>1. Goes(t, "close", work[t].i + 1) /\ work[t].i + 1 \in Nat
        BY <1>2, <1>3, <2>2
      <3> QED BY <1>1, <1>4, <2>1, <3>1, Elsewhere
    <2>3. CASE work[t].op # "delete"
      <3>1. Goes(t, "parse", work[t].i)
        BY <1>3, <2>3
      <3> QED BY <1>1, <1>2, <1>4, <2>1, <3>1, Elsewhere
    <2> QED BY <2>2, <2>3
  <1>5. CASE k = work[t].i
    <2>1. registry'[n] = NoService
      BY <1>1, <1>2, <1>5
    <2>2. CASE work[t].op = "delete"
      <3>1. Goes(t, "close", k + 1)
        BY <1>3, <1>5, <2>2
      <3>2. k < k + 1 /\ k # k + 1 /\ ~(k > k + 1)
        BY <1>2
      <3> QED BY <2>1, <2>2, <3>1, <3>2 DEF Result, Stage, Goes, Deleting, ClosedOnly, Ahead
    <2>3. CASE work[t].op \in {"update", "resume"}
      <3>1. Goes(t, "parse", k) /\ ~(k < k) /\ ~(k > k)
        BY <1>2, <1>3, <1>5, <2>3
      <3>2. /\ Len(entries'[n]) = 1 /\ (work[t].op = "resume" => entries'[n][1].addr = work[t].items[k].addr)
        BY <1>1, <2>3 DEF Case, Stage, Replacing
      <3> QED BY <2>1, <2>3, <3>1, <3>2 DEF Result, Stage, Goes, Replacing, ClosedOnly, Ahead
    <2> QED BY <1>1, <2>2, <2>3
  <1> QED BY <1>4, <1>5

LEMMA FailingStage ==
    ASSUME NEW t, NEW k, NEW n, Case(t, k, n), work[t].pc \in {"parse", "register"}, Failing(t)
    PROVE  Result(t, k, n)
  <1>0. Typed /\ t \in Workers /\ n \notin crossed' /\ k \in DOMAIN work[t].items
    BY DEF Case
  <1>1. /\ work[t].op \in {"update", "resume"} /\ More(t)
        /\ (work[t].batch \/ Len(work[t].items) = 1)
    BY <1>0, OpAt
  <1>2. /\ k \in Nat /\ work[t].i \in Nat /\ n \in Services
        /\ (n = Cur(t).name <=> k = work[t].i) /\ (n \in Before(t) <=> k < work[t].i)
        /\ (registry[n] # NoService => registry[n] \in DOMAIN svcs /\ svcs[registry[n]].name = n)
        /\ 1 <= k /\ Len(work[t].items) \in Nat
    BY <1>1, CaseOf
  <1>3. n # Cur(t).name /\ k # work[t].i /\ (work[t].op = "update" => n \notin Before(t))
    BY <1>0, <1>2 DEF Failing
  <1>4. CASE k > work[t].i
    <2>1. n \notin Before(t) /\ n \notin {Cur(t).name} \cup Before(t)
      BY <1>2, <1>3, <1>4
    <2>2. Kept(n)
      BY <1>1, <1>4 DEF Case, Stage, Replacing, Ahead
    <2>3. Spared(n)
      BY <1>2, <2>1 DEF Failing, Within, Spared
    <2> QED BY <2>2, <2>3, SparedStays DEF Failing, Left, Kept, Result
  <1>5. CASE k < work[t].i
    <2>1. work[t].op = "resume" /\ n \in Before(t)
      BY <1>1, <1>2, <1>3, <1>5
    <2>2. work[t].batch
      <3>1. Len(work[t].items) = 1 => FALSE
        <4>1. work[t].i \in 1..Len(work[t].items)
          BY <1>0, <1>1, RequestOf
        <4> QED BY <1>2, <1>5, <4>1
      <3> QED BY <1>1, <3>1
    <2>3. /\ Len(entries[n]) = 1 /\ entries[n][1].addr = work[t].items[k].addr
          /\ registry[n] # NoService /\ Up(registry[n], 1) /\ svcs[registry[n]].addr = work[t].items[k].addr
      BY <1>5, <2>1 DEF Case, Stage, Replacing
    <2>4. PICK B : B = Before(t)
      OBVIOUS
    <2>5. MarkedAs(B, TRUE) /\ entries' = Marked(B, TRUE)
      <3>1. entries \in [Services -> Seq(ConfigEntry)]
        BY <1>0 DEF Typed, ServiceTypeOK
      <3>2. MarkedAs(B, TRUE)
        BY <3>1, Marks, Zenon
      <3>3. entries' = Marked(B, TRUE)
        BY <2>1, <2>2, <2>4 DEF Failing
      <3> QED BY <3>2, <3>3
    <2>6. Len(entries'[n]) = 1 /\ entries'[n][1].addr = entries[n][1].addr /\ entries'[n][1].paused
      <3>1. entries[n] # <<>>
        BY <2>3, LenOne
      <3> QED BY <1>2, <2>1, <2>3, <2>4, <2>5, <3>1 DEF MarkedAs
    <2>7. /\ registry'[n] = registry[n] /\ svcs'[registry[n]].name = n /\ svcs'[registry[n]].served = 1
          /\ svcs'[registry[n]].addr = svcs[registry[n]].addr
      BY <1>2, <1>3, <2>3 DEF Failing, Within, Up
    <2>8. Agrees(n)'
      BY <2>3, <2>6, <2>7 DEF Agrees
    <2> QED BY <2>8 DEF Failing, Left, Result
  <1> QED BY <1>2, <1>3, <1>4, <1>5

LEMMA ReparseStage ==
    ASSUME NEW t, NEW k, NEW n, Case(t, k, n), Reparse(t)
    PROVE  Result(t, k, n)
  <1>0. Typed /\ t \in Workers
    BY DEF Case
  <1>1. /\ work[t].pc = "parse" /\ More(t) /\ registry' = registry
        /\ work[t].op \in {"update", "resume"}
    BY <1>0, ReparseEffect, OpAt
  <1>2. /\ k \in Nat /\ work[t].i \in Nat /\ n \in Services
        /\ (n = Cur(t).name <=> k = work[t].i)
        /\ (registry[n] # NoService => registry[n] \in DOMAIN svcs /\ svcs[registry[n]].name = n)
    BY <1>1, CaseOf
  <1>3. CASE /\ Building(svcs, svcs', Cur(t)) /\ entries' = entries
             /\ Goes(t, "register", work[t].i) /\ Holds(t, work[t].made, Len(svcs) + 1)
    <2>1. CASE k # work[t].i
      <3>1. Spared(n)
        BY <1>1, <1>2, <1>3 DEF Spared, Building
      <3> QED BY <1>1, <1>2, <1>3, <2>1, <3>1, Elsewhere
    <2>2. CASE k = work[t].i
      <3>1. /\ Len(entries'[n]) = 1 /\ (work[t].op = "resume" => entries'[n][1].addr = work[t].items[k].addr)
            /\ registry'[n] = NoService
        BY <1>1, <1>3, <2>2 DEF Case, Stage, Replacing
      <3>2. Up(work[t].new, 0)'
        BY <1>3 DEF Building, Holds, Up
      <3>3. /\ work'[t].op = work[t].op /\ work'[t].items = work[t].items /\ work'[t].pc = "register" /\ work'[t].i = k
            /\ ~(k < k) /\ ~(k > k)
        BY <1>2, <1>3, <2>2 DEF Goes
      <3> QED BY <1>1, <3>1, <3>2, <3>3 DEF Result, Stage, Replacing, ClosedOnly, Ahead
    <2> QED BY <2>1, <2>2
  <1>4. CASE Failing(t)
    BY <1>1, <1>4, FailingStage
  <1> QED BY <1>0, <1>3, <1>4, ReparseEffect

LEMMA RegisterStage ==
    ASSUME NEW t, NEW k, NEW n, Case(t, k, n), Register(t)
    PROVE  Result(t, k, n)
  <1>0. Typed /\ t \in Workers
    BY DEF Case
  <1>1. /\ work[t].pc = "register" /\ More(t) /\ work[t].op \in {"update", "resume"}
        /\ For(work[t].new, Cur(t))
    BY <1>0, RegisterEffect, OpAt
  <1>2. /\ k \in Nat /\ work[t].i \in Nat /\ n \in Services
        /\ (n = Cur(t).name <=> k = work[t].i)
        /\ (registry[n] # NoService => registry[n] \in DOMAIN svcs /\ svcs[registry[n]].name = n)
    BY <1>1, CaseOf
  <1>3. CASE /\ registry'[Cur(t).name] = work[t].new
             /\ \A m \in Services : m # Cur(t).name => registry'[m] = registry[m]
             /\ Serving(svcs, svcs', {work[t].new}) /\ entries' = entries
             /\ Goes(t, "close", work[t].i + 1)
    <2>1. CASE k # work[t].i
      <3>1. Spared(n)
        BY <1>1, <1>2, <1>3, <2>1 DEF Spared, Serving, For
      <3>2. work[t].i + 1 \in Nat
        BY <1>2
      <3> QED BY <1>1, <1>2, <1>3, <2>1, <3>1, <3>2, Elsewhere
    <2>2. CASE k = work[t].i
      <3>1. /\ Len(entries'[n]) = 1 /\ (work[t].op = "resume" => entries'[n][1].addr = work[t].items[k].addr)
            /\ Up(work[t].new, 0)
        BY <1>1, <1>3, <2>2 DEF Case, Stage, Replacing
      <3>2. work[t].new \in DOMAIN svcs /\ svcs[work[t].new].addr = work[t].items[k].addr /\ work[t].new # NoService
        BY <1>0, <1>1, <2>2, OpAt DEF For, Cur
      <3>3. /\ registry'[n] # NoService /\ Up(registry[n], 1)' /\ svcs'[registry'[n]].addr = work[t].items[k].addr
        BY <1>2, <1>3, <2>2, <3>1, <3>2 DEF Serving, Up
      <3>4. /\ work'[t].op = work[t].op /\ work'[t].items = work[t].items /\ work'[t].pc = "close" /\ work'[t].i = k + 1
            /\ k < k + 1 /\ k # k + 1 /\ ~(k > k + 1)
        BY <1>2, <1>3, <2>2 DEF Goes
      <3> QED BY <1>1, <3>1, <3>3, <3>4 DEF Result, Stage, Replacing, ClosedOnly, Ahead
    <2> QED BY <2>1, <2>2
  <1>4. CASE Failing(t)
    BY <1>1, <1>4, FailingStage
  <1> QED BY <1>0, <1>3, <1>4, RegisterEffect

LEMMA DoneStage ==
    ASSUME NEW t, NEW k, NEW n, Case(t, k, n), LoopDone(t)
    PROVE  Result(t, k, n)
  <1>0. Typed /\ t \in Workers
    BY DEF Case
  <1>1. /\ work[t].pc = "close" /\ ~More(t) /\ UNCHANGED <<svcs, registry, entries>>
        /\ work[t].op \in {"update", "resume", "delete"} /\ Goes(t, "config", work[t].i)
    BY <1>0, DoneTyped, OpAt DEF LoopDone
  <1>2. work[t].i = Len(work[t].items) + 1
    BY <1>0, <1>1, RequestOf
  <1>3. k # work[t].i /\ work[t].i \in Nat
    BY <1>2, CaseOf
  <1>4. Spared(n)
    BY <1>1 DEF Spared
  <1> QED BY <1>1, <1>3, <1>4, Elsewhere

LEMMA WriteStage ==
    ASSUME NEW t, NEW k, NEW n, Case(t, k, n), WriteConfig(t)
    PROVE  Result(t, k, n)
  <1>0. Typed /\ t \in Workers
    BY DEF Case
  <1>1. PICK l \in Seq(Item) : l = work[t].items /\ Distinct(l)
    BY <1>0, RequestOf
  <1>1a. PICK N : N = NamesIn(l)
    OBVIOUS
  <1>2. /\ UNCHANGED <<svcs, registry>> /\ work[t].pc = "config" /\ Left(t) /\ work[t].op \in Ops
        /\ work[t].op = "create" => entries' = Appended(l)
        /\ work[t].op = "update" => entries' = Replaced(l)
        /\ work[t].op = "delete" => entries' = Removed(l)
        /\ work[t].op = "pause" => entries' = Marked(N, TRUE)
        /\ work[t].op = "resume" => entries' = Marked(N, FALSE)
    BY <1>0, <1>1, <1>1a, WriteEffect, OpAt
  <1>3. /\ k \in Nat /\ n \in Services /\ k \in DOMAIN l /\ n = l[k].name /\ n \in N
        /\ (registry[n] # NoService => registry[n] \in DOMAIN svcs /\ svcs[registry[n]].name = n)
    BY <1>1, <1>1a, CaseOf DEF Case
  <1>4. work[t].op # "pause" => k < work[t].i
    <2>1. work[t].op # "pause" => work[t].i = Len(work[t].items) + 1
      BY <1>0, <1>2, OpAt
    <2>2. work[t].i = Len(work[t].items) + 1 => k < work[t].i
      BY CaseOf
    <2> QED BY <2>1, <2>2
  <1>5. entries \in [Services -> Seq(ConfigEntry)] /\ entries[n] \in Seq(ConfigEntry)
    BY <1>0, <1>3 DEF Typed, ServiceTypeOK
  <1>6. Agrees(n)'
    <2>1. CASE work[t].op = "create"
      <3>1. entries[n] = <<>> /\ Up(work[t].made[k], 1) /\ registry[n] = work[t].made[k]
        BY <1>2, <2>1 DEF Case, Stage, Creating
      <3>2. k \in DOMAIN work[t].made
        <4>1. Len(work[t].made) = Len(work[t].items)
          BY <1>0, <1>2, <2>1, OpAt
        <4> QED BY <1>0, <4>1, MadeOf, RequestOf DEF Case
      <3>3. registry[n] \in DOMAIN svcs /\ svcs[registry[n]].name = n /\ svcs[registry[n]].addr = l[k].addr
        BY <1>1, <1>1a, <3>1, <3>2, MadeHere
      <3>4. registry[n] # NoService
        BY <1>0, <3>3, ServicesOf, ServiceAssumption DEF Typed, ServiceTypeOK
      <3>5. Len(entries'[n]) = 1 /\ entries'[n][1].addr = l[k].addr /\ ~entries'[n][1].paused
        <4>1. /\ Len(Appended(l)[n]) = 1 /\ Appended(l)[n][1].addr = l[k].addr
              /\ ~Appended(l)[n][1].paused
          BY <1>1, <1>1a, <1>3, <1>5, <3>1, Appends
        <4> QED BY <1>2, <2>1, <4>1
      <3> QED BY <1>2, <3>1, <3>3, <3>4, <3>5 DEF Agrees, Up
    <2>2. CASE work[t].op = "update"
      <3>1. /\ Len(entries[n]) = 1 /\ registry[n] # NoService /\ Up(registry[n], 1)
            /\ svcs[registry[n]].addr = l[k].addr
        BY <1>1, <1>1a, <1>4, <2>2 DEF Case, Stage, Replacing
      <3>2. Len(entries'[n]) = 1 /\ entries'[n][1].addr = l[k].addr /\ ~entries'[n][1].paused
        <4>1. /\ Len(Replaced(l)[n]) = 1 /\ Replaced(l)[n][1].addr = l[k].addr
              /\ ~Replaced(l)[n][1].paused
          BY <1>1, <1>1a, <1>3, <1>5, <3>1, Replaces
        <4> QED BY <1>2, <2>2, <4>1
      <3> QED BY <1>2, <1>3, <3>1, <3>2 DEF Agrees, Up
    <2>3. CASE work[t].op = "delete"
      <3>1. registry[n] = NoService
        BY <1>4, <2>3 DEF Case, Stage, Deleting
      <3>2. entries'[n] = <<>>
        BY <1>1, <1>1a, <1>2, <1>3, <1>5, <2>3, Removes
      <3> QED BY <1>2, <3>1, <3>2 DEF Agrees
    <2>4. CASE work[t].op = "pause"
      <3>1. registry[n] # NoService /\ Agrees(n)
        BY <2>4 DEF Case, Stage, Kept
      <3>2. Len(entries[n]) = 1 /\ entries[n] # <<>>
        BY <3>1, LenOne DEF Agrees
      <3>3. MarkedAs(N, TRUE)
        BY <1>5, Marks, Zenon
      <3>4. entries' = Marked(N, TRUE)
        BY <1>2, <2>4
      <3>5. Len(entries'[n]) = 1 /\ entries'[n][1].addr = entries[n][1].addr /\ entries'[n][1].paused
        BY <1>3, <3>2, <3>3, <3>4 DEF MarkedAs
      <3> QED BY <1>2, <3>1, <3>5 DEF Agrees
    <2>5. CASE work[t].op = "resume"
      <3>1. /\ Len(entries[n]) = 1 /\ registry[n] # NoService /\ Up(registry[n], 1)
            /\ svcs[registry[n]].addr = l[k].addr /\ entries[n][1].addr = l[k].addr
        BY <1>1, <1>1a, <1>4, <2>5 DEF Case, Stage, Replacing
      <3>2. entries[n] # <<>>
        BY <3>1, LenOne
      <3>3. MarkedAs(N, FALSE)
        BY <1>5, Marks, Zenon
      <3>4. entries' = Marked(N, FALSE)
        BY <1>2, <2>5
      <3>5. Len(entries'[n]) = 1 /\ entries'[n][1].addr = entries[n][1].addr
        BY <1>3, <3>1, <3>2, <3>3, <3>4 DEF MarkedAs
      <3> QED BY <1>2, <1>3, <3>1, <3>5 DEF Agrees, Up
    <2> QED BY <1>2, <2>1, <2>2, <2>3, <2>4, <2>5 DEF Ops
  <1> QED BY <1>2, <1>6 DEF Left, Result

LEMMA StepStage ==
    ASSUME NEW t, NEW k, NEW n, Case(t, k, n), Step(t)
    PROVE  Result(t, k, n)
  <1>1. CASE CreateParse(t) \/ CreateParsed(t) \/ CreateRegister(t) \/ CreateServe(t)
    BY <1>1, ParseStage, ParsedStage, EnterStage, ServeStage
  <1>2. CASE CloseOld(t) \/ Unregister(t) \/ Reparse(t) \/ Register(t)
    BY <1>2, CloseStage, DropStage, ReparseStage, RegisterStage
  <1>3. CASE LoopDone(t) \/ WriteConfig(t)
    BY <1>3, DoneStage, WriteStage
  <1> QED BY <1>1, <1>2, <1>3 DEF Step

-----------------------------------------------------------------------------
(* The other requests.                                                      *)

\* Nothing happens to name n and the services built for it.
Aside(n) == Spared(n) /\ \A s \in DOMAIN svcs : svcs[s].name = n => svcs'[s] = svcs[s]

LEMMA FrameAside ==
    ASSUME Typed, NEW t \in Workers, Frame(t), NEW n \in Services, n \notin NamesIn(work[t].items)
    PROVE  Aside(n)
  <1>1. registry[n] # NoService => registry[n] \in DOMAIN svcs /\ svcs[registry[n]].name = n
    BY DEF Typed, Named
  <1>2. registry'[n] = registry[n] /\ entries'[n] = entries[n]
    BY DEF Frame, RegistryFrame, EntriesFrame
  <1>3. \A s \in DOMAIN svcs : svcs[s].name = n => svcs'[s] = svcs[s]
    BY DEF Frame, SvcsFrame, Within
  <1> QED BY <1>1, <1>2, <1>3 DEF Aside, Spared

LEMMA AsideStage ==
    ASSUME Typed, NEW u \in Workers, work'[u] = work[u], NEW k \in DOMAIN work[u].items, NEW n,
           n = work[u].items[k].name, Aside(n), Stage(work[u], k, n)
    PROVE  Stage(work[u], k, n)'
  <1>1. /\ registry'[n] = registry[n] /\ entries'[n] = entries[n]
        /\ Agrees(n) => Agrees(n)'
        /\ Kept(n) => Kept(n)'
        /\ registry[n] # NoService => svcs'[registry[n]] = svcs[registry[n]]
    BY SparedStays DEF Aside, Spared
  <1>2. ASSUME k \in DOMAIN work[u].made PROVE svcs'[work[u].made[k]] = svcs[work[u].made[k]]
    BY <1>2, MadeOf DEF For, Aside
  <1>3. k \in Nat /\ work[u].i \in Nat /\ k \in 1..Len(work[u].items) /\ Len(work[u].items) \in Nat
    BY RequestOf, ItemOf
  <1>4. CASE work[u].op = "create"
    <2>1. Creating(work[u], k, n)
      BY <1>4 DEF Stage
    <2>2. ASSUME work[u].pc = "check", k < work[u].i PROVE k \in DOMAIN work[u].made
      <3>1. Len(work[u].made) = work[u].i - 1 /\ DOMAIN work[u].made = 1..Len(work[u].made)
        BY <2>2, OpAt, MadeOf
      <3> QED BY <1>3, <2>2, <3>1
    <2>3. ASSUME work[u].pc # "check" PROVE k \in DOMAIN work[u].made
      <3>1. Len(work[u].made) = Len(work[u].items) /\ DOMAIN work[u].made = 1..Len(work[u].made)
        BY <1>4, <2>3, OpAt, MadeOf
      <3> QED BY <1>3, <3>1
    <2>4. Creating(work[u], k, n)'
      BY <1>1, <1>2, <2>1, <2>2, <2>3 DEF Creating, Absent, Up
    <2> QED BY <1>4, <2>4 DEF Stage
  <1>5. CASE work[u].op = "delete"
    <2>1. Deleting(work[u], k, n)
      BY <1>5 DEF Stage
    <2>2. Deleting(work[u], k, n)'
      BY <1>1, <2>1 DEF Deleting, ClosedOnly, Ahead
    <2> QED BY <1>5, <2>2 DEF Stage
  <1>6. CASE work[u].op \in {"update", "resume"}
    <2>1. Replacing(work[u], k, n)
      BY <1>6 DEF Stage
    <2>2. ASSUME k = work[u].i, work[u].pc = "register" PROVE svcs'[work[u].new] = svcs[work[u].new]
      <3>1. Hands(work[u]) /\ work[u].new # NoService
        BY <2>2, OpAt DEF Typed, Doing
      <3> QED BY <2>2, <3>1 DEF Hands, For, Aside
    <2>3. Replacing(work[u], k, n)'
      <3>1. ClosedOnly(work[u], k, n)'
        BY <1>1, <2>1 DEF Replacing, ClosedOnly
      <3>2. Ahead(work[u], k)' => Kept(n)'
        BY <1>1, <2>1 DEF Replacing, Ahead
      <3>3. k < work[u].i => registry'[n] # NoService /\ Up(registry[n], 1)' /\ svcs'[registry'[n]].addr = work[u].items[k].addr
        BY <1>1, <2>1 DEF Replacing, Up
      <3>4. k = work[u].i /\ work[u].pc = "register" => Up(work[u].new, 0)'
        BY <2>1, <2>2 DEF Replacing, Up
      <3> QED BY <1>1, <2>1, <3>1, <3>2, <3>3, <3>4 DEF Replacing
    <2> QED BY <1>6, <2>3 DEF Stage
  <1>7. CASE work[u].op = "pause"
    BY <1>1, <1>7 DEF Stage
  <1> QED BY <1>4, <1>5, <1>6, <1>7 DEF Stage

\* A step either ends the request or goes on with its list.
LEMMA StepGoes ==
    ASSUME Typed, NEW t \in Workers, Step(t)
    PROVE  /\ Working(t)
           /\ Left(t) \/ (work'[t].items = work[t].items /\ work'[t].pc # "idle")
  <1>1. CASE CreateParse(t) \/ CreateParsed(t) \/ CreateRegister(t) \/ CreateServe(t)
    BY <1>1, ParseEffect, ParsedTyped, EnterEffect, ServeEffect DEF CreateParsed, Goes, Working
  <1>2. CASE CloseOld(t)
    BY <1>2, CloseEffect DEF Goes, Working
  <1>3. CASE Unregister(t)
    BY <1>3, DropEffect DEF Goes, Working
  <1>4. CASE Reparse(t) \/ Register(t)
    BY <1>4, ReparseEffect, RegisterEffect DEF Failing, Goes, Working
  <1>5. CASE LoopDone(t) \/ WriteConfig(t)
    BY <1>5, DoneTyped, WriteEffect DEF LoopDone, Goes, Working
  <1> QED BY <1>1, <1>2, <1>3, <1>4, <1>5 DEF Step

-----------------------------------------------------------------------------
(* Names that nobody shares.                                                *)

LEMMA StartApart ==
    ASSUME IInv, NEW t \in Workers, Begins(t)
    PROVE  Apart' /\ Stages' /\ Undisturbed'
  <1>0. Typed /\ Apart /\ Stages /\ Undisturbed
    BY DEF IInv
  <1>1. PICK op \in Ops, batch \in BOOLEAN : \E l : Starts(t, op, batch, l)
    BY DEF Begins
  <1>2. PICK l : Starts(t, op, batch, l)
    BY <1>1
  <1>3. /\ Frame(t) /\ UNCHANGED <<svcs, registry, entries, leaked>> /\ ~Working(t)
        /\ crossed' = crossed \cup {n \in NamesIn(l) : WorkersAt(n) # {}}
        /\ work'[t].op = op /\ work'[t].batch = batch /\ work'[t].items = l /\ work'[t].i = 1
        /\ work'[t].pc = First(op) /\ work'[t].made = <<>> /\ work'[t].new = NoService
    BY <1>0, <1>2, StartEffect
  <1>4. \A u \in Workers : u # t => work'[u] = work[u]
    BY <1>3 DEF Frame, Others
  <1>5. \A n : \A u \in Workers : u # t => (u \in WorkersAt(n)' <=> u \in WorkersAt(n))
    BY <1>4 DEF WorkersAt, Working
  <1>6. \A n : t \notin WorkersAt(n)
    BY <1>3 DEF WorkersAt
  <1>7. \A n : t \in WorkersAt(n)' => n \in NamesIn(l)
    BY <1>3 DEF WorkersAt
  <1>8. Apart'
    <2> SUFFICES ASSUME NEW n \in Services, n \notin crossed', NEW a \in WorkersAt(n)', NEW b \in WorkersAt(n)'
                 PROVE  a = b
      BY DEF Apart
    <2>1. a \in Workers /\ b \in Workers
      BY DEF WorkersAt
    <2>2. CASE a # t /\ b # t
      <3>1. a \in WorkersAt(n) /\ b \in WorkersAt(n) /\ n \notin crossed
        BY <1>3, <1>5, <2>1, <2>2
      <3> QED BY <1>0, <3>1 DEF Apart
    <2>3. CASE a = t \/ b = t
      <3>1. WorkersAt(n) = {}
        BY <1>3, <1>7, <2>3
      <3> QED BY <1>5, <2>1, <2>3, <3>1
    <2> QED BY <2>2, <2>3
  <1>9. Undisturbed'
    <2> SUFFICES ASSUME NEW n \in Services, n \notin crossed', WorkersAt(n)' = {} PROVE Agrees(n)'
      BY DEF Undisturbed
    <2>1. WorkersAt(n) = {}
      <3> SUFFICES ASSUME NEW u \in WorkersAt(n) PROVE FALSE
        OBVIOUS
      <3>1. u \in Workers /\ u # t
        BY <1>6 DEF WorkersAt
      <3> QED BY <1>5, <3>1
    <2>2. Agrees(n)
      BY <1>0, <1>3, <2>1 DEF Undisturbed
    <2> QED BY <1>3, <2>2 DEF Agrees
  <1>10. ASSUME NEW k \in DOMAIN l, l[k].name \notin crossed' PROVE Stage(work[t], k, l[k].name)'
    <2>1. PICK n : n = l[k].name
      OBVIOUS
    <2>2. n \in Services /\ n \in NamesIn(l) /\ k \in 1..Len(l) /\ Len(l) \in Nat /\ k \in Nat
      BY <1>2, <2>1, ItemsOf DEF Starts
    <2>3. WorkersAt(n) = {} /\ n \notin crossed
      BY <1>3, <1>10, <2>1, <2>2
    <2>4. Agrees(n) /\ Agrees(n)'
      BY <1>0, <1>3, <2>2, <2>3 DEF Undisturbed, Agrees
    <2>5. op # "create" => registry[n] # NoService
      BY <1>2, <2>2 DEF Starts, Registered
    <2>6. op # "create" => Kept(n)' /\ Len(entries'[n]) = 1
      BY <1>3, <2>4, <2>5 DEF Kept, Agrees
    <2>7. op = "resume" => entries'[n][1].addr = l[k].addr
      BY <1>2, <1>3, <2>1 DEF Starts, ByEntries
    <2>8. ~(k < 1)
      BY <2>2
    <2>9. Stage(work[t], k, n)'
      <3>1. CASE op = "create"
        BY <1>3, <2>4, <2>8, <3>1 DEF Stage, Creating, First
      <3>2. CASE op = "delete"
        BY <1>3, <2>6, <2>8, <3>2 DEF Stage, Deleting, ClosedOnly, First
      <3>3. CASE op \in {"update", "resume"}
        BY <1>3, <2>6, <2>7, <2>8, <3>3 DEF Stage, Replacing, ClosedOnly, First
      <3>4. CASE op = "pause"
        BY <1>3, <2>6, <3>4 DEF Stage
      <3> QED BY <3>1, <3>2, <3>3, <3>4 DEF Ops
    <2> QED BY <2>1, <2>9
  <1>11. ASSUME NEW u \in Workers, u # t, NEW k \in DOMAIN work[u].items, work[u].items[k].name \notin crossed'
         PROVE  Stage(work[u], k, work[u].items[k].name)'
    <2>1. PICK n : n = work[u].items[k].name
      OBVIOUS
    <2>2. Stage(work[u], k, n)
      BY <1>0, <1>3, <1>11, <2>1 DEF Stages, Staged
    <2>3. Aside(n)
      BY <1>3 DEF Aside, Spared
    <2>4. Stage(work[u], k, n)'
      BY <1>0, <1>4, <1>11, <2>1, <2>2, <2>3, AsideStage
    <2>5. n = work'[u].items[k].name
      BY <1>4, <1>11, <2>1
    <2> QED BY <2>4, <2>5
  <1>12. Stages'
    <2> SUFFICES ASSUME NEW u \in Workers PROVE Staged(work[u])'
      BY DEF Stages
    <2>1. CASE u = t
      BY <1>3, <1>10, <2>1 DEF Staged
    <2>2. CASE u # t
      BY <1>4, <1>11, <2>2 DEF Staged
    <2> QED BY <2>1, <2>2
  <1> QED BY <1>8, <1>9, <1>12

LEMMA StepApart ==
    ASSUME IInv, NEW t \in Workers, Step(t)
    PROVE  Apart' /\ Stages' /\ Undisturbed'
  <1>0. Typed /\ Apart /\ Stages /\ Undisturbed
    BY DEF IInv
  <1>1. Frame(t) /\ Working(t) /\ (Left(t) \/ (work'[t].items = work[t].items /\ work'[t].pc # "idle"))
    BY <1>0, StepTyped, StepGoes
  <1>2. \A u \in Workers : u # t => work'[u] = work[u]
    BY <1>1 DEF Frame, Others
  <1>3. crossed \subseteq crossed'
    BY <1>1 DEF Frame, HistoryFrame
  <1>4. \A n : \A u \in Workers : u # t => (u \in WorkersAt(n)' <=> u \in WorkersAt(n))
    BY <1>2 DEF WorkersAt, Working
  <1>5. \A n : t \in WorkersAt(n) <=> n \in NamesIn(work[t].items)
    BY <1>1 DEF WorkersAt
  <1>6. \A n : t \in WorkersAt(n)' => t \in WorkersAt(n) /\ work'[t].pc # "idle"
    BY <1>1 DEF WorkersAt, Working, Left
  <1>7. Apart'
    <2> SUFFICES ASSUME NEW n \in Services, n \notin crossed', NEW a \in WorkersAt(n)', NEW b \in WorkersAt(n)'
                 PROVE  a = b
      BY DEF Apart
    <2>1. a \in Workers /\ b \in Workers
      BY DEF WorkersAt
    <2>2. a \in WorkersAt(n) /\ b \in WorkersAt(n) /\ n \notin crossed
      BY <1>3, <1>4, <1>6, <2>1
    <2> QED BY <1>0, <2>2 DEF Apart
  <1>8. ASSUME NEW k \in DOMAIN work[t].items, NEW n, n = work[t].items[k].name, n \notin crossed'
        PROVE  Result(t, k, n)
    <2>1. Stage(work[t], k, n)
      BY <1>0, <1>3, <1>8 DEF Stages, Staged
    <2>2. Case(t, k, n)
      BY <1>0, <1>8, <2>1 DEF Case
    <2> QED BY <2>2, StepStage
  <1>9. Stages'
    <2> SUFFICES ASSUME NEW u \in Workers PROVE Staged(work[u])'
      BY DEF Stages
    <2>1. CASE u = t /\ Left(t)
      <3>1. DOMAIN <<>> = {}
        OBVIOUS
      <3> QED BY <2>1, <3>1 DEF Left, Staged
    <2>2. CASE u = t /\ work'[t].items = work[t].items /\ work'[t].pc # "idle"
      <3> SUFFICES ASSUME NEW k \in DOMAIN work'[t].items, work'[t].items[k].name \notin crossed'
                   PROVE  Stage(work[t], k, work[t].items[k].name)'
        BY <2>2 DEF Staged
      <3>1. PICK n : n = work[t].items[k].name /\ n = work'[t].items[k].name
        BY <2>2
      <3>2. Stage(work[t], k, n)'
        BY <1>8, <2>2, <3>1 DEF Result
      <3> QED BY <3>1, <3>2
    <2>3. CASE u # t /\ Working(u)
      <3> SUFFICES ASSUME NEW k \in DOMAIN work[u].items, work[u].items[k].name \notin crossed'
                   PROVE  Stage(work[u], k, work[u].items[k].name)'
        BY <1>2, <2>3 DEF Staged
      <3>1. PICK n \in Services : n = work[u].items[k].name /\ n \in NamesIn(work[u].items)
        BY <1>0, ItemOf
      <3>2. Stage(work[u], k, n) /\ n \notin crossed
        BY <1>0, <1>3, <3>1 DEF Stages, Staged
      <3>3. Aside(n)
        <4>1. n \notin NamesIn(work[t].items)
          BY <1>0, <1>1, <2>3, <3>1, <3>2 DEF Apart, WorkersAt
        <4> QED BY <1>0, <1>1, <4>1, FrameAside
      <3>4. Stage(work[u], k, n)'
        BY <1>0, <1>2, <2>3, <3>1, <3>2, <3>3, AsideStage
      <3>5. n = work'[u].items[k].name
        BY <1>2, <2>3, <3>1
      <3> QED BY <3>4, <3>5
    <2>4. CASE u # t /\ ~Working(u)
      <3>1. work'[u].op = "none"
        BY <1>0, <1>2, <2>4 DEF Typed, Doing, Steps, Working
      <3> QED BY <3>1 DEF Staged, Stage
    <2> QED BY <1>1, <2>1, <2>2, <2>3, <2>4
  <1>10. Undisturbed'
    <2> SUFFICES ASSUME NEW n \in Services, n \notin crossed', WorkersAt(n)' = {} PROVE Agrees(n)'
      BY DEF Undisturbed
    <2>1. CASE n \in NamesIn(work[t].items)
      <3>1. PICK k \in DOMAIN work[t].items : work[t].items[k].name = n
        BY <2>1 DEF NamesIn
      <3>2. work'[t].pc = "idle"
        BY <1>1, <2>1 DEF WorkersAt, Working, Left
      <3> QED BY <1>8, <3>1, <3>2 DEF Result
    <2>2. CASE n \notin NamesIn(work[t].items)
      <3>1. WorkersAt(n) = {}
        <4> SUFFICES ASSUME NEW u \in WorkersAt(n) PROVE FALSE
          OBVIOUS
        <4>1. u \in Workers /\ u # t
          BY <1>5, <2>2 DEF WorkersAt
        <4> QED BY <1>4, <4>1
      <3>2. Agrees(n)
        BY <1>0, <1>3, <3>1 DEF Undisturbed
      <3>3. Spared(n)
        BY <1>0, <1>1, <2>2, FrameAside DEF Aside
      <3> QED BY <3>2, <3>3, SparedStays
    <2> QED BY <2>1, <2>2
  <1> QED BY <1>7, <1>9, <1>10

-----------------------------------------------------------------------------
(* Open services and their owners.                                          *)

\* What goroutine t has built and not yet registered.
Mine(t) == MadeBy(t) \cup {work[t].new}

\* Service s, for name m of the list of t, is open after the step of t, and
\* before it either was not there or was registered or in the hands of t.
Open(t, s, m) ==
    /\ Typed /\ t \in Workers /\ Staged(work[t])
    /\ s \in DOMAIN svcs' /\ svcs'[s].open /\ svcs'[s].name = m /\ m \notin crossed' /\ m \in NamesIn(work[t].items)
    /\ s \in DOMAIN svcs => s \in Mine(t) \/ registry[m] = s

Minded(t, s, m) == s \in leaked' \/ s \in Mine(t)' \/ registry'[m] = s

LEMMA OpenOf ==
    ASSUME NEW t, NEW s, NEW m, Open(t, s, m), Frame(t)
    PROVE  /\ m \in Services /\ m \notin crossed
           /\ s \in DOMAIN svcs => svcs[s].name = m /\ svcs[s].open
           /\ s \in DOMAIN svcs => \/ registry[m] = s
                                   \/ s \in MadeBy(t) /\ work[t].op = "create"
                                   \/ s = work[t].new /\ work[t].pc = "register"
           /\ \E k \in DOMAIN work[t].items :
                 /\ work[t].items[k].name = m /\ Stage(work[t], k, m)
                 /\ s \in MadeBy(t) => k \in DOMAIN work[t].made /\ s = work[t].made[k]
  <1>1. Typed /\ t \in Workers /\ Staged(work[t]) /\ m \in NamesIn(work[t].items) /\ m \notin crossed'
    BY DEF Open
  <1>2. m \in Services /\ m \notin crossed
    BY <1>1, RequestOf DEF Frame, HistoryFrame
  <1>3. s \in DOMAIN svcs => svcs[s].name = m /\ svcs[s].open
    BY DEF Open, Frame, SvcsFrame, Within
  <1>4. s \in DOMAIN svcs => s # NoService
    BY <1>1, ServicesOf, ServiceAssumption DEF Typed, ServiceTypeOK
  <1>5. s \in MadeBy(t) => work[t].op = "create"
    <2>1. work[t].op # "create" => work[t].made = <<>>
      BY <1>1, OpAt
    <2>2. DOMAIN <<>> = {}
      OBVIOUS
    <2> QED BY <2>1, <2>2 DEF MadeBy
  <1>6. s \in DOMAIN svcs /\ s = work[t].new => work[t].pc = "register"
    BY <1>1, <1>4, OpAt
  <1>7. PICK k \in DOMAIN work[t].items : work[t].items[k].name = m /\ Stage(work[t], k, m)
    <2>1. PICK k \in DOMAIN work[t].items : work[t].items[k].name = m
      BY <1>1 DEF NamesIn
    <2> QED BY <1>1, <1>2, <2>1 DEF Staged
  <1>8. s \in MadeBy(t) => k \in DOMAIN work[t].made /\ s = work[t].made[k]
    <2> SUFFICES ASSUME s \in MadeBy(t) PROVE k \in DOMAIN work[t].made /\ s = work[t].made[k]
      OBVIOUS
    <2>1. PICK j \in DOMAIN work[t].made : work[t].made[j] = s
      BY DEF MadeBy
    <2>2. j \in DOMAIN work[t].items /\ s \in DOMAIN svcs /\ svcs[s].name = work[t].items[j].name
      BY <1>1, <2>1, MadeOf DEF For
    <2>3. Distinct(work[t].items)
      BY <1>1, RequestOf
    <2>4. j = k
      BY <1>3, <1>7, <2>2, <2>3 DEF Distinct
    <2> QED BY <2>1, <2>4
  <1>9. s \in DOMAIN svcs => \/ registry[m] = s
                             \/ s \in MadeBy(t) /\ work[t].op = "create"
                             \/ s = work[t].new /\ work[t].pc = "register"
    BY <1>5, <1>6 DEF Open, Mine
  <1> QED BY <1>2, <1>3, <1>7, <1>8, <1>9

LEMMA ParseMinds ==
    ASSUME NEW t, NEW s, NEW m, Open(t, s, m), CreateParse(t)
    PROVE  Minded(t, s, m)
  <1>0. Typed /\ t \in Workers /\ s \in DOMAIN svcs'
    BY DEF Open
  <1>1. Frame(t) /\ registry' = registry /\ work[t].pc = "check"
    BY <1>0, ParseEffect
  <1>2. s \in DOMAIN svcs => registry[m] = s \/ s \in MadeBy(t)
    BY <1>1, OpenOf
  <1>3. CASE Building(svcs, svcs', Cur(t)) /\ Holds(t, Append(work[t].made, Len(svcs) + 1), work[t].new)
             /\ Len(svcs) + 1 \in Ids
    <2>1. PICK a \in Seq(Ids), x \in Ids : a = work[t].made /\ x = Len(svcs) + 1
      BY <1>0, <1>3, MadeOf
    <2>2. PICK n \in Nat : n = Len(a) /\ DOMAIN a = 1..n
      BY LenProperties
    <2>3. /\ Len(Append(a, x)) = n + 1 /\ Append(a, x) \in Seq(Ids) /\ Append(a, x)[n + 1] = x
          /\ \A k \in 1..n : Append(a, x)[k] = a[k]
      BY <2>2, AppendProperties
    <2>4. DOMAIN Append(a, x) = 1..(n + 1)
      BY <2>3, LenProperties
    <2>5. \A k \in 1..n : k \in 1..(n + 1)
      OBVIOUS
    <2>6. work'[t].made = Append(a, x)
      BY <1>3, <2>1 DEF Holds
    <2>7. \A k \in DOMAIN a : a[k] \in MadeBy(t)'
      BY <2>2, <2>3, <2>4, <2>5, <2>6 DEF MadeBy
    <2>8. x \in MadeBy(t)'
      BY <2>3, <2>4, <2>6 DEF MadeBy
    <2>9. s \in DOMAIN svcs \/ s = x
      BY <1>0, <1>3, <2>1 DEF Building
    <2>10. s \in MadeBy(t) => s \in MadeBy(t)'
      BY <2>1, <2>7 DEF MadeBy
    <2> QED BY <1>1, <1>2, <2>8, <2>9, <2>10 DEF Minded, Mine
  <1>4. CASE MadeBy(t) \subseteq leaked' /\ \A k \in DOMAIN svcs' : k \in DOMAIN svcs \/ k \in leaked'
    BY <1>0, <1>1, <1>2, <1>4 DEF Minded
  <1> QED BY <1>0, <1>3, <1>4, ParseEffect

LEMMA HandsMind ==
    ASSUME NEW t, NEW s, NEW m, Open(t, s, m), Frame(t), Holds(t, work[t].made, work[t].new),
           s \in DOMAIN svcs, registry[m] = s => registry'[m] = s
    PROVE  Minded(t, s, m)
  <1>1. MadeBy(t)' = MadeBy(t) /\ work'[t].new = work[t].new
    BY DEF Holds, MadeBy
  <1> QED BY <1>1, OpenOf DEF Minded, Mine

LEMMA EnterMinds ==
    ASSUME NEW t, NEW s, NEW m, Open(t, s, m), CreateRegister(t)
    PROVE  Minded(t, s, m)
  <1>0. Typed /\ t \in Workers /\ s \in DOMAIN svcs' /\ svcs'[s].open
    BY DEF Open
  <1>1. Frame(t) /\ work[t].pc = "enter" /\ More(t) /\ work[t].op = "create"
    BY <1>0, EnterEffect
  <1>2. m \in Services
    BY <1>1, OpenOf
  <1>3. CASE /\ registry[Cur(t).name] = NoService /\ UNCHANGED <<svcs, leaked>>
             /\ \A n \in Services : n # Cur(t).name => registry'[n] = registry[n]
             /\ Holds(t, work[t].made, work[t].new)
    <2>1. s \in DOMAIN svcs /\ s # NoService
      BY <1>0, <1>3, ServicesOf, ServiceAssumption DEF Typed, ServiceTypeOK
    <2>2. registry[m] = s => registry'[m] = s
      BY <1>2, <1>3, <2>1
    <2> QED BY <1>1, <1>3, <2>1, <2>2, HandsMind
  <1>4. CASE /\ registry[Cur(t).name] # NoService
             /\ \A n \in Services : registry'[n] = IF n \in Before(t) THEN NoService ELSE registry[n]
             /\ work[t].batch => /\ Closing(svcs, svcs', {registry[n] : n \in Before(t)})
                                 /\ {work[t].made[k] : k \in work[t].i..Len(work[t].made)} \subseteq leaked'
             /\ ~work[t].batch => Closing(svcs, svcs', {work[t].made[1]})
    <2>1. s \in DOMAIN svcs
      BY <1>0, <1>4 DEF Closing
    <2>2. PICK k \in DOMAIN work[t].items :
             /\ work[t].items[k].name = m /\ Stage(work[t], k, m)
             /\ s \in MadeBy(t) => k \in DOMAIN work[t].made /\ s = work[t].made[k]
      BY <1>1, OpenOf
    <2>3. registry[m] = s \/ s \in MadeBy(t)
      BY <1>1, <2>1, OpenOf
    <2>4. m \in Before(t) <=> k < work[t].i
      BY <1>0, <2>2, ItemOf
    <2>5. registry[m] = IF k < work[t].i THEN work[t].made[k] ELSE NoService
      BY <1>1, <2>2 DEF Stage, Creating
    <2>6. CASE work[t].batch
      <3>1. m \in Before(t) => s # registry[m]
        BY <1>0, <1>4, <2>1, <2>6 DEF Closing
      <3>2. CASE registry[m] = s
        BY <1>2, <1>4, <3>1, <3>2 DEF Minded
      <3>3. CASE s \in MadeBy(t) /\ registry[m] # s
        <4>1. /\ k \in DOMAIN work[t].made /\ s = work[t].made[k] /\ ~(k < work[t].i)
              /\ DOMAIN work[t].made = 1..Len(work[t].made) /\ work[t].i \in Nat /\ Len(work[t].made) \in Nat
          BY <1>0, <2>2, <2>5, <3>3, MadeOf, RequestOf
        <4>2. k \in work[t].i..Len(work[t].made)
          BY <4>1
        <4> QED BY <1>4, <2>6, <4>1, <4>2 DEF Minded
      <3> QED BY <2>3, <3>2, <3>3
    <2>7. CASE ~work[t].batch
      <3>1. Len(work[t].items) = 1
        BY <1>0, <1>1, <2>7, OpAt
      <3>2. k = 1 /\ ~(k < work[t].i)
        BY <1>0, <1>1, <3>1, RequestOf
      <3>3. s # work[t].made[1]
        BY <1>0, <1>4, <2>1, <2>7 DEF Closing
      <3>4. registry[m] = s
        BY <2>2, <2>3, <3>2, <3>3
      <3> QED BY <1>2, <1>4, <2>4, <3>2, <3>4 DEF Minded
    <2> QED BY <2>6, <2>7
  <1> QED BY <1>0, <1>3, <1>4, EnterEffect

LEMMA PlainMinds ==
    ASSUME NEW t, NEW s, NEW m, Open(t, s, m), CreateParsed(t) \/ CreateServe(t) \/ LoopDone(t)
    PROVE  Minded(t, s, m)
  <1>0. Typed /\ t \in Workers /\ s \in DOMAIN svcs'
    BY DEF Open
  <1>1. Frame(t) /\ Holds(t, work[t].made, work[t].new) /\ registry' = registry /\ DOMAIN svcs' = DOMAIN svcs
    BY <1>0, ParsedTyped, ServeEffect, DoneTyped DEF CreateParsed, LoopDone, Serving
  <1> QED BY <1>0, <1>1, HandsMind

LEMMA LoopMinds ==
    ASSUME NEW t, NEW s, NEW m, Open(t, s, m), CloseOld(t) \/ Unregister(t)
    PROVE  Minded(t, s, m)
  <1>0. Typed /\ t \in Workers /\ s \in DOMAIN svcs' /\ svcs'[s].open
    BY DEF Open
  <1>1. Frame(t) /\ work[t].pc \in {"close", "drop"} /\ DOMAIN svcs' = DOMAIN svcs /\ More(t)
    BY <1>0, CloseEffect, DropEffect DEF Closing
  <1>2. registry[m] = s
    BY <1>0, <1>1, OpenOf, OpAt
  <1>3. CASE CloseOld(t)
    BY <1>0, <1>2, <1>3, CloseEffect DEF Minded
  <1>4. CASE Unregister(t)
    <2>1. /\ Closing(svcs, svcs', {registry[Cur(t).name]}) /\ Holds(t, work[t].made, work[t].new)
          /\ \A q \in Services : q # Cur(t).name => registry'[q] = registry[q]
      BY <1>0, <1>4, DropEffect
    <2>2. m # Cur(t).name
      BY <1>0, <1>2, <2>1 DEF Closing
    <2> QED BY <1>0, <1>1, <1>2, <2>1, <2>2, OpenOf DEF Minded
  <1> QED BY <1>3, <1>4

LEMMA ReparseMinds ==
    ASSUME NEW t, NEW s, NEW m, Open(t, s, m), Reparse(t)
    PROVE  Minded(t, s, m)
  <1>0. Typed /\ t \in Workers /\ s \in DOMAIN svcs'
    BY DEF Open
  <1>1. Frame(t) /\ registry' = registry /\ work[t].pc = "parse"
    BY <1>0, ReparseEffect
  <1>2. s \in DOMAIN svcs => registry[m] = s
    BY <1>0, <1>1, OpenOf, OpAt
  <1>3. CASE Building(svcs, svcs', Cur(t)) /\ Holds(t, work[t].made, Len(svcs) + 1)
    BY <1>0, <1>1, <1>2, <1>3 DEF Building, Holds, Minded, Mine
  <1>4. CASE \A k \in DOMAIN svcs' : k \in DOMAIN svcs \/ k \in leaked'
    BY <1>0, <1>1, <1>2, <1>4 DEF Minded
  <1> QED BY <1>0, <1>3, <1>4, ReparseEffect

LEMMA RegisterMinds ==
    ASSUME NEW t, NEW s, NEW m, Open(t, s, m), Register(t)
    PROVE  Minded(t, s, m)
  <1>0. Typed /\ t \in Workers /\ s \in DOMAIN svcs' /\ svcs'[s].open
    BY DEF Open
  <1>1. /\ Frame(t) /\ work[t].pc = "register" /\ DOMAIN svcs' = DOMAIN svcs
        /\ For(work[t].new, Cur(t))
    BY <1>0, RegisterEffect
  <1>2. m \in Services /\ svcs[s].name = m /\ (registry[m] = s \/ s = work[t].new) /\ s # NoService
    <2>1. s # NoService
      BY <1>0, <1>1, ServicesOf, ServiceAssumption DEF Typed, ServiceTypeOK
    <2>2. work[t].op # "create"
      BY <1>0, <1>1, OpAt
    <2> QED BY <1>0, <1>1, <2>1, <2>2, OpenOf
  <1>3. CASE /\ registry[Cur(t).name] = NoService /\ registry'[Cur(t).name] = work[t].new
             /\ \A n \in Services : n # Cur(t).name => registry'[n] = registry[n]
    BY <1>1, <1>2, <1>3 DEF For, Minded
  <1>4. CASE registry' = registry /\ (work[t].new \in DOMAIN svcs' => ~svcs'[work[t].new].open)
    BY <1>0, <1>2, <1>4 DEF Minded
  <1> QED BY <1>0, <1>3, <1>4, RegisterEffect DEF Failing

LEMMA WriteMinds ==
    ASSUME NEW t, NEW s, NEW m, Open(t, s, m), WriteConfig(t)
    PROVE  Minded(t, s, m)
  <1>0. Typed /\ t \in Workers /\ s \in DOMAIN svcs'
    BY DEF Open
  <1>1. Frame(t) /\ UNCHANGED <<svcs, registry>> /\ work[t].pc = "config"
    BY <1>0, WriteEffect
  <1>2. PICK k \in DOMAIN work[t].items :
           /\ Stage(work[t], k, m)
           /\ s \in MadeBy(t) => s = work[t].made[k]
    BY <1>1, OpenOf
  <1>3. s \in MadeBy(t) /\ work[t].op = "create" => registry[m] = s
    BY <1>1, <1>2 DEF Stage, Creating
  <1>4. registry[m] = s
    BY <1>0, <1>1, <1>3, OpenOf, OpAt
  <1> QED BY <1>1, <1>4 DEF Minded

LEMMA StepMinds ==
    ASSUME NEW t, NEW s, NEW m, Open(t, s, m), Step(t)
    PROVE  Minded(t, s, m)
  BY ParseMinds, PlainMinds, EnterMinds, LoopMinds, ReparseMinds, RegisterMinds, WriteMinds DEF Step

LEMMA HeldBy == \A s : s \in Held <=> \E t \in Workers : s \in Mine(t)
  BY DEF Held, Mine

LEMMA MineKept ==
    ASSUME NEW u \in Workers, work'[u] = work[u]
    PROVE  Mine(u)' = Mine(u)
  BY DEF Mine, MadeBy

LEMMA StartOwned ==
    ASSUME IInv, NEW t \in Workers, Begins(t)
    PROVE  Owned'
  <1>0. Typed /\ Owned
    BY DEF IInv
  <1>1. PICK op \in Ops, batch \in BOOLEAN : \E l : Starts(t, op, batch, l)
    BY DEF Begins
  <1>2. PICK l : Starts(t, op, batch, l)
    BY <1>1
  <1>3. /\ Frame(t) /\ UNCHANGED <<svcs, registry, entries, leaked>> /\ ~Working(t)
        /\ crossed \subseteq crossed'
    BY <1>0, <1>2, StartEffect
  <1>4. \A u \in Workers : u # t => Mine(u)' = Mine(u)
    BY <1>3, MineKept DEF Frame, Others
  <1>5. Mine(t) = {NoService}
    <2>1. work[t].made = <<>> /\ work[t].new = NoService
      BY <1>0, <1>3, OpAt DEF Working, Typed, Doing, Steps
    <2>2. DOMAIN <<>> = {}
      OBVIOUS
    <2> QED BY <2>1, <2>2 DEF Mine, MadeBy
  <1>6. ASSUME NEW s \in DOMAIN svcs PROVE s \in Held => s \in Held'
    <2>1. s # NoService
      BY <1>0, <1>6, ServicesOf, ServiceAssumption DEF Typed, ServiceTypeOK
    <2>2. s \in Held => \E u \in Workers : s \in Mine(u)'
      BY <1>4, <1>5, <2>1, HeldBy
    <2>3. (s \in Held)' <=> \E u \in Workers : s \in Mine(u)'
      BY DEF Held, Mine
    <2> QED BY <2>2, <2>3
  <1> QED BY <1>0, <1>3, <1>6 DEF Owned

LEMMA StepOwned ==
    ASSUME IInv, NEW t \in Workers, Step(t)
    PROVE  Owned'
  <1>0. Typed /\ Owned /\ Stages
    BY DEF IInv
  <1>1. Frame(t)
    BY <1>0, StepTyped
  <1>2. /\ leaked \subseteq leaked' /\ crossed \subseteq crossed'
        /\ \A u \in Workers : u # t => Mine(u)' = Mine(u)
    BY <1>1, MineKept DEF Frame, HistoryFrame, Others
  <1>3. \A s : s \in Held' <=> \E u \in Workers : s \in Mine(u)'
    BY DEF Held, Mine
  <1>4. ASSUME NEW s \in DOMAIN svcs', NEW m, m = svcs'[s].name, svcs'[s].open, m \notin crossed'
        PROVE  s \in leaked' \cup Held' \/ registry'[m] = s
    <2>1. s \in DOMAIN svcs => svcs[s].name = m /\ svcs[s].open
      BY <1>1, <1>4 DEF Frame, SvcsFrame, Within
    <2>2. s \notin DOMAIN svcs => m \in NamesIn(work[t].items)
      BY <1>1, <1>4 DEF Frame, SvcsFrame, Within
    <2>3. CASE m \in NamesIn(work[t].items) /\ (s \in DOMAIN svcs => s \in Mine(t) \/ registry[m] = s)
      <3>1. Staged(work[t])
        BY <1>0 DEF Stages
      <3>2. Open(t, s, m)
        BY <1>0, <1>4, <2>3, <3>1 DEF Open
      <3>3. Minded(t, s, m)
        BY <3>2, StepMinds
      <3> QED BY <1>3, <3>3 DEF Minded
    <2>4. CASE s \in DOMAIN svcs /\ ~(s \in Mine(t) \/ registry[m] = s)
      <3>1. s \in leaked \/ s \in Held
        BY <1>0, <1>2, <1>4, <2>1, <2>4 DEF Owned
      <3>2. s \in Held => \E u \in Workers : u # t /\ s \in Mine(u)
        BY <2>4, HeldBy
      <3> QED BY <1>2, <1>3, <3>1, <3>2
    <2>5. CASE s \in DOMAIN svcs /\ m \notin NamesIn(work[t].items) /\ (s \in Mine(t) \/ registry[m] = s)
      <3>1. s # NoService /\ svcs[s].name \in Services
        BY <1>0, <2>5, ServicesOf, ServiceAssumption DEF Typed, ServiceTypeOK
      <3>2. s \notin MadeBy(t)
        <4> SUFFICES ASSUME s \in MadeBy(t) PROVE FALSE
          OBVIOUS
        <4>1. PICK j \in DOMAIN work[t].made : work[t].made[j] = s
          BY DEF MadeBy
        <4>2. j \in DOMAIN work[t].items /\ svcs[s].name = work[t].items[j].name
          BY <1>0, <4>1, MadeOf DEF For
        <4> QED BY <1>0, <2>1, <2>5, <4>2, ItemOf
      <3>3. s # work[t].new
        <4> SUFFICES ASSUME s = work[t].new PROVE FALSE
          OBVIOUS
        <4>1. Hands(work[t]) /\ work[t].pc = "register" /\ More(t)
          BY <1>0, <3>1, OpAt DEF Typed, Doing
        <4>2. svcs[s].name = Cur(t).name
          BY <3>1, <4>1 DEF Hands, For, Cur
        <4> QED BY <1>0, <2>1, <2>5, <4>1, <4>2, RequestOf
      <3>4. registry'[m] = registry[m]
        BY <1>1, <2>1, <2>5, <3>1 DEF Frame, RegistryFrame
      <3> QED BY <2>5, <3>2, <3>3, <3>4 DEF Mine
    <2> QED BY <2>2, <2>3, <2>4, <2>5
  <1> QED BY <1>4 DEF Owned

-----------------------------------------------------------------------------
(* The invariant.                                                           *)

LEMMA InitInv ==
    ASSUME ServiceInit
    PROVE  IInv
  <1>1. /\ svcs = <<>> /\ leaked = {} /\ crossed = {}
        /\ registry = [n \in Services |-> NoService]
        /\ entries = [n \in Services |-> <<>>]
        /\ work = [t \in Workers |-> Waiting]
    BY DEF ServiceInit
  <1>2. /\ Len(<<>>) = 0 /\ DOMAIN <<>> = {} /\ <<>> \in Seq(Service) /\ <<>> \in Seq(ConfigEntry)
        /\ <<>> \in Seq(Item) /\ <<>> \in Seq(Ids)
    OBVIOUS
  <1>3. Waiting \in Work
    BY <1>2 DEF Waiting, Work
  <1>4. \A t \in Workers : work[t] = Waiting
    BY <1>1
  <1>5. /\ Waiting.op = "none" /\ Waiting.pc = "idle" /\ Waiting.items = <<>> /\ Waiting.i = 1
        /\ Waiting.made = <<>> /\ Waiting.new = NoService
    BY DEF Waiting
  <1>6. ServiceTypeOK
    <2>1. 0 <= MaxBuilt /\ 1 \in 1..(0 + 1)
      BY ServiceAssumption
    <2> QED BY <1>1, <1>2, <1>3, <1>4, <1>5, <2>1 DEF ServiceTypeOK
  <1>7. Doing
    <2>1. Steps(Waiting)
      BY <1>2, <1>5 DEF Steps, Distinct
    <2>2. Hands(Waiting)
      BY <1>2, <1>5 DEF Hands
    <2> QED BY <1>4, <2>1, <2>2 DEF Doing
  <1>8. Named /\ Undisturbed
    BY <1>1 DEF Named, Undisturbed, Agrees
  <1>9. Apart
    BY <1>4, <1>5 DEF Apart, WorkersAt, Working
  <1>10. Stages
    BY <1>2, <1>4, <1>5 DEF Stages, Staged
  <1>11. Owned
    BY <1>1, <1>2 DEF Owned
  <1> QED BY <1>6, <1>7, <1>8, <1>9, <1>10, <1>11 DEF IInv, Typed

LEMMA NextInv ==
    ASSUME IInv, [ServiceNext]_serviceVars
    PROVE  IInv'
  <1>0. Typed
    BY DEF IInv
  <1>1. Typed'
    BY <1>0, TypedStep
  <1>2. CASE UNCHANGED serviceVars
    <2>1. Apart' /\ Undisturbed' /\ Owned'
      BY <1>2 DEF IInv, serviceVars, Apart, WorkersAt, Working, Undisturbed, Agrees, Owned, Held, MadeBy
    <2>2. Stages'
      <3>1. \A u \in Workers : \A k \in DOMAIN work[u].items : work[u].items[k].name \notin crossed =>
               Stage(work[u], k, work[u].items[k].name)
        BY DEF IInv, Stages, Staged
      <3>2. ASSUME NEW u \in Workers, NEW k \in DOMAIN work[u].items, work[u].items[k].name \notin crossed
            PROVE  Stage(work[u], k, work[u].items[k].name)'
        <4>1. PICK n : n = work[u].items[k].name
          OBVIOUS
        <4>2. Aside(n) /\ work'[u] = work[u]
          BY <1>2 DEF serviceVars, Aside, Spared
        <4>3. Stage(work[u], k, n)'
          BY <1>0, <3>1, <3>2, <4>1, <4>2, AsideStage
        <4>4. n = work'[u].items[k].name
          BY <4>1, <4>2
        <4> QED BY <4>3, <4>4
      <3> QED BY <1>2, <3>2 DEF serviceVars, Stages, Staged
    <2> QED BY <1>1, <2>1, <2>2 DEF IInv
  <1>3. CASE ServiceNext
    <2>1. PICK t \in Workers : Begins(t) \/ Step(t)
      BY <1>0, <1>3, Moves
    <2>2. CASE Begins(t)
      BY <1>1, <2>2, StartApart, StartOwned DEF IInv
    <2>3. CASE Step(t)
      BY <1>1, <2>3, StepApart, StepOwned DEF IInv
    <2> QED BY <2>1, <2>2, <2>3
  <1> QED BY <1>2, <1>3

\* In every state of any number of concurrent requests of the web API for
\* services, the invariant above holds.
THEOREM Invariant == ServiceSpec => []IInv
  BY InitInv, NextInv, PTL DEF ServiceSpec

\* The index of a request of the web API for services stays within its list and
\* one beyond, however many goroutines serve requests, and what the registry,
\* the configuration and the requests hold are services that were built
\* (createServices, updateServices, deleteServices and the others of
\* config_service.go).
THEOREM ServiceTypes == ServiceSpec => []ServiceTypeOK
  <1>1. IInv => ServiceTypeOK
    BY DEF IInv, Typed
  <1> QED BY <1>1, Invariant, PTL

\* A service whose own requests did not overlap or fail half-way is registered
\* and listens at the address of its only entry in the configuration, served
\* once, or is in neither of the two, whatever batches and whatever requests for
\* other services run at once: config_service.go locks nothing between
\* registry.ServiceRegistry() and config.OnUpdate.
THEOREM UndisturbedAgree == ServiceSpec => []Undisturbed
  <1>1. IInv => Undisturbed
    BY DEF IInv
  <1> QED BY <1>1, Invariant, PTL

\* An open service is registered, in the hands of a request, or one that a
\* failed ParseService or a failed batch forgot, unless requests for its name
\* overlapped or failed half-way: the steps close, unregister, parse and
\* register of config_service.go lose no other listener.
THEOREM OpenIsOwned == ServiceSpec => []Owned
  <1>1. IInv => Owned
    BY DEF IInv
  <1> QED BY <1>1, Invariant, PTL
=============================================================================
