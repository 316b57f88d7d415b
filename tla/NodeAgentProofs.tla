-------------------------- MODULE NodeAgentProofs --------------------------
(***************************************************************************)
(* The theorems of NodeAgent, for every set of services, addresses and     *)
(* messages: the type invariant, the agreement of registry, listeners and  *)
(* configuration, and that an acknowledged command is applied and, when    *)
(* saveConfig meets no error, on disk.                                     *)
(***************************************************************************)
EXTENDS NodeAgent, SequenceTheorems, TLAPS

\* Replacing the first element of a sequence, as the handlers do with the
\* first config entry of a name.
LEMMA ExceptFirst ==
    ASSUME NEW S, NEW q \in Seq(S), q # <<>>, NEW e \in S
    PROVE  /\ [q EXCEPT ![1] = e] \in Seq(S)
           /\ Len([q EXCEPT ![1] = e]) = Len(q)
           /\ [q EXCEPT ![1] = e] # <<>>
           /\ [q EXCEPT ![1] = e][1] = e
  <1>1. Len(q) \in Nat /\ Len(q) # 0 /\ 1 \in 1..Len(q)
    OBVIOUS
  <1>2. /\ [q EXCEPT ![1] = e] \in Seq(S)
        /\ Len([q EXCEPT ![1] = e]) = Len(q)
        /\ [q EXCEPT ![1] = e][1] = e
    BY <1>1, ExceptSeq
  <1> QED BY <1>1, <1>2

LEMMA FirstElement ==
    ASSUME NEW S, NEW q \in Seq(S), q # <<>>
    PROVE  Len(q) \in Nat /\ Len(q) # 0 /\ q[1] \in S
  <1>1. Len(q) \in Nat /\ Len(q) # 0
    OBVIOUS
  <1> QED BY <1>1

\* The entry a handler appends is the last one, and the first of a name that
\* had none.
LEMMA AppendLast ==
    ASSUME NEW S, NEW q \in Seq(S), NEW e \in S
    PROVE  /\ Append(q, e) # <<>> /\ Len(Append(q, e)) = Len(q) + 1 /\ Len(q) \in Nat
           /\ Append(q, e)[Len(q) + 1] = e
           /\ q = <<>> => Len(q) = 0 /\ Append(q, e)[1] = e
  <1>1. /\ Len(Append(q, e)) = Len(q) + 1 /\ Len(q) \in Nat
        /\ Append(q, e)[Len(q) + 1] = e
        /\ Append(q, e) \in Seq(S)
    OBVIOUS
  <1>2. Append(q, e) # <<>>
    BY <1>1
  <1> QED BY <1>1, <1>2

\* The command being executed is one of the panel's: its items are typed and
\* name every service once.
LEMMA CurrentCommand ==
    ASSUME TypeOK, pc # "idle"
    PROVE  /\ Cur \in Command
           /\ Items \in Seq(Item) /\ Len(Items) \in Nat /\ Len(Items) # 0
           /\ \A k \in 1..Len(Items) : /\ Items[k] \in Item
                                       /\ Items[k].name \in Svc /\ Items[k].addr \in Addr
           /\ \A j, k \in 1..Len(Items) : Items[j].name = Items[k].name => j = k
  <1>1. msg \in Messages /\ step \in 1..Len(msg)
    BY DEF TypeOK, ControlTypes
  <1>2. msg \in Seq(Command) /\ Items # <<>>
        /\ \A j, k \in 1..Len(Items) : Items[j].name = Items[k].name => j = k
    BY <1>1, AgentAssumption DEF Items, Cur
  <1>3. Cur \in Command
    BY <1>1, <1>2 DEF Cur
  <1>4. Items \in Seq(Item)
    BY <1>3 DEF Command, Items
  <1>5. \A k \in 1..Len(Items) : Items[k] \in Item
    BY <1>4
  <1> QED BY <1>2, <1>3, <1>4, <1>5 DEF Item

\* The address the loop has prepared for an item it is done with.
LEMMA WantedAddress ==
    ASSUME TypeOK, pc \in {"each", "parse"}, NEW k \in 1..(i - 1)
    PROVE  /\ k \in 1..Len(Items)
           /\ Items[k] \in Done
           /\ Wanted(Items[k].name) = Items[k].addr
  <1>1. i \in 1..(Len(Items) + 1) /\ pc # "idle"
    BY CurrentCommand DEF TypeOK, ControlTypes
  <1>2. k \in 1..Len(Items) /\ Items[k] \in Done
    BY <1>1, CurrentCommand DEF Done
  <1>3. \A it \in Done : it.name = Items[k].name => it = Items[k]
    BY <1>1, <1>2, CurrentCommand DEF Done
  <1> QED BY <1>2, <1>3 DEF Wanted

\* The addresses ParseService and the entries deal with.
LEMMA ItemTypes ==
    ASSUME NEW it \in Item
    PROVE  /\ it.name \in Svc /\ it.addr \in Addr
           /\ \A p \in BOOLEAN : [addr |-> it.addr, paused |-> p] \in Entry
  BY DEF Item, Entry

\* Appending to, replacing the first of, and marking the entries of a name
\* yields entries.
LEMMA EntryTypes ==
    ASSUME TypeOK, NEW s \in Svc
    PROVE  /\ config[s] \in Seq(Entry) /\ Len(config[s]) \in Nat
           /\ \A e \in Entry : Append(config[s], e) \in Seq(Entry)
           /\ config[s] # <<>> =>
                /\ Len(config[s]) # 0
                /\ config[s][1] \in Entry
                /\ config[s][1].addr \in Addr /\ config[s][1].paused \in BOOLEAN
                /\ \A e \in Entry : /\ SetFirst(s, e) \in Seq(Entry)
                                    /\ Len(SetFirst(s, e)) = Len(config[s])
                                    /\ SetFirst(s, e) # <<>>
                                    /\ SetFirst(s, e)[1] = e
                /\ \A p \in BOOLEAN : /\ Flagged(s, p) \in Seq(Entry)
                                      /\ Len(Flagged(s, p)) = Len(config[s])
                                      /\ Flagged(s, p) # <<>>
                                      /\ Flagged(s, p)[1] = [addr |-> config[s][1].addr, paused |-> p]
  <1>1. config[s] \in Seq(Entry)
    BY DEF TypeOK, DataTypes
  <1>2. Len(config[s]) \in Nat /\ \A e \in Entry : Append(config[s], e) \in Seq(Entry)
    BY <1>1
  <1>3. ASSUME config[s] # <<>>
        PROVE  /\ Len(config[s]) # 0 /\ config[s][1] \in Entry
               /\ config[s][1].addr \in Addr /\ config[s][1].paused \in BOOLEAN
    <2>1. Len(config[s]) # 0 /\ config[s][1] \in Entry
      BY <1>1, <1>3, FirstElement
    <2> QED BY <2>1 DEF Entry
  <1>4. ASSUME config[s] # <<>>, NEW e \in Entry
        PROVE  /\ SetFirst(s, e) \in Seq(Entry)
               /\ Len(SetFirst(s, e)) = Len(config[s])
               /\ SetFirst(s, e) # <<>>
               /\ SetFirst(s, e)[1] = e
    BY <1>1, <1>4, ExceptFirst DEF SetFirst
  <1>5. ASSUME config[s] # <<>>, NEW p \in BOOLEAN
        PROVE  [addr |-> config[s][1].addr, paused |-> p] \in Entry
    BY <1>3, <1>5 DEF Entry
  <1>6. ASSUME config[s] # <<>>, NEW p \in BOOLEAN
        PROVE  /\ Flagged(s, p) \in Seq(Entry)
               /\ Len(Flagged(s, p)) = Len(config[s])
               /\ Flagged(s, p) # <<>>
               /\ Flagged(s, p)[1] = [addr |-> config[s][1].addr, paused |-> p]
    BY <1>4, <1>5, <1>6 DEF Flagged
  <1> QED BY <1>1, <1>2, <1>3, <1>4, <1>6

\* When the loop of a command is over, every service it names has its address.
LEMMA WantedAll ==
    ASSUME TypeOK, pc = "each", i > Len(Items)
    PROVE  /\ ItemNames = DoneNames /\ ItemNames \subseteq Svc
           /\ \A s \in ItemNames : Wanted(s) \in Addr
           /\ \A s \in ItemNames : \E k \in 1..(i - 1) : s = Items[k].name /\ Wanted(s) = Items[k].addr
  <1>1. pc # "idle" /\ i \in 1..(Len(Items) + 1) /\ i \in Nat
    BY CurrentCommand DEF TypeOK, ControlTypes
  <1>2. i - 1 = Len(Items)
    BY <1>1, CurrentCommand
  <1>3. ItemNames = DoneNames
    BY <1>2 DEF ItemNames, DoneNames, Done
  <1>4. \A k \in 1..(i - 1) : Wanted(Items[k].name) = Items[k].addr
    BY WantedAddress
  <1> QED BY <1>1, <1>2, <1>3, <1>4, CurrentCommand DEF ItemNames

LEMMA HeldAddresses == TypeOK /\ pc = "each" => Pending \subseteq Addr
  BY CurrentCommand, WantedAddress DEF Pending, Done

\* Where a step of a handler may take the command goroutine.
LEMMA ControlSteps ==
    ASSUME TypeOK, pc # "idle", UNCHANGED agent,
           \/ Fail
           \/ Finished
           \/ Advance /\ i <= Len(Items)
           \/ pc' = "parse" /\ i <= Len(Items) /\ UNCHANGED <<msg, step, i>>
    PROVE  ControlTypes' /\ Cur' = Cur /\ Items' = Items
  <1>1. Cur' = Cur /\ Items' = Items
    BY DEF Fail, Finished, Advance, Cur, Items
  <1>2. agent = "up" /\ msg \in Messages /\ step \in 1..Len(msg) /\ i \in Nat \ {0} /\ Len(Items) \in Nat
    BY CurrentCommand DEF TypeOK, ControlTypes, DataTypes
  <1> QED
    BY <1>1, <1>2 DEF Fail, Finished, Advance, ControlTypes

\* The item a loop is at.
LEMMA EachItem ==
    ASSUME TypeOK, NEW ops, NEW it, Each(ops, it)
    PROVE  /\ pc # "idle" /\ i \in 1..Len(Items) /\ i <= Len(Items)
           /\ it = Items[i] /\ it \in Item /\ it.name \in Svc /\ it.addr \in Addr
  <1>1. pc # "idle" /\ i \in Nat \ {0} /\ i <= Len(Items) /\ it = Items[i]
    BY DEF Each, TypeOK, ControlTypes
  <1> QED BY <1>1, CurrentCommand

LEMMA ParseItem ==
    ASSUME TypeOK, pc = "parse"
    PROVE  /\ i \in 1..Len(Items) /\ i <= Len(Items)
           /\ Items[i] \in Item /\ Items[i].name \in Svc /\ Items[i].addr \in Addr
  <1>1. pc # "idle" /\ i \in Nat \ {0} /\ i <= Len(Items)
    BY DEF TypeOK, ControlTypes
  <1> QED BY <1>1, CurrentCommand

\* The type invariant is preserved by every step, one action at a time.  What
\* a handler knows of the items it is done with is needed: PauseCommit and
\* ResumeParse read the first config entry of a name without a test.
LEMMA TypeStep == TypeOK /\ HandlerInv /\ [Next]_vars => TypeOK'
  <1> SUFFICES ASSUME TypeOK, HandlerInv, [Next]_vars PROVE DataTypes' /\ ControlTypes'
    BY DEF TypeOK
  <1>0. DataTypes /\ ControlTypes
    BY DEF TypeOK
  <1>1. CASE UNCHANGED vars
    BY <1>0, <1>1 DEF DataTypes, ControlTypes, vars, Items, Cur
  <1>2. ASSUME NEW m \in Messages, Receive(m) PROVE DataTypes' /\ ControlTypes'
    <2>1. m # <<>> /\ Len(m) \in Nat /\ Len(m) # 0
      BY AgentAssumption
    <2> QED BY <1>0, <1>2, <2>1 DEF DataTypes, ControlTypes, Receive, memory, disk
  <1>3. CASE Begin
    <2>1. Cur' = Cur /\ Items' = Items /\ Len(Items) \in Nat
      BY <1>3, CurrentCommand DEF Begin, Fail, Cur, Items
    <2>2. pc' \in {"each", "save"} /\ agent = "up"
      BY <1>0, <1>3 DEF Begin, Fail, ControlTypes, DataTypes
    <2>3. ControlTypes'
      BY <1>0, <1>3, <2>1, <2>2 DEF ControlTypes, Begin, Fail
    <2> QED BY <1>0, <1>3, <2>3 DEF DataTypes, Begin, Fail, memory, disk
  <1>4. CASE AddParse
    <2>1. PICK it \in Item : AddParse!(it)
      BY <1>4 DEF AddParse
    <2>2. it.addr \in Addr /\ pc # "idle" /\ i <= Len(Items) /\ pc = "each"
      BY <2>1, EachItem DEF Each
    <2>3. ControlTypes'
      BY <2>1, <2>2, ControlSteps
    <2>4. leaked' \subseteq Addr
      BY <1>0, <2>1, <2>2, HeldAddresses DEF ParseFails, DataTypes
    <2> QED BY <1>0, <2>1, <2>3, <2>4 DEF DataTypes, Advance, Fail, disk
  <1>5. CASE AddCommit
    <2>1. /\ pc = "each" /\ pc # "idle" /\ i > Len(Items)
          /\ ItemNames \subseteq Svc /\ \A s \in ItemNames : Wanted(s) \in Addr
      BY <1>5, WantedAll DEF AddCommit, LoopDone
    <2>2. \A s \in Svc : config[s] \in Seq(Entry) /\ \A e \in Entry : Append(config[s], e) \in Seq(Entry)
      BY EntryTypes
    <2>3. \A s \in ItemNames : [addr |-> Wanted(s), paused |-> FALSE] \in Entry
      BY <2>1 DEF Entry
    <2>4. config' \in [Svc -> Seq(Entry)]
      BY <1>5, <2>2, <2>3 DEF AddCommit
    <2>5. listen' \in [Svc -> Addr \cup {NoAddr}] /\ registered' \subseteq Svc
      BY <1>0, <1>5, <2>1 DEF AddCommit, DataTypes
    <2>6. ControlTypes'
      BY <1>5, <2>1, ControlSteps DEF AddCommit
    <2> QED BY <1>0, <1>5, <2>4, <2>5, <2>6 DEF DataTypes, AddCommit, Finished, disk
  <1>6. CASE UpsertCreate
    <2>1. PICK it \in Item : UpsertCreate!(it)
      BY <1>6 DEF UpsertCreate
    <2>2. it.addr \in Addr /\ it.name \in Svc /\ pc # "idle" /\ i <= Len(Items)
      BY <2>1, EachItem
    <2>3. ControlTypes'
      BY <2>1, <2>2, ControlSteps
    <2>4. Append(config[it.name], [addr |-> it.addr, paused |-> FALSE]) \in Seq(Entry)
      BY <2>2, EntryTypes, ItemTypes
    <2>5. config' \in [Svc -> Seq(Entry)] /\ leaked' \subseteq Addr
      <3>1. config \in [Svc -> Seq(Entry)] /\ leaked \subseteq Addr
        BY <1>0 DEF DataTypes
      <3>2. leaked' \subseteq Addr
        BY <2>1, <2>2, <3>1 DEF ParseFails
      <3>3. config' = config
            \/ config' = [config EXCEPT ![it.name] = Append(@, [addr |-> it.addr, paused |-> FALSE])]
        BY <2>1
      <3> QED BY <2>2, <2>4, <3>1, <3>2, <3>3
    <2>6. registered' \subseteq Svc /\ listen' \in [Svc -> Addr \cup {NoAddr}]
      BY <1>0, <2>1, <2>2 DEF DataTypes
    <2>7. UNCHANGED <<agent, tainted, file, intact, unsaved>>
      BY <2>1 DEF disk
    <2>8. ok' \in BOOLEAN
      BY <1>0, <2>1 DEF DataTypes, Advance, Fail
    <2> QED BY <1>0, <2>3, <2>5, <2>6, <2>7, <2>8 DEF DataTypes
  <1>7. CASE CloseOld
    <2>1. PICK it \in Item : CloseOld!(it)
      BY <1>7 DEF CloseOld
    <2>2. it.name \in Svc /\ pc # "idle" /\ i <= Len(Items)
      BY <2>1, EachItem
    <2>3. ControlTypes'
      BY <2>1, <2>2, ControlSteps
    <2> QED BY <1>0, <2>1, <2>2, <2>3 DEF DataTypes, disk
  <1>8. CASE UpdateParse
    <2> DEFINE s == Items[i].name
               a == Items[i].addr
    <2>1. s \in Svc /\ a \in Addr /\ i <= Len(Items) /\ pc = "parse"
      BY <1>8, ParseItem DEF UpdateParse
    <2>2. ControlTypes'
      BY <1>8, <2>1, ControlSteps DEF UpdateParse
    <2>3. config[s] # <<>> => SetFirst(s, [addr |-> a, paused |-> FALSE]) \in Seq(Entry)
      BY <2>1, EntryTypes DEF Entry
    <2>4. config' \in [Svc -> Seq(Entry)]
      BY <1>0, <1>8, <2>1, <2>3 DEF UpdateParse, DataTypes
    <2>5. DoneNames \subseteq Svc
      BY <2>1, CurrentCommand, WantedAddress DEF DoneNames, Done
    <2>6. tainted' \subseteq Svc /\ leaked' \subseteq Addr /\ registered' \subseteq Svc
      BY <1>0, <1>8, <2>1, <2>5 DEF UpdateParse, ParseFails, DataTypes
    <2>7. listen' \in [Svc -> Addr \cup {NoAddr}]
      BY <1>0, <1>8, <2>1 DEF UpdateParse, DataTypes
    <2> QED BY <1>0, <1>8, <2>2, <2>4, <2>6, <2>7 DEF DataTypes, UpdateParse, Advance, Fail, disk
  <1>9. CASE UpdateCommit
    <2>1. /\ pc = "each" /\ pc # "idle" /\ i > Len(Items)
          /\ ItemNames \subseteq Svc /\ \A s \in ItemNames : Wanted(s) \in Addr
      BY <1>9, WantedAll DEF UpdateCommit, LoopDone
    <2>2. \A s \in ItemNames : config[s] # <<>> =>
              SetFirst(s, [addr |-> Wanted(s), paused |-> FALSE]) \in Seq(Entry)
      BY <2>1, EntryTypes DEF Entry
    <2>3. config' \in [Svc -> Seq(Entry)]
      BY <1>0, <1>9, <2>2 DEF UpdateCommit, DataTypes
    <2>4. ControlTypes'
      BY <1>9, <2>1, ControlSteps DEF UpdateCommit
    <2> QED BY <1>0, <1>9, <2>3, <2>4 DEF DataTypes, UpdateCommit, Finished, disk
  <1>10. CASE UpsertCommit
    <2>1. ControlTypes'
      BY <1>10, ControlSteps DEF UpsertCommit, LoopDone
    <2> QED BY <1>0, <1>10, <2>1 DEF DataTypes, UpsertCommit, Finished, memory, disk
  <1>11. CASE Delete
    <2>1. ControlTypes'
      BY <1>11, ControlSteps DEF Delete
    <2>2. config' \in [Svc -> Seq(Entry)] /\ listen' \in [Svc -> Addr \cup {NoAddr}]
      BY <1>0, <1>11 DEF Delete, DataTypes
    <2> QED BY <1>0, <1>11, <2>1, <2>2 DEF DataTypes, Delete, Finished, disk
  <1>12. CASE PauseClose
    <2>1. PICK it \in Item : PauseClose!(it)
      BY <1>12 DEF PauseClose
    <2>2. it.name \in Svc /\ pc # "idle" /\ i <= Len(Items)
      BY <2>1, EachItem
    <2>3. ControlTypes'
      BY <2>1, <2>2, ControlSteps
    <2> QED BY <1>0, <2>1, <2>2, <2>3 DEF DataTypes, Advance, Fail, disk
  <1>13. CASE PauseCommit
    <2>1. ControlTypes' /\ pc # "idle"
      BY <1>13, ControlSteps DEF PauseCommit, LoopDone
    <2>2. \A s \in ItemNames : config[s] # <<>>
      BY <1>13, WantedAll DEF PauseCommit, LoopDone, HandlerInv, DoneWith, Replaceable
    <2>3. config' \in [Svc -> Seq(Entry)]
      BY <1>0, <1>13, <2>2, EntryTypes DEF PauseCommit, DataTypes
    <2> QED BY <1>0, <1>13, <2>1, <2>3 DEF DataTypes, PauseCommit, Finished, disk
  <1>14. CASE ResumeSkip
    <2>1. PICK it \in Item : ResumeSkip!(it)
      BY <1>14 DEF ResumeSkip
    <2>2. pc # "idle" /\ i <= Len(Items)
      BY <2>1, EachItem
    <2>3. ControlTypes'
      BY <2>1, <2>2, ControlSteps
    <2> QED BY <1>0, <2>1, <2>3 DEF DataTypes, Advance, memory, disk
  <1>15. CASE ResumeParse
    <2> DEFINE s == Items[i].name
               a == config[s][1].addr
    <2>1. s \in Svc /\ i <= Len(Items) /\ pc = "parse"
      BY <1>15, ParseItem DEF ResumeParse
    <2>2. ControlTypes'
      BY <1>15, <2>1, ControlSteps DEF ResumeParse
    <2>3. a \in Addr
      BY <2>1, EntryTypes DEF HandlerInv, Replaceable
    <2>4. listen' \in [Svc -> Addr \cup {NoAddr}] /\ leaked' \subseteq Addr
      BY <1>0, <1>15, <2>1, <2>3 DEF ResumeParse, ParseFails, DataTypes
    <2> QED BY <1>0, <1>15, <2>1, <2>2, <2>4 DEF DataTypes, ResumeParse, Advance, Fail, disk
  <1>16. CASE ResumeCommit
    <2>1. ControlTypes' /\ pc # "idle"
      BY <1>16, ControlSteps DEF ResumeCommit, LoopDone
    <2>2. \A s \in Svc : Marked(s) => Flagged(s, FALSE) \in Seq(Entry)
      BY EntryTypes DEF Marked
    <2>3. config' \in [Svc -> Seq(Entry)]
      BY <1>0, <1>16, <2>2 DEF ResumeCommit, DataTypes
    <2> QED BY <1>0, <1>16, <2>1, <2>3 DEF DataTypes, ResumeCommit, Finished, disk
  <1>17. CASE NextCommand
    <2>1. msg \in Messages /\ step \in 1..Len(msg) /\ Len(msg) \in Nat /\ agent = "up"
      BY <1>0, <1>17, AgentAssumption DEF NextCommand, ControlTypes, DataTypes
    <2> QED BY <1>0, <1>17, <2>1 DEF DataTypes, ControlTypes, NextCommand, memory, disk
  <1>18. CASE SaveTruncate \/ SaveWrite
    <2>1. ControlTypes'
      BY <1>0, <1>18 DEF ControlTypes, SaveTruncate, SaveWrite, memory, Items, Cur
    <2>2. unsaved' \in 0..MaxUnsaved
      BY <1>0, <1>18, AgentAssumption DEF DataTypes, SaveTruncate, SaveWrite, SaveFails
    <2>3. UNCHANGED <<agent, memory, ok>> /\ intact' \in BOOLEAN /\ file' \in {file, config}
      BY <1>0, <1>18 DEF DataTypes, SaveTruncate, SaveWrite
    <2> QED BY <1>0, <2>1, <2>2, <2>3 DEF DataTypes, memory
  <1>19. CASE Reply
    BY <1>0, <1>19 DEF DataTypes, ControlTypes, Reply, memory, disk
  <1>22. CASE BootFails
    BY <1>0, <1>22 DEF DataTypes, ControlTypes, BootFails, vars, Items, Cur
  <1>20. CASE Crash
    BY <1>0, <1>20 DEF DataTypes, ControlTypes, Crash, Closed, Empty, disk
  <1>21. CASE Boot
    <2>1. ASSUME NEW s \in Svc, file[s] # <<>> PROVE file[s][1].addr \in Addr
      <3>1. file[s] \in Seq(Entry)
        BY <1>0 DEF DataTypes
      <3>2. file[s][1] \in Entry
        BY <2>1, <3>1, FirstElement
      <3> QED BY <3>2 DEF Entry
    <2>2. listen' \in [Svc -> Addr \cup {NoAddr}]
      BY <1>21, <2>1 DEF Boot
    <2> QED BY <1>0, <1>21, <2>2, AgentAssumption DEF DataTypes, ControlTypes, Boot, control
  <1> QED
    BY <1>1, <1>2, <1>3, <1>4, <1>5, <1>6, <1>7, <1>8, <1>9, <1>10, <1>11, <1>12, <1>13,
       <1>14, <1>15, <1>16, <1>17, <1>18, <1>19, <1>20, <1>21, <1>22
    DEF Next, Handler

-----------------------------------------------------------------------------
(***************************************************************************)
(* The inductive invariant.  Services is about the services, HandlerInv    *)
(* about the running handler, AckApplied about the disk and the reply.     *)
(***************************************************************************)
Services == Agreement /\ RegisteredConfigured /\ ListenersOwned /\ UnmarkedListens

IInv == TypeOK /\ Services /\ HandlerInv /\ AckApplied

\* What is known of one service that no handler is at.
Settled(s) ==
    /\ s \in tainted \/ Agrees(s)
    /\ s \in registered => config[s] # <<>>
    /\ listen[s] # NoAddr => s \in registered
    /\ s \in registered /\ ~Marked(s) => listen[s] # NoAddr

LEMMA SettledService ==
    ASSUME IInv, agent = "up", NEW s \in Svc, s \notin InFlight
    PROVE  Settled(s)
  BY DEF IInv, Services, Agreement, RegisteredConfigured, ListenersOwned, UnmarkedListens, Settled

\* Services that are settled, or in flight with the weaker facts, are enough.
LEMMA ServicesFromSettled ==
    ASSUME TypeOK',
           \A s \in Svc : s \notin InFlight' => Settled(s)',
           \A s \in Svc : /\ s \in registered' => config'[s] # <<>>
                          /\ listen'[s] # NoAddr => s \in registered'
    PROVE  Services'
  BY DEF Services, Agreement, RegisteredConfigured, ListenersOwned, UnmarkedListens, Settled,
         TypeOK, DataTypes

\* A handler runs only while the process is up.
LEMMA Running == TypeOK /\ pc # "idle" => agent = "up"
  BY DEF TypeOK, DataTypes, ControlTypes

\* The names in flight, by index.
LEMMA Flight ==
    ASSUME TypeOK, pc \in {"each", "parse"}
    PROVE  /\ i \in Nat /\ i >= 1 /\ i <= Len(Items) + 1 /\ Len(Items) \in Nat
           /\ pc = "parse" => i <= Len(Items)
           /\ DoneNames = {Items[k].name : k \in 1..(i - 1)}
           /\ \A k \in 1..(i - 1) : k \in 1..Len(Items) /\ Items[k].name \in DoneNames
           /\ \A k \in i..Len(Items) : k \in 1..Len(Items) /\ Items[k].name \notin DoneNames
           /\ \A s \in DoneNames : s \in Svc /\ \E k \in 1..(i - 1) : s = Items[k].name
           /\ pc = "each" => InFlight = DoneNames
           /\ pc = "parse" => InFlight = DoneNames \cup {Items[i].name}
  <1>1. pc # "idle" /\ i \in Nat /\ i >= 1 /\ i <= Len(Items) + 1 /\ Len(Items) \in Nat
        /\ (pc = "parse" => i <= Len(Items))
    BY CurrentCommand DEF TypeOK, ControlTypes
  <1>2. DoneNames = {Items[k].name : k \in 1..(i - 1)}
    BY DEF DoneNames, Done
  <1>3. \A k \in 1..(i - 1) : k \in 1..Len(Items)
    BY <1>1
  <1>4. \A k \in i..Len(Items) : k \in 1..Len(Items) /\ Items[k].name \notin DoneNames
    BY <1>1, <1>2, CurrentCommand
  <1>5. \A s \in DoneNames : s \in Svc /\ \E k \in 1..(i - 1) : s = Items[k].name
    BY <1>1, <1>2, <1>3, CurrentCommand
  <1>6. (pc = "each" => InFlight = DoneNames) /\ (pc = "parse" => InFlight = DoneNames \cup {Items[i].name})
    BY DEF InFlight
  <1> QED BY <1>1, <1>2, <1>3, <1>4, <1>5, <1>6

\* The names in flight after a step of the loop.
LEMMA NextFlight ==
    ASSUME TypeOK, pc \in {"each", "parse"}
    PROVE  /\ Fail \/ Finished => InFlight' = {} /\ pc' \in {"save", "next"} /\ Cur' = Cur /\ Items' = Items
           /\ Advance /\ i <= Len(Items) =>
                 /\ InFlight' = DoneNames \cup {Items[i].name}
                 /\ i' = i + 1 /\ i' - 1 = i /\ pc' = "each" /\ Cur' = Cur /\ Items' = Items
           /\ pc' = "parse" /\ UNCHANGED <<msg, step, i>> =>
                 InFlight' = DoneNames \cup {Items[i].name} /\ Cur' = Cur /\ Items' = Items
  <1>1. CASE Fail \/ Finished
    BY <1>1 DEF Fail, Finished, InFlight, Advance, Cur, Items
  <1>2. CASE Advance /\ i <= Len(Items)
    <2>1. Cur' = Cur /\ Items' = Items /\ i' = i + 1 /\ i' - 1 = i /\ pc' = "each" /\ i \in Nat /\ i >= 1
      BY <1>2, Flight DEF Advance, Cur, Items
    <2>2. DoneNames' = {Items[k].name : k \in 1..i}
      BY <2>1 DEF DoneNames, Done
    <2>3. DoneNames' = DoneNames \cup {Items[i].name}
      BY <2>1, <2>2, Flight
    <2> QED BY <1>2, <2>1, <2>3 DEF InFlight, Fail, Finished
  <1>3. CASE pc' = "parse" /\ UNCHANGED <<msg, step, i>>
    <2>1. Cur' = Cur /\ Items' = Items
      BY <1>3 DEF Cur, Items
    <2>2. DoneNames' = DoneNames
      BY <1>3, <2>1 DEF DoneNames, Done
    <2> QED BY <1>3, <2>1, <2>2 DEF InFlight, Fail, Finished, Advance
  <1> QED BY <1>1, <1>2, <1>3

\* A failure leaves the handler with nothing to promise.
LEMMA FailHandler == Fail => HandlerInv' /\ AckApplied'
  BY DEF Fail, HandlerInv, AckApplied

LEMMA AdvanceAck == Advance \/ Finished \/ pc' = "parse" => AckApplied'
  BY DEF Advance, Finished, AckApplied

-----------------------------------------------------------------------------
(***************************************************************************)
(* One lemma per action that changes services or ends a loop.              *)
(***************************************************************************)
Rest == Services' /\ HandlerInv' /\ AckApplied'

\* The facts every loop step starts from.
LEMMA LoopItem ==
    ASSUME IInv, NEW ops, NEW it, Each(ops, it)
    PROVE  /\ pc = "each" /\ agent = "up" /\ Cur.op \in ops /\ ok
           /\ i \in 1..Len(Items) /\ i <= Len(Items) /\ it = Items[i]
           /\ it \in Item /\ it.name \in Svc /\ it.addr \in Addr /\ it.addr # NoAddr
           /\ it.name \notin InFlight /\ it.name \notin DoneNames /\ InFlight = DoneNames
           /\ Settled(it.name)
           /\ \A k \in 1..(i - 1) : DoneWith(Cur.op, Items[k].name, Items[k].addr)
           /\ Cur.op \in {"Update", "Delete", "Pause", "Resume"} =>
                 \A k \in i..Len(Items) : Items[k].name \in registered
  <1>1. /\ pc = "each" /\ pc # "idle" /\ Cur.op \in ops /\ i \in 1..Len(Items) /\ i <= Len(Items)
        /\ it = Items[i] /\ it \in Item /\ it.name \in Svc /\ it.addr \in Addr
    BY EachItem DEF Each, IInv
  <1>2. agent = "up" /\ ok /\ it.addr # NoAddr
    BY <1>1, Running, AgentAssumption DEF IInv, HandlerInv
  <1>3. it.name \notin DoneNames /\ InFlight = DoneNames
    BY <1>1, Flight DEF IInv
  <1>4. Settled(it.name)
    BY <1>1, <1>2, <1>3, SettledService
  <1>5. \A k \in i..Len(Items) : k \in 1..Len(Items) /\ (k > i \/ k = i)
    BY <1>1, Flight DEF IInv
  <1> QED BY <1>1, <1>2, <1>3, <1>4, <1>5 DEF IInv, HandlerInv

\* The services a handler is done with are described by DoneWith.
LEMMA DoneServices ==
    ASSUME IInv, pc \in {"each", "parse"}, NEW s \in DoneNames
    PROVE  /\ s \in Svc
           /\ \E k \in 1..(i - 1) : s = Items[k].name /\ Items[k].addr \in Addr /\ DoneWith(Cur.op, s, Items[k].addr)
  <1>1. PICK k \in 1..(i - 1) : s = Items[k].name /\ k \in 1..Len(Items) /\ s \in Svc
    BY Flight DEF IInv
  <1>2. Items[k].addr \in Addr
    BY <1>1, CurrentCommand DEF IInv
  <1> QED BY <1>1, <1>2 DEF IInv, HandlerInv

\* After one more item, every item up to it is done.
LEMMA AdvanceHandler ==
    ASSUME TypeOK, HandlerInv, pc \in {"each", "parse"}, Advance, i <= Len(Items),
           \A k \in 1..(i - 1) : DoneWith(Cur.op, Items[k].name, Items[k].addr)',
           NEW it, it = Items[i], DoneWith(Cur.op, it.name, it.addr)',
           Cur.op \in {"Update", "Delete", "Pause", "Resume"} =>
              \A k \in (i + 1)..Len(Items) : Items[k].name \in registered'
    PROVE  HandlerInv'
  <1>1. /\ i' = i + 1 /\ i' - 1 = i /\ pc' = "each" /\ Cur' = Cur /\ Items' = Items
        /\ i \in Nat /\ i >= 1 /\ Len(Items) \in Nat /\ ok'
    BY NextFlight, Flight DEF Advance, HandlerInv
  <1>2. ASSUME NEW k \in 1..(i' - 1) PROVE DoneWith(Cur.op, Items[k].name, Items[k].addr)'
    <2>1. k \in 1..(i - 1) \/ k = i
      BY <1>1
    <2>2. CASE k = i
      <3>1. Items'[k] = it
        BY <1>1, <2>2
      <3> QED BY <3>1 DEF DoneWith
    <2> QED BY <2>1, <2>2
  <1>3. Cur'.op \in {"Update", "Delete", "Pause", "Resume"} =>
           \A k \in 1..Len(Items') : (k > i' \/ k = i') => Items'[k].name \in registered'
    BY <1>1
  <1> QED BY <1>1, <1>2, <1>3 DEF HandlerInv

LEMMA AddParseStep == IInv /\ TypeOK' /\ AddParse => Rest
  <1> SUFFICES ASSUME IInv, TypeOK', AddParse PROVE Rest
    OBVIOUS
  <1>1. PICK it \in Item : AddParse!(it)
    BY DEF AddParse
  <1>2. /\ pc = "each" /\ agent = "up" /\ Cur.op = "Add" /\ ok /\ i <= Len(Items) /\ it = Items[i]
        /\ Settled(it.name) /\ InFlight = DoneNames
        /\ \A k \in 1..(i - 1) : DoneWith("Add", Items[k].name, Items[k].addr)
    BY <1>1, LoopItem
  <1>3. UNCHANGED <<registered, listen, config, tainted>> /\ TypeOK
    BY <1>1 DEF IInv
  <1>4. \A s \in DoneNames : Settled(s)
    BY <1>2, <1>3, DoneServices DEF DoneWith, Settled, IInv, Services, RegisteredConfigured, ListenersOwned
  <1>5. \A s \in Svc : Settled(s)
    BY <1>2, <1>4, SettledService
  <1>6. \A s \in Svc : Settled(s)'
    BY <1>3, <1>5 DEF Settled, Agrees, Marked
  <1>7. Services'
    BY <1>6, ServicesFromSettled DEF Settled
  <1>8. CASE Fail
    BY <1>7, <1>8, FailHandler DEF Rest
  <1>9. CASE Advance /\ it.name \notin registered
    <2>1. i' - 1 = i /\ pc' = "each" /\ Cur' = Cur /\ Items' = Items /\ ok' /\ i \in Nat /\ i >= 1
      BY <1>2, <1>3, <1>9, NextFlight, Flight DEF Advance
    <2>2. \A k \in 1..i : DoneWith("Add", Items[k].name, Items[k].addr)
      BY <1>2, <1>9, <2>1 DEF DoneWith, Settled
    <2>3. \A k \in 1..i : DoneWith("Add", Items[k].name, Items[k].addr)'
      BY <1>3, <2>1, <2>2 DEF DoneWith, Agrees
    <2>4. HandlerInv'
      BY <1>2, <2>1, <2>3 DEF HandlerInv
    <2> QED BY <1>7, <1>9, <2>4, AdvanceAck DEF Rest
  <1> QED BY <1>1, <1>8, <1>9

LEMMA UpsertCreateStep == IInv /\ TypeOK' /\ UpsertCreate => Rest
  <1> SUFFICES ASSUME IInv, TypeOK', UpsertCreate PROVE Rest
    OBVIOUS
  <1>1. PICK it \in Item : UpsertCreate!(it)
    BY DEF UpsertCreate
  <1> DEFINE s == it.name
             e == [addr |-> it.addr, paused |-> FALSE]
  <1>2. /\ pc = "each" /\ agent = "up" /\ Cur.op = "Upsert" /\ ok /\ i <= Len(Items) /\ it = Items[i]
        /\ s \in Svc /\ it.addr # NoAddr /\ s \notin DoneNames
        /\ Settled(s) /\ InFlight = DoneNames /\ it \in Item
        /\ \A k \in 1..(i - 1) : DoneWith("Upsert", Items[k].name, Items[k].addr)
    BY <1>1, LoopItem
  <1>3. TypeOK /\ UNCHANGED tainted /\ s \notin registered
    BY <1>1 DEF IInv
  <1>4. \A t \in DoneNames : Settled(t)
    BY <1>2, <1>3, AgentAssumption, DoneServices
    DEF DoneWith, Settled, IInv, Services, RegisteredConfigured, ListenersOwned
  <1>5. \A t \in Svc : Settled(t)
    BY <1>2, <1>4, SettledService
  <1>8. CASE Fail /\ UNCHANGED <<registered, listen, config>>
    <2>1. \A t \in Svc : Settled(t)'
      BY <1>3, <1>5, <1>8 DEF Settled, Agrees, Marked
    <2> QED BY <2>1, <1>8, FailHandler, ServicesFromSettled DEF Rest, Settled
  <1>9. CASE /\ Advance /\ registered' = registered \cup {s} /\ listen' = [listen EXCEPT ![s] = it.addr]
             /\ config' = [config EXCEPT ![s] = Append(@, e)]
    <2>1. /\ i' - 1 = i /\ pc' = "each" /\ Cur' = Cur /\ Items' = Items /\ ok' /\ i \in Nat /\ i >= 1
          /\ InFlight' = DoneNames \cup {s}
      BY <1>2, <1>3, <1>9, NextFlight, Flight DEF Advance
    <2>2. /\ config'[s] = Append(config[s], e) /\ listen'[s] = it.addr /\ s \in registered'
          /\ \A t \in Svc \ {s} : /\ config'[t] = config[t] /\ listen'[t] = listen[t]
                                  /\ t \in registered' <=> t \in registered
      BY <1>2, <1>3, <1>9 DEF TypeOK, DataTypes
    <2>3. config[s] \in Seq(Entry) /\ e \in Entry
      BY <1>2, EntryTypes, ItemTypes, <1>3
    <2>4. /\ config'[s] # <<>> /\ Len(config'[s]) = Len(config[s]) + 1 /\ Len(config[s]) \in Nat
          /\ config'[s][Len(config[s]) + 1] = e
          /\ config[s] = <<>> => Len(config[s]) = 0 /\ config'[s][1] = e
      BY <2>2, <2>3, AppendLast
    <2>5. s \notin tainted => config[s] = <<>>
      BY <1>2, <1>3 DEF Settled, Agrees
    <2>6. s \in tainted \/ Agrees(s)'
      BY <2>2, <2>4, <2>5 DEF Agrees
    <2>7. HasEntry(s, it.addr)'
      BY <2>4 DEF HasEntry
    <2>8. \A t \in Svc \ {s} : Settled(t)'
      BY <1>3, <1>5, <2>2 DEF Settled, Agrees, Marked
    <2>9. Services'
      BY <2>1, <2>2, <2>4, <2>8, ServicesFromSettled DEF Settled
    <2>10. ASSUME NEW k \in 1..(i - 1) PROVE DoneWith(Cur.op, Items[k].name, Items[k].addr)'
      <3>1. Items[k].name \in Svc \ {s} /\ DoneWith("Upsert", Items[k].name, Items[k].addr)
        BY <1>2, <1>3, Flight
      <3> DEFINE t == Items[k].name
      <3>2. Cur.op = "Upsert" /\ Cur' = Cur /\ Items' = Items
        BY <1>2, <2>1, <1>3
      <3>3. /\ config'[t] = config[t] /\ listen'[t] = listen[t]
            /\ t \in registered' <=> t \in registered
            /\ t \in tainted' <=> t \in tainted
        BY <3>1, <2>2, <1>3
      <3>4. /\ t \in registered /\ listen[t] = Items[k].addr /\ HasEntry(t, Items[k].addr)
            /\ t \in tainted \/ Agrees(t)
        BY <3>1 DEF DoneWith
      <3>5. /\ t \in registered' /\ listen'[t] = Items[k].addr /\ HasEntry(t, Items[k].addr)'
            /\ t \in tainted' \/ Agrees(t)'
        BY <3>2, <3>3, <3>4 DEF Agrees, HasEntry
      <3> QED BY <3>2, <3>5 DEF DoneWith
    <2>11. DoneWith(Cur.op, s, it.addr)'
      BY <1>2, <1>3, <2>1, <2>2, <2>6, <2>7 DEF DoneWith
    <2>12. HandlerInv'
      BY <1>2, <1>9, <2>10, <2>11, AdvanceHandler DEF IInv
    <2> QED BY <1>9, <2>9, <2>12, AdvanceAck DEF Rest
  <1> QED BY <1>1, <1>8, <1>9

\* While the loop closes, opens or skips one service, the others stay as they
\* were: those that are done and those no handler is at.
Apart(s, t) ==
    /\ config'[t] = config[t] /\ listen'[t] = listen[t]
    /\ t \in registered' <=> t \in registered
    /\ t \in tainted' <=> t \in tainted

LEMMA OtherServices ==
    ASSUME IInv, TypeOK', pc \in {"each", "parse"}, i <= Len(Items),
           NEW s, s = Items[i].name, \A t \in Svc \ {s} : Apart(s, t),
           Cur' = Cur, Items' = Items
    PROVE  /\ \A k \in 1..(i - 1) : DoneWith(Cur.op, Items[k].name, Items[k].addr)'
           /\ \A k \in (i + 1)..Len(Items) : k \in 1..Len(Items) /\ Items[k].name \in Svc \ {s}
           /\ \A t \in Svc \ (DoneNames \cup {s}) : Settled(t)'
           /\ \A t \in Svc \ {s} : /\ t \in registered' => config'[t] # <<>>
                                   /\ listen'[t] # NoAddr => t \in registered'
  <1>1. /\ agent = "up" /\ i \in 1..Len(Items) /\ i \in Nat /\ Len(Items) \in Nat /\ TypeOK /\ pc # "idle"
        /\ InFlight \subseteq DoneNames \cup {s}
    BY Flight, Running DEF IInv
  <1>2. ASSUME NEW k \in 1..(i - 1) PROVE DoneWith(Cur.op, Items[k].name, Items[k].addr)'
    <2>1. k \in 1..Len(Items) /\ Items[k].name \in Svc \ {s} /\ DoneWith(Cur.op, Items[k].name, Items[k].addr)
      BY <1>1, Flight, CurrentCommand DEF IInv, HandlerInv
    <2> QED BY <2>1 DEF DoneWith, Apart, Agrees, Replaceable, HasEntry
  <1>3. \A k \in (i + 1)..Len(Items) : k \in 1..Len(Items) /\ Items[k].name \in Svc \ {s}
    BY <1>1, CurrentCommand
  <1>4. ASSUME NEW t \in Svc \ (DoneNames \cup {s}) PROVE Settled(t)'
    <2>1. Settled(t)
      BY <1>1, SettledService
    <2> QED BY <2>1 DEF Settled, Apart, Agrees, Marked
  <1>5. ASSUME NEW t \in Svc \ {s}
        PROVE  /\ t \in registered' => config'[t] # <<>>
               /\ listen'[t] # NoAddr => t \in registered'
    BY DEF Apart, IInv, Services, RegisteredConfigured, ListenersOwned
  <1> QED BY <1>2, <1>3, <1>4, <1>5

LEMMA CloseOldStep == IInv /\ TypeOK' /\ CloseOld => Rest
  <1> SUFFICES ASSUME IInv, TypeOK', CloseOld PROVE Rest
    OBVIOUS
  <1>1. PICK it \in Item : CloseOld!(it)
    BY DEF CloseOld
  <1> DEFINE s == it.name
  <1>2. /\ pc = "each" /\ agent = "up" /\ Cur.op \in {"Update", "Upsert", "Resume"} /\ ok
        /\ i <= Len(Items) /\ it = Items[i] /\ s \in Svc /\ Settled(s) /\ InFlight = DoneNames
        /\ Cur.op \in {"Update", "Delete", "Pause", "Resume"} =>
              \A k \in i..Len(Items) : Items[k].name \in registered
        /\ Cur.op = "Resume" => Marked(s)
        /\ i \in Nat /\ Len(Items) \in Nat /\ i >= 1 /\ TypeOK
    BY <1>1, LoopItem, Flight DEF IInv, Each
  <1>3. /\ pc' = "parse" /\ Cur' = Cur /\ Items' = Items /\ i' = i /\ InFlight' = DoneNames \cup {s} /\ ok'
        /\ UNCHANGED <<config, tainted>>
        /\ s \notin registered' /\ listen'[s] = NoAddr
        /\ \A t \in Svc \ {s} : Apart(s, t)
    BY <1>1, <1>2, NextFlight DEF TypeOK, DataTypes, Apart
  <1>4. s \in registered
    BY <1>1, <1>2 DEF Each
  <1>5. Replaceable(s)'
    BY <1>2, <1>3, <1>4 DEF Settled, Agrees, Replaceable
  <1>6. Services'
    BY <1>2, <1>3, OtherServices, ServicesFromSettled
  <1>7. Cur.op = "Resume" => Marked(s)'
    BY <1>2, <1>3 DEF Marked
  <1>8. \A k \in 1..(i' - 1) : DoneWith(Cur.op, Items[k].name, Items[k].addr)'
    BY <1>2, <1>3, OtherServices
  <1>9. Cur.op \in {"Update", "Delete", "Pause", "Resume"} =>
           \A k \in (i + 1)..Len(Items) : Items[k].name \in registered'
    BY <1>2, <1>3, OtherServices DEF Apart
  <1>10. Cur'.op \in {"Update", "Delete", "Pause", "Resume"} =>
           \A k \in 1..Len(Items') : (k > i' \/ (k = i' /\ pc' = "each")) => Items'[k].name \in registered'
    BY <1>2, <1>3, <1>9
  <1>11. Items'[i'].name = s
    BY <1>2, <1>3
  <1>12. HandlerInv'
    BY <1>2, <1>3, <1>5, <1>7, <1>8, <1>10, <1>11 DEF HandlerInv, Replaceable, Marked
  <1> QED BY <1>3, <1>6, <1>12, AdvanceAck DEF Rest

LEMMA UpdateParseStep == IInv /\ TypeOK' /\ UpdateParse => Rest
  <1> SUFFICES ASSUME IInv, TypeOK', UpdateParse PROVE Rest
    OBVIOUS
  <1>0. PICK it \in Item : it = Items[i]
    BY ParseItem DEF UpdateParse, IInv
  <1> DEFINE s == it.name
             a == it.addr
             e == [addr |-> a, paused |-> FALSE]
  <1>1. /\ pc = "parse" /\ agent = "up" /\ Cur.op \in {"Update", "Upsert"} /\ TypeOK /\ s = Items[i].name
        /\ i \in 1..Len(Items) /\ i <= Len(Items) /\ s \in Svc /\ a \in Addr /\ a # NoAddr
        /\ InFlight = DoneNames \cup {s} /\ s \notin DoneNames
        /\ s \notin registered /\ listen[s] = NoAddr /\ Replaceable(s)
    BY <1>0, ParseItem, Running, Flight, AgentAssumption DEF UpdateParse, IInv, HandlerInv
  <1>2. config[s] # <<>> /\ config[s] \in Seq(Entry) /\ e \in Entry
    BY <1>1, EntryTypes, ItemTypes DEF Replaceable
  <1>3. CASE Fail
    <2>1. /\ UNCHANGED <<registered, listen, config>> /\ InFlight' = {}
          /\ tainted' = tainted \cup {s} \cup (IF Cur.op = "Update" THEN DoneNames ELSE {})
      BY <1>0, <1>1, <1>3, NextFlight DEF UpdateParse, Fail, Advance
    <2>2. ASSUME NEW t \in DoneNames PROVE Settled(t)'
      <3>1. PICK k \in 1..(i - 1) : Items[k].addr \in Addr /\ DoneWith(Cur.op, t, Items[k].addr)
        BY <1>1, DoneServices
      <3> QED
        BY <1>1, <2>1, <3>1, AgentAssumption, DoneServices
        DEF DoneWith, Settled, Replaceable, Agrees, Marked, HasEntry, IInv, Services, RegisteredConfigured
    <2>3. Settled(s)'
      BY <1>1, <2>1 DEF Settled
    <2>4. ASSUME NEW t \in Svc \ (DoneNames \cup {s}) PROVE Settled(t)'
      <3>1. Settled(t)
        BY <1>1, SettledService
      <3>2. t \in tainted' <=> t \in tainted
        BY <2>1
      <3> QED BY <2>1, <3>1, <3>2 DEF Settled, Agrees, Marked
    <2>5. \A t \in Svc : Settled(t)'
      BY <2>2, <2>3, <2>4
    <2>6. Services'
      BY <2>5, ServicesFromSettled DEF Settled
    <2> QED BY <1>3, <2>6, FailHandler DEF Rest
  <1>4. CASE Advance
    <2>1. /\ registered' = registered \cup {s} /\ listen' = [listen EXCEPT ![s] = a]
          /\ IF Cur.op = "Upsert"
             THEN /\ config' = [config EXCEPT ![s] = SetFirst(s, e)]
                  /\ tainted' = IF Len(config[s]) = 1 THEN tainted \ {s} ELSE tainted
             ELSE UNCHANGED <<config, tainted>>
          /\ InFlight' = DoneNames \cup {s} /\ Cur' = Cur /\ Items' = Items
      BY <1>0, <1>1, <1>2, <1>4, NextFlight DEF UpdateParse, Advance, Fail
    <2>2. s \in registered' /\ listen'[s] = a /\ \A t \in Svc \ {s} : Apart(s, t)
      BY <1>1, <2>1 DEF Apart, TypeOK, DataTypes
    <2>3. config'[s] # <<>> /\ DoneWith(Cur.op, s, a)'
      <3>1. CASE Cur.op = "Update"
        <4>1. config'[s] = config[s] /\ tainted' = tainted
          BY <2>1, <3>1
        <4>2. Replaceable(s)'
          BY <1>1, <4>1 DEF Replaceable
        <4> QED BY <1>2, <2>1, <2>2, <3>1, <4>1, <4>2 DEF DoneWith
      <3>2. CASE Cur.op = "Upsert"
        <4>1. config'[s] = SetFirst(s, e)
          BY <1>1, <2>1, <3>2 DEF TypeOK, DataTypes
        <4>2. /\ config'[s] # <<>> /\ Len(config'[s]) = Len(config[s])
              /\ config'[s][1] = e /\ Len(config[s]) \in Nat /\ Len(config[s]) # 0
          BY <1>1, <1>2, <4>1, EntryTypes
        <4>3. HasEntry(s, a)'
          BY <4>2 DEF HasEntry
        <4>4. s \in tainted' \/ Agrees(s)'
          BY <1>1, <2>1, <2>2, <3>2, <4>2 DEF Agrees, Replaceable
        <4> QED BY <2>1, <2>2, <3>2, <4>2, <4>3, <4>4 DEF DoneWith
      <3> QED BY <1>1, <3>1, <3>2
    <2>4. Services'
      BY <1>1, <2>1, <2>2, <2>3, OtherServices, ServicesFromSettled
    <2>5. Cur.op \in {"Update", "Delete", "Pause", "Resume"} =>
             \A k \in (i + 1)..Len(Items) : Items[k].name \in registered'
      <3>1. ASSUME Cur.op = "Update", NEW k \in (i + 1)..Len(Items) PROVE Items[k].name \in registered
        BY <1>1, <3>1, OtherServices, <2>1, <2>2, Flight DEF IInv, HandlerInv
      <3> QED BY <1>1, <2>1, <3>1
    <2>6. \A k \in 1..(i - 1) : DoneWith(Cur.op, Items[k].name, Items[k].addr)'
      BY <1>1, <2>1, <2>2, OtherServices
    <2>7. HandlerInv'
      BY <1>0, <1>1, <1>4, <2>3, <2>5, <2>6, AdvanceHandler DEF IInv
    <2> QED BY <1>4, <2>4, <2>7, AdvanceAck DEF Rest
  <1> QED BY <1>3, <1>4 DEF UpdateParse

LEMMA PauseCloseStep == IInv /\ TypeOK' /\ PauseClose => Rest
  <1> SUFFICES ASSUME IInv, TypeOK', PauseClose PROVE Rest
    OBVIOUS
  <1>1. PICK it \in Item : PauseClose!(it)
    BY DEF PauseClose
  <1> DEFINE s == it.name
  <1>2. /\ pc = "each" /\ agent = "up" /\ Cur.op = "Pause" /\ i <= Len(Items) /\ it = Items[i]
        /\ s \in Svc /\ Settled(s) /\ i \in 1..Len(Items) /\ TypeOK
        /\ \A k \in i..Len(Items) : Items[k].name \in registered
    BY <1>1, LoopItem DEF IInv
  <1>3. s \in registered /\ config[s] # <<>> /\ Replaceable(s)
    BY <1>2 DEF Settled, Agrees, Replaceable
  <1>4. Advance /\ listen' = [listen EXCEPT ![s] = NoAddr] /\ UNCHANGED <<registered, config, tainted>>
    BY <1>1, <1>3
  <1>5. Cur' = Cur /\ Items' = Items /\ InFlight' = DoneNames \cup {s}
    BY <1>2, <1>4, NextFlight
  <1>6. listen'[s] = NoAddr /\ \A t \in Svc \ {s} : Apart(s, t)
    BY <1>2, <1>4 DEF Apart, TypeOK, DataTypes
  <1>7. Services'
    BY <1>2, <1>3, <1>4, <1>5, <1>6, OtherServices, ServicesFromSettled
  <1>8. DoneWith(Cur.op, s, it.addr)'
    BY <1>2, <1>3, <1>4, <1>5, <1>6 DEF DoneWith, Replaceable
  <1>9. \A k \in 1..(i - 1) : DoneWith(Cur.op, Items[k].name, Items[k].addr)'
    BY <1>2, <1>5, <1>6, OtherServices
  <1>10. \A k \in (i + 1)..Len(Items) : Items[k].name \in registered'
    BY <1>2, <1>4
  <1>11. HandlerInv'
    BY <1>2, <1>4, <1>8, <1>9, <1>10, <1>5, AdvanceHandler DEF IInv
  <1> QED BY <1>4, <1>7, <1>11, AdvanceAck DEF Rest

LEMMA ResumeSkipStep == IInv /\ TypeOK' /\ ResumeSkip => Rest
  <1> SUFFICES ASSUME IInv, TypeOK', ResumeSkip PROVE Rest
    OBVIOUS
  <1>1. PICK it \in Item : ResumeSkip!(it)
    BY DEF ResumeSkip
  <1> DEFINE s == it.name
  <1>2. /\ pc = "each" /\ agent = "up" /\ Cur.op = "Resume" /\ i <= Len(Items) /\ it = Items[i]
        /\ s \in Svc /\ Settled(s) /\ i \in 1..Len(Items) /\ TypeOK
        /\ \A k \in i..Len(Items) : Items[k].name \in registered
    BY <1>1, LoopItem DEF IInv
  <1>3. Advance /\ UNCHANGED <<registered, listen, config, tainted>> /\ ~Marked(s)
    BY <1>1 DEF memory
  <1>4. s \in registered /\ config[s] # <<>> /\ listen[s] # NoAddr
        /\ (s \in tainted \/ (Len(config[s]) = 1 /\ listen[s] = config[s][1].addr))
    BY <1>2, <1>3 DEF Settled, Agrees, Marked
  <1>5. Cur' = Cur /\ Items' = Items /\ InFlight' = DoneNames \cup {s}
    BY <1>2, <1>3, NextFlight
  <1>6. \A t \in Svc \ {s} : Apart(s, t)
    BY <1>3 DEF Apart
  <1>7. Services'
    BY <1>2, <1>3, <1>4, <1>5, <1>6, OtherServices, ServicesFromSettled
  <1>8. DoneWith(Cur.op, s, it.addr)'
    BY <1>2, <1>3, <1>4, <1>5 DEF DoneWith
  <1>9. \A k \in 1..(i - 1) : DoneWith(Cur.op, Items[k].name, Items[k].addr)'
    BY <1>2, <1>5, <1>6, OtherServices
  <1>10. \A k \in (i + 1)..Len(Items) : Items[k].name \in registered'
    BY <1>2, <1>3
  <1>11. HandlerInv'
    BY <1>2, <1>3, <1>8, <1>9, <1>10, <1>5, AdvanceHandler DEF IInv
  <1> QED BY <1>3, <1>7, <1>11, AdvanceAck DEF Rest

LEMMA ResumeParseStep == IInv /\ TypeOK' /\ ResumeParse => Rest
  <1> SUFFICES ASSUME IInv, TypeOK', ResumeParse PROVE Rest
    OBVIOUS
  <1>0. PICK it \in Item : it = Items[i]
    BY ParseItem DEF ResumeParse, IInv
  <1> DEFINE s == it.name
             a == config[s][1].addr
  <1>1. /\ pc = "parse" /\ agent = "up" /\ Cur.op = "Resume" /\ TypeOK /\ s = Items[i].name
        /\ i \in 1..Len(Items) /\ i <= Len(Items) /\ s \in Svc
        /\ InFlight = DoneNames \cup {s} /\ s \notin DoneNames
        /\ s \notin registered /\ listen[s] = NoAddr /\ Replaceable(s)
    BY <1>0, ParseItem, Running, Flight DEF ResumeParse, IInv, HandlerInv
  <1>2. config[s] # <<>> /\ a \in Addr /\ a # NoAddr
    BY <1>1, EntryTypes, AgentAssumption DEF Replaceable
  <1>3. CASE Fail
    <2>1. /\ UNCHANGED <<registered, config>> /\ InFlight' = {} /\ tainted' = tainted \cup {s}
          /\ \A t \in Svc : listen'[t] = IF t \in DoneNames /\ Marked(t) THEN NoAddr ELSE listen[t]
      BY <1>0, <1>1, <1>3, NextFlight DEF ResumeParse, Fail, Advance
    <2>2. ASSUME NEW t \in DoneNames PROVE Settled(t)'
      <3>1. PICK k \in 1..(i - 1) : t \in Svc /\ DoneWith("Resume", t, Items[k].addr)
        BY <1>1, DoneServices
      <3>2. /\ t \in registered /\ listen[t] # NoAddr /\ config[t] # <<>>
            /\ t \in tainted \/ (Len(config[t]) = 1 /\ listen[t] = config[t][1].addr)
        BY <3>1 DEF DoneWith, IInv, Services, RegisteredConfigured
      <3>3. t \in tainted' <=> t \in tainted
        BY <1>1, <2>1
      <3> QED BY <2>1, <3>1, <3>2, <3>3 DEF Settled, Agrees, Marked
    <2>3. Settled(s)'
      BY <1>1, <2>1 DEF Settled
    <2>4. ASSUME NEW t \in Svc \ (DoneNames \cup {s}) PROVE Settled(t)'
      <3>1. Settled(t)
        BY <1>1, SettledService
      <3>2. (t \in tainted' <=> t \in tainted) /\ listen'[t] = listen[t]
        BY <2>1
      <3> QED BY <2>1, <3>1, <3>2 DEF Settled, Agrees, Marked
    <2>5. \A t \in Svc : Settled(t)'
      BY <2>2, <2>3, <2>4
    <2>6. Services'
      BY <2>5, ServicesFromSettled DEF Settled
    <2> QED BY <1>3, <2>6, FailHandler DEF Rest
  <1>4. CASE Advance
    <2>1. /\ registered' = registered \cup {s} /\ listen' = [listen EXCEPT ![s] = a]
          /\ UNCHANGED <<config, tainted>>
          /\ InFlight' = DoneNames \cup {s} /\ Cur' = Cur /\ Items' = Items
      BY <1>0, <1>1, <1>4, NextFlight DEF ResumeParse, Advance, Fail
    <2>2. s \in registered' /\ listen'[s] = a /\ \A t \in Svc \ {s} : Apart(s, t)
      BY <1>1, <2>1 DEF Apart, TypeOK, DataTypes
    <2>3. DoneWith(Cur.op, s, it.addr)'
      BY <1>1, <1>2, <2>1, <2>2 DEF DoneWith, Replaceable
    <2>4. Services'
      BY <1>1, <1>2, <2>1, <2>2, OtherServices, ServicesFromSettled
    <2>5. ASSUME NEW k \in (i + 1)..Len(Items) PROVE Items[k].name \in registered'
      BY <1>1, OtherServices, <2>1, <2>2, Flight DEF IInv, HandlerInv
    <2>6. \A k \in 1..(i - 1) : DoneWith(Cur.op, Items[k].name, Items[k].addr)'
      BY <1>1, <2>1, <2>2, OtherServices
    <2>7. HandlerInv'
      BY <1>0, <1>1, <1>4, <2>3, <2>5, <2>6, AdvanceHandler DEF IInv
    <2> QED BY <1>4, <2>4, <2>7, AdvanceAck DEF Rest
  <1> QED BY <1>3, <1>4 DEF ResumeParse

-----------------------------------------------------------------------------
\* When a loop is over, its services are as DoneWith says, the others settled.
LEMMA LoopOver ==
    ASSUME IInv, NEW op, LoopDone(op)
    PROVE  /\ agent = "up" /\ ok /\ pc = "each" /\ Cur.op = op /\ TypeOK
           /\ ItemNames \subseteq Svc
           /\ \A s \in ItemNames : Wanted(s) \in Addr /\ Wanted(s) # NoAddr /\ DoneWith(op, s, Wanted(s))
           /\ \A k \in 1..Len(Items) : Items[k].name \in ItemNames /\ Wanted(Items[k].name) = Items[k].addr
           /\ \A s \in Svc \ ItemNames : Settled(s)
  <1>1. /\ pc = "each" /\ Cur.op = op /\ i > Len(Items) /\ TypeOK /\ agent = "up" /\ ok /\ i - 1 = Len(Items)
        /\ ItemNames = DoneNames /\ InFlight = DoneNames
    BY Running, Flight, WantedAll DEF LoopDone, IInv, HandlerInv
  <1>2. /\ ItemNames \subseteq Svc
        /\ \A s \in ItemNames : /\ Wanted(s) \in Addr
                                /\ \E k \in 1..(i - 1) : s = Items[k].name /\ Wanted(s) = Items[k].addr
    BY <1>1, WantedAll
  <1>3. \A s \in ItemNames : DoneWith(op, s, Wanted(s))
    BY <1>1, <1>2 DEF IInv, HandlerInv
  <1>4. \A k \in 1..Len(Items) : Items[k].name \in ItemNames /\ Wanted(Items[k].name) = Items[k].addr
    BY <1>1, WantedAddress DEF ItemNames
  <1>5. \A s \in Svc \ ItemNames : Settled(s)
    BY <1>1, SettledService
  <1> QED BY <1>1, <1>2, <1>3, <1>4, <1>5, AgentAssumption

\* ... and when the handler then finishes, all services are to be settled and
\* what was asked for is to be in force.
LEMMA FinishHandler ==
    ASSUME IInv, TypeOK', pc = "each", Finished, ok,
           \A s \in Svc : Settled(s)', Applied(Cur)'
    PROVE  Rest
  <1>1. Services'
    BY ServicesFromSettled DEF Settled
  <1>2. HandlerInv'
    BY DEF Finished, HandlerInv
  <1> QED BY <1>1, <1>2, AdvanceAck DEF Rest

LEMMA AddCommitStep == IInv /\ TypeOK' /\ AddCommit => Rest
  <1> SUFFICES ASSUME IInv, TypeOK', AddCommit PROVE Rest
    OBVIOUS
  <1>1. /\ agent = "up" /\ ok /\ pc = "each" /\ Cur.op = "Add" /\ TypeOK /\ ItemNames \subseteq Svc
        /\ \A s \in ItemNames : /\ Wanted(s) \in Addr /\ Wanted(s) # NoAddr
                                /\ s \notin registered /\ (s \in tainted \/ Agrees(s))
        /\ \A k \in 1..Len(Items) : Items[k].name \in ItemNames /\ Wanted(Items[k].name) = Items[k].addr
        /\ \A s \in Svc \ ItemNames : Settled(s)
    BY LoopOver DEF AddCommit, DoneWith
  <1>2. Finished /\ Cur' = Cur /\ Items' = Items /\ UNCHANGED tainted /\ registered' = registered \cup ItemNames
    BY <1>1, NextFlight DEF AddCommit
  <1>3. ASSUME NEW s \in ItemNames
        PROVE  /\ Settled(s)' /\ s \in registered' /\ listen'[s] = Wanted(s)
               /\ \E n \in 1..Len(config'[s]) : config'[s][n].addr = Wanted(s) /\ ~config'[s][n].paused
    <2> DEFINE e == [addr |-> Wanted(s), paused |-> FALSE]
    <2>1. s \in Svc /\ config[s] \in Seq(Entry) /\ e \in Entry
      BY <1>1, <1>3, EntryTypes DEF Entry
    <2>2. config'[s] = Append(config[s], e) /\ listen'[s] = Wanted(s) /\ s \in registered'
      BY <1>3, <2>1, <1>2 DEF AddCommit
    <2>3. /\ config'[s] # <<>> /\ Len(config'[s]) = Len(config[s]) + 1 /\ Len(config[s]) \in Nat
          /\ config'[s][Len(config[s]) + 1] = e
          /\ config[s] = <<>> => Len(config[s]) = 0 /\ config'[s][1] = e
      BY <2>1, <2>2, AppendLast
    <2>4. s \in tainted \/ Agrees(s)'
      BY <1>1, <1>3, <2>2, <2>3 DEF Agrees
    <2>5. \E n \in 1..Len(config'[s]) : config'[s][n].addr = Wanted(s) /\ ~config'[s][n].paused
      BY <2>3
    <2> QED BY <1>1, <1>2, <1>3, <2>2, <2>3, <2>4, <2>5 DEF Settled
  <1>4. ASSUME NEW s \in Svc \ ItemNames PROVE Settled(s)'
    <2>1. config'[s] = config[s] /\ listen'[s] = listen[s] /\ (s \in registered' <=> s \in registered) /\ Settled(s)
      BY <1>1, <1>4 DEF AddCommit
    <2> QED BY <1>2, <2>1 DEF Settled, Agrees, Marked
  <1>5. Applied(Cur)'
    <2>1. ASSUME NEW k \in 1..Len(Items)
          PROVE  /\ Items[k].name \in registered' /\ listen'[Items[k].name] = Items[k].addr
                 /\ \E n \in 1..Len(config'[Items[k].name]) :
                        config'[Items[k].name][n].addr = Items[k].addr /\ ~config'[Items[k].name][n].paused
      BY <1>1, <1>3
    <2> QED BY <1>1, <1>2, <2>1 DEF Applied, Items
  <1> QED BY <1>1, <1>2, <1>3, <1>4, <1>5, FinishHandler

LEMMA UpdateCommitStep == IInv /\ TypeOK' /\ UpdateCommit => Rest
  <1> SUFFICES ASSUME IInv, TypeOK', UpdateCommit PROVE Rest
    OBVIOUS
  <1>1. /\ agent = "up" /\ ok /\ pc = "each" /\ Cur.op = "Update" /\ TypeOK /\ ItemNames \subseteq Svc
        /\ \A s \in ItemNames : /\ Wanted(s) \in Addr /\ Wanted(s) # NoAddr
                                /\ s \in registered /\ listen[s] = Wanted(s) /\ Replaceable(s)
        /\ \A k \in 1..Len(Items) : Items[k].name \in ItemNames /\ Wanted(Items[k].name) = Items[k].addr
        /\ \A s \in Svc \ ItemNames : Settled(s)
    BY LoopOver DEF UpdateCommit, DoneWith
  <1>2. /\ Finished /\ Cur' = Cur /\ Items' = Items /\ UNCHANGED <<registered, listen>>
        /\ tainted' = tainted \ {s \in ItemNames : Len(config[s]) = 1}
    BY <1>1, NextFlight DEF UpdateCommit
  <1>3. ASSUME NEW s \in ItemNames
        PROVE  /\ Settled(s)' /\ config'[s] # <<>> /\ Len(config'[s]) \in Nat /\ Len(config'[s]) # 0
               /\ config'[s][1].addr = Wanted(s) /\ ~config'[s][1].paused
    <2> DEFINE e == [addr |-> Wanted(s), paused |-> FALSE]
    <2>1. s \in Svc /\ config[s] \in Seq(Entry) /\ e \in Entry /\ config[s] # <<>>
      BY <1>1, <1>3, EntryTypes DEF Entry, Replaceable
    <2>2. config'[s] = SetFirst(s, e)
      BY <1>3, <2>1 DEF UpdateCommit
    <2>3. /\ config'[s] # <<>> /\ Len(config'[s]) = Len(config[s]) /\ Len(config[s]) \in Nat /\ Len(config[s]) # 0
          /\ config'[s][1] = e
      BY <2>1, <2>2, EntryTypes, <1>1
    <2>4. s \in tainted' \/ Agrees(s)'
      BY <1>1, <1>2, <1>3, <2>3 DEF Agrees, Replaceable
    <2> QED BY <1>1, <1>2, <1>3, <2>3, <2>4 DEF Settled
  <1>4. ASSUME NEW s \in Svc \ ItemNames PROVE Settled(s)'
    <2>1. config'[s] = config[s] /\ (s \in tainted' <=> s \in tainted) /\ Settled(s)
      BY <1>1, <1>2, <1>4 DEF UpdateCommit
    <2> QED BY <1>2, <2>1 DEF Settled, Agrees, Marked
  <1>5. Applied(Cur)'
    <2>1. ASSUME NEW k \in 1..Len(Items)
          PROVE  /\ Items[k].name \in registered' /\ listen'[Items[k].name] = Items[k].addr
                 /\ \E n \in 1..Len(config'[Items[k].name]) :
                        config'[Items[k].name][n].addr = Items[k].addr /\ ~config'[Items[k].name][n].paused
      <3>1. 1 \in 1..Len(config'[Items[k].name])
        BY <1>1, <1>3
      <3> QED BY <1>1, <1>2, <1>3, <3>1
    <2> QED BY <1>1, <1>2, <2>1 DEF Applied, Items
  <1> QED BY <1>1, <1>2, <1>3, <1>4, <1>5, FinishHandler

LEMMA UpsertCommitStep == IInv /\ TypeOK' /\ UpsertCommit => Rest
  <1> SUFFICES ASSUME IInv, TypeOK', UpsertCommit PROVE Rest
    OBVIOUS
  <1>1. /\ agent = "up" /\ ok /\ pc = "each" /\ Cur.op = "Upsert" /\ TypeOK /\ ItemNames \subseteq Svc
        /\ \A s \in ItemNames : /\ Wanted(s) # NoAddr /\ s \in registered /\ listen[s] = Wanted(s)
                                /\ HasEntry(s, Wanted(s)) /\ (s \in tainted \/ Agrees(s))
        /\ \A k \in 1..Len(Items) : Items[k].name \in ItemNames /\ Wanted(Items[k].name) = Items[k].addr
        /\ \A s \in Svc \ ItemNames : Settled(s)
    BY LoopOver DEF UpsertCommit, DoneWith
  <1>2. Finished /\ Cur' = Cur /\ Items' = Items /\ UNCHANGED <<registered, listen, config, tainted>>
    BY <1>1, NextFlight DEF UpsertCommit, memory
  <1>3. \A s \in ItemNames : Settled(s)
    BY <1>1 DEF Settled, IInv, Services, RegisteredConfigured
  <1>4. \A s \in Svc : Settled(s)'
    BY <1>1, <1>2, <1>3 DEF Settled, Agrees, Marked
  <1>5. Applied(Cur)'
    <2>1. ASSUME NEW k \in 1..Len(Items)
          PROVE  /\ Items[k].name \in registered /\ listen[Items[k].name] = Items[k].addr
                 /\ \E n \in 1..Len(config[Items[k].name]) :
                        config[Items[k].name][n].addr = Items[k].addr /\ ~config[Items[k].name][n].paused
      BY <1>1 DEF HasEntry
    <2> QED BY <1>1, <1>2, <2>1 DEF Applied, Items
  <1> QED BY <1>1, <1>2, <1>4, <1>5, FinishHandler

LEMMA DeleteStep == IInv /\ TypeOK' /\ Delete => Rest
  <1> SUFFICES ASSUME IInv, TypeOK', Delete PROVE Rest
    OBVIOUS
  <1>1. /\ pc = "each" /\ pc # "idle" /\ Cur.op = "Delete" /\ TypeOK /\ ok /\ agent = "up"
        /\ \A k \in 1..Len(Items) : Items[k].name \in Svc /\ Items[k].name \in ItemNames
    BY Running, CurrentCommand DEF Delete, IInv, HandlerInv, ItemNames
  <1>2. Finished /\ Cur' = Cur /\ Items' = Items /\ registered' = registered \ ItemNames
        /\ tainted' = tainted \ ItemNames
    BY <1>1, NextFlight DEF Delete
  <1>3. \A s \in Svc : s \in ItemNames => config'[s] = <<>> /\ listen'[s] = NoAddr /\ s \notin registered'
    BY <1>2 DEF Delete
  <1>4. DoneNames = {}
    <2>1. \A k \in 1..(i - 1) : DoneWith("Delete", Items[k].name, Items[k].addr)
      BY <1>1 DEF IInv, HandlerInv
    <2>2. 1..(i - 1) = {}
      BY <2>1 DEF DoneWith
    <2> QED BY <1>1, <2>2, Flight
  <1>5. ASSUME NEW s \in Svc PROVE Settled(s)'
    <2>1. CASE s \in ItemNames
      BY <1>3, <2>1 DEF Settled, Agrees
    <2>2. CASE s \notin ItemNames
      <3>1. /\ Settled(s) /\ config'[s] = config[s] /\ listen'[s] = listen[s]
            /\ (s \in registered' <=> s \in registered) /\ (s \in tainted' <=> s \in tainted)
        BY <1>1, <1>2, <1>4, <2>2, SettledService, Flight DEF Delete
      <3> QED BY <3>1 DEF Settled, Agrees, Marked
    <2> QED BY <2>1, <2>2
  <1>6. Applied(Cur)'
    <2>1. ASSUME NEW k \in 1..Len(Items)
          PROVE  LET s == Items[k].name
                 IN s \notin registered' /\ listen'[s] = NoAddr /\ config'[s] = <<>>
      BY <1>1, <1>3
    <2> QED BY <1>1, <1>2, <2>1 DEF Applied, Items
  <1> QED BY <1>1, <1>2, <1>5, <1>6, FinishHandler

LEMMA PauseCommitStep == IInv /\ TypeOK' /\ PauseCommit => Rest
  <1> SUFFICES ASSUME IInv, TypeOK', PauseCommit PROVE Rest
    OBVIOUS
  <1>1. /\ agent = "up" /\ ok /\ pc = "each" /\ Cur.op = "Pause" /\ TypeOK /\ ItemNames \subseteq Svc
        /\ \A s \in ItemNames : s \in registered /\ listen[s] = NoAddr /\ Replaceable(s)
        /\ \A k \in 1..Len(Items) : Items[k].name \in ItemNames
        /\ \A s \in Svc \ ItemNames : Settled(s)
    BY LoopOver DEF PauseCommit, DoneWith
  <1>2. /\ Finished /\ Cur' = Cur /\ Items' = Items /\ UNCHANGED <<registered, listen>>
        /\ tainted' = tainted \ {s \in ItemNames : Len(config[s]) = 1}
    BY <1>1, NextFlight DEF PauseCommit
  <1>3. ASSUME NEW s \in ItemNames
        PROVE  Settled(s)' /\ config'[s] # <<>> /\ config'[s][1].paused
    <2>1. s \in Svc /\ config[s] # <<>> /\ config'[s] = Flagged(s, TRUE)
      BY <1>1, <1>3 DEF PauseCommit, Replaceable
    <2>2. /\ config'[s] # <<>> /\ Len(config'[s]) = Len(config[s])
          /\ config'[s][1] = [addr |-> config[s][1].addr, paused |-> TRUE]
      BY <1>1, <2>1, EntryTypes
    <2>4. config'[s][1].paused
      BY <2>2
    <2>3. s \in tainted' \/ Agrees(s)'
      BY <1>1, <1>2, <1>3, <2>2, <2>4 DEF Agrees, Replaceable
    <2> QED BY <1>1, <1>2, <1>3, <2>2, <2>3, <2>4 DEF Settled, Marked
  <1>4. ASSUME NEW s \in Svc \ ItemNames PROVE Settled(s)'
    <2>1. config'[s] = config[s] /\ (s \in tainted' <=> s \in tainted) /\ Settled(s)
      BY <1>1, <1>2, <1>4 DEF PauseCommit
    <2> QED BY <1>2, <2>1 DEF Settled, Agrees, Marked
  <1>5. Applied(Cur)'
    <2>1. ASSUME NEW k \in 1..Len(Items)
          PROVE  LET s == Items[k].name
                 IN listen'[s] = NoAddr /\ config'[s] # <<>> /\ config'[s][1].paused
      BY <1>1, <1>2, <1>3
    <2> QED BY <1>1, <1>2, <2>1 DEF Applied, Items, Marked
  <1> QED BY <1>1, <1>2, <1>3, <1>4, <1>5, FinishHandler

LEMMA ResumeCommitStep == IInv /\ TypeOK' /\ ResumeCommit => Rest
  <1> SUFFICES ASSUME IInv, TypeOK', ResumeCommit PROVE Rest
    OBVIOUS
  <1>1. /\ agent = "up" /\ ok /\ pc = "each" /\ Cur.op = "Resume" /\ TypeOK /\ ItemNames \subseteq Svc
        /\ \A s \in ItemNames : /\ s \in registered /\ listen[s] # NoAddr
                                /\ s \in tainted \/ (Len(config[s]) = 1 /\ listen[s] = config[s][1].addr)
        /\ \A k \in 1..Len(Items) : Items[k].name \in ItemNames
        /\ \A s \in Svc \ ItemNames : Settled(s)
    BY LoopOver DEF ResumeCommit, DoneWith
  <1>2. Finished /\ Cur' = Cur /\ Items' = Items /\ UNCHANGED <<registered, listen, tainted>>
    BY <1>1, NextFlight DEF ResumeCommit
  <1>3. ASSUME NEW s \in ItemNames
        PROVE  Settled(s)' /\ config'[s] # <<>> /\ ~config'[s][1].paused
    <2>1. s \in Svc /\ config[s] # <<>>
      BY <1>1, <1>3 DEF IInv, Services, RegisteredConfigured
    <2>2. /\ config'[s] # <<>> /\ Len(config'[s]) = Len(config[s])
          /\ ~config'[s][1].paused /\ config'[s][1].addr = config[s][1].addr
      <3>1. CASE Marked(s)
        <4>1. config'[s] = Flagged(s, FALSE)
          BY <1>3, <2>1, <3>1 DEF ResumeCommit
        <4>2. /\ config'[s] # <<>> /\ Len(config'[s]) = Len(config[s])
              /\ config'[s][1] = [addr |-> config[s][1].addr, paused |-> FALSE]
          BY <1>1, <2>1, <4>1, EntryTypes
        <4> QED BY <4>2
      <3>2. CASE ~Marked(s)
        <4>1. config'[s] = config[s]
          BY <2>1, <3>2 DEF ResumeCommit
        <4> QED BY <2>1, <3>2, <4>1 DEF Marked
      <3> QED BY <3>1, <3>2
    <2>3. s \in tainted' \/ Agrees(s)'
      BY <1>1, <1>2, <1>3, <2>2 DEF Agrees
    <2> QED BY <1>1, <1>2, <1>3, <2>2, <2>3 DEF Settled
  <1>4. ASSUME NEW s \in Svc \ ItemNames PROVE Settled(s)'
    <2>1. config'[s] = config[s] /\ Settled(s)
      BY <1>1, <1>4 DEF ResumeCommit
    <2> QED BY <1>2, <2>1 DEF Settled, Agrees, Marked
  <1>5. Applied(Cur)'
    <2>1. ASSUME NEW k \in 1..Len(Items)
          PROVE  LET s == Items[k].name
                 IN s \in registered' /\ listen'[s] # NoAddr /\ config'[s] # <<>> /\ ~config'[s][1].paused
      BY <1>1, <1>2, <1>3
    <2> QED BY <1>1, <1>2, <2>1 DEF Applied, Items, Marked
  <1> QED BY <1>1, <1>2, <1>3, <1>4, <1>5, FinishHandler

-----------------------------------------------------------------------------
(***************************************************************************)
(* The actions that leave the services alone, and the restarts.            *)
(***************************************************************************)

\* Outside the loops no service is in flight.
LEMMA NothingInFlight == pc \notin {"each", "parse"} => InFlight = {}
  BY DEF InFlight

LEMMA ServicesUnchanged ==
    IInv /\ TypeOK' /\ pc \notin {"each", "parse"} /\ UNCHANGED <<agent, memory>> => Services'
  <1> SUFFICES ASSUME IInv, TypeOK', pc \notin {"each", "parse"}, UNCHANGED <<agent, memory>> PROVE Services'
    OBVIOUS
  <1>1. InFlight = {} /\ UNCHANGED <<agent, registered, listen, config, tainted>>
    BY NothingInFlight DEF memory
  <1>2. agent' = "up" => \A s \in Svc : Settled(s)
    BY <1>1, SettledService
  <1>3. \A s \in Svc : Settled(s) => Settled(s)'
    BY <1>1 DEF Settled, Agrees, Marked
  <1>4. /\ (agent' = "up" => \A s \in Svc : Agrees(s)' \/ s \in tainted')
        /\ (agent' = "up" => \A s \in registered' : ~ Marked(s)' => listen'[s] # NoAddr)
    <2>1. agent' = "up" => \A s \in Svc : Settled(s)'
      BY <1>2, <1>3
    <2>2. registered' \subseteq Svc /\ tainted' = tainted
      BY <1>1 DEF TypeOK, DataTypes
    <2> QED BY <2>1, <2>2 DEF Settled
  <1>5. RegisteredConfigured' /\ ListenersOwned'
    BY <1>1 DEF IInv, Services, RegisteredConfigured, ListenersOwned
  <1> QED BY <1>4, <1>5 DEF Services, Agreement, UnmarkedListens

LEMMA AppliedUnchanged ==
    ASSUME UNCHANGED <<memory, msg, step>>, Applied(Cur)
    PROVE  Applied(Cur)'
  <1>1. Cur' = Cur /\ UNCHANGED <<registered, listen, config>>
    BY DEF memory, Cur
  <1>2. \A s : Marked(s)' <=> Marked(s)
    BY <1>1 DEF Marked
  <1> QED BY <1>1, <1>2 DEF Applied

LEMMA QuietStep ==
    IInv /\ TypeOK' /\ ((\E m \in Messages : Receive(m)) \/ Begin \/ NextCommand \/ SaveTruncate \/ SaveWrite \/ Reply)
        => Rest
  <1> SUFFICES ASSUME IInv, TypeOK',
                      (\E m \in Messages : Receive(m)) \/ Begin \/ NextCommand \/ SaveTruncate \/ SaveWrite \/ Reply
               PROVE  Rest
    OBVIOUS
  <1>0. TypeOK /\ HandlerInv /\ AckApplied
    BY DEF IInv
  <1>1. pc \notin {"each", "parse"} /\ UNCHANGED <<agent, memory>>
    BY DEF Receive, Begin, NextCommand, SaveTruncate, SaveWrite, Reply
  <1>2. Services'
    BY <1>1, ServicesUnchanged
  <1>3. CASE \E m \in Messages : Receive(m)
    BY <1>2, <1>3 DEF Rest, Receive, HandlerInv, AckApplied
  <1>8. CASE Reply
    <2>1. pc = "reply" /\ pc' = "idle" /\ UNCHANGED <<agent, config, file, intact, unsaved>>
      BY <1>8 DEF Reply, memory, disk
    <2>2. AckApplied'
      BY <1>0, <2>1 DEF AckApplied
    <2> QED BY <1>2, <2>1, <2>2 DEF Rest, HandlerInv
  <1>4. CASE Begin /\ Fail
    BY <1>2, <1>4, FailHandler DEF Rest
  <1>5. CASE Begin /\ ~Fail
    <2>1. /\ pc' = "each" /\ i' = 1 /\ Cur' = Cur /\ Items' = Items /\ ok' /\ registered' = registered
          /\ Cur.op \in {"Update", "Delete", "Pause", "Resume"} => ItemNames \subseteq registered
      BY <1>0, <1>1, <1>5 DEF Begin, HandlerInv, Verified, Cur, Items, memory
    <2>2. HandlerInv'
      BY <2>1 DEF HandlerInv, ItemNames
    <2> QED BY <1>2, <2>1, <2>2 DEF Rest, AckApplied
  <1>6. CASE NextCommand
    <2>1. ok /\ Applied(Cur) /\ UNCHANGED <<memory, msg, ok>> /\ pc' \in {"begin", "save"}
      BY <1>0, <1>6 DEF NextCommand, HandlerInv
    <2>2. pc' = "save" => Applied(Cur)'
      BY <1>6, <2>1, AppliedUnchanged DEF NextCommand
    <2> QED BY <1>2, <2>1, <2>2 DEF Rest, HandlerInv, AckApplied
  <1>7. CASE SaveTruncate \/ SaveWrite
    <2>1. /\ UNCHANGED <<memory, msg, step, ok>> /\ pc' \in {"write", "reply"} /\ pc \in {"save", "write"}
          /\ pc' = "reply" /\ unsaved' = 0 => intact' /\ file' = config'
      <3>1. unsaved \in Nat
        BY <1>0, AgentAssumption DEF TypeOK, DataTypes
      <3> QED BY <1>7, <3>1 DEF SaveTruncate, SaveWrite, SaveFails, memory
    <2>2. ok' => Applied(Cur)'
      BY <1>0, <2>1, AppliedUnchanged DEF HandlerInv
    <2> QED BY <1>2, <2>1, <2>2 DEF Rest, HandlerInv, AckApplied
  <1> QED BY <1>3, <1>4, <1>5, <1>6, <1>7, <1>8

LEMMA RestartStep == IInv /\ TypeOK' /\ (Crash \/ Boot) => Rest
  <1> SUFFICES ASSUME IInv, TypeOK', Crash \/ Boot PROVE Rest
    OBVIOUS
  <1>1. CASE Crash
    <2>1. agent' = "down" /\ registered' = {} /\ listen' = Closed /\ pc' = "idle" /\ ok'
      BY <1>1 DEF Crash
    <2> QED BY <2>1 DEF Rest, Services, Agreement, RegisteredConfigured, ListenersOwned, UnmarkedListens,
                        HandlerInv, AckApplied, Closed
  <1>2. CASE Boot
    <2>1. /\ pc' = "idle" /\ config' = file /\ file' = file /\ intact'
          /\ registered' = {s \in Svc : file[s] # <<>>}
          /\ listen' = [s \in Svc |-> IF file[s] # <<>> THEN file[s][1].addr ELSE NoAddr]
          /\ tainted' = {s \in Svc : file[s] # <<>> /\ file[s][1].paused}
          /\ \A s \in Svc : Len(file[s]) <= 1
      BY <1>2 DEF Boot, Bootable, control, IInv, TypeOK, DataTypes, ControlTypes
    <2>2. ASSUME NEW s \in Svc, file[s] # <<>>
          PROVE  Len(file[s]) = 1 /\ file[s][1].addr \in Addr /\ file[s][1].addr # NoAddr
      <3>1. file[s] \in Seq(Entry) /\ Len(file[s]) <= 1
        BY <2>1 DEF IInv, TypeOK, DataTypes
      <3>2. file[s][1] \in Entry /\ Len(file[s]) \in Nat /\ Len(file[s]) # 0
        BY <2>2, <3>1, FirstElement
      <3>3. \A n \in Nat : n # 0 /\ n <= 1 => n = 1
        OBVIOUS
      <3>4. Len(file[s]) = 1
        BY <3>1, <3>2, <3>3, Zenon
      <3>5. file[s][1].addr \in Addr
        BY <3>2 DEF Entry
      <3> QED BY <3>5, <3>4, AgentAssumption
    <2>3. \A s \in Svc : Settled(s)'
      BY <2>1, <2>2 DEF Settled, Agrees, Marked
    <2>4. Services'
      BY <2>3, ServicesFromSettled DEF Settled
    <2> QED BY <2>1, <2>4 DEF Rest, HandlerInv, AckApplied
  <1> QED BY <1>1, <1>2

LEMMA StutterStep == IInv /\ UNCHANGED vars => IInv'
  <1> SUFFICES ASSUME IInv, UNCHANGED vars PROVE IInv'
    OBVIOUS
  <1>1. TypeOK'
    BY TypeStep DEF IInv
  <1>2. UNCHANGED <<agent, registered, listen, config, file, intact, unsaved, pc, msg, step, i, ok, tainted>>
    BY DEF vars
  <1>3. Cur' = Cur /\ Items' = Items
    BY <1>2 DEF Cur, Items
  <1>4. InFlight' = InFlight
    BY <1>2, <1>3 DEF InFlight, DoneNames, Done
  <1>5. \A s : (Agrees(s) <=> Agrees(s)') /\ (Marked(s) <=> Marked(s)') /\ (Replaceable(s) <=> Replaceable(s)')
    BY <1>2 DEF Agrees, Marked, Replaceable
  <1>6. Services'
    BY <1>2, <1>4, <1>5 DEF IInv, Services, Agreement, RegisteredConfigured, ListenersOwned, UnmarkedListens
  <1>7. ASSUME pc \in {"each", "parse"}, NEW k \in 1..(i - 1)
        PROVE  DoneWith(Cur.op, Items[k].name, Items[k].addr)'
    <2>1. DoneWith(Cur.op, Items[k].name, Items[k].addr)
      BY <1>7 DEF IInv, HandlerInv
    <2> QED BY <1>2, <1>3, <2>1 DEF DoneWith, Agrees, Replaceable, HasEntry
  <1>8. Applied(Cur) => Applied(Cur)'
    BY <1>2, AppliedUnchanged DEF vars, memory
  <1>9. HandlerInv'
    BY <1>2, <1>3, <1>5, <1>7, <1>8 DEF IInv, HandlerInv
  <1>10. AckApplied'
    BY <1>2, <1>3, <1>8 DEF IInv, AckApplied
  <1> QED BY <1>1, <1>6, <1>9, <1>10 DEF IInv

LEMMA InductiveInit == Init => IInv
  <1> SUFFICES ASSUME Init PROVE IInv
    OBVIOUS
  <1>1. TypeOK
    BY AgentAssumption DEF Init, TypeOK, DataTypes, ControlTypes, Empty, Closed
  <1>2. Services
    BY DEF Init, Services, Agreement, RegisteredConfigured, ListenersOwned, UnmarkedListens, Agrees, Empty, Closed
  <1> QED BY <1>1, <1>2 DEF Init, IInv, HandlerInv, AckApplied

LEMMA InductiveStep == IInv /\ [Next]_vars => IInv'
  <1> SUFFICES ASSUME IInv, [Next]_vars PROVE IInv'
    OBVIOUS
  <1>1. TypeOK'
    BY TypeStep DEF IInv
  <1>2. CASE UNCHANGED vars \/ BootFails
    BY <1>2, StutterStep DEF BootFails
  <1>3. CASE Next /\ ~BootFails
    <2>1. Rest
      BY <1>1, <1>3, AddParseStep, AddCommitStep, UpsertCreateStep, CloseOldStep, UpdateParseStep, UpdateCommitStep,
         UpsertCommitStep, DeleteStep, PauseCloseStep, PauseCommitStep, ResumeSkipStep, ResumeParseStep,
         ResumeCommitStep, QuietStep, RestartStep
      DEF Next, Handler
    <2> QED BY <1>1, <2>1 DEF IInv, Rest
  <1> QED BY <1>2, <1>3

LEMMA Inductive == Spec => []IInv
  BY InductiveInit, InductiveStep, PTL DEF Spec

-----------------------------------------------------------------------------
\* Every variable keeps its type, whatever the panel sends and whenever
\* ParseService fails or the process is killed.
THEOREM TypeCorrect == Spec => []TypeOK
  <1>1. IInv => TypeOK
    BY DEF IInv
  <1> QED BY <1>1, Inductive, PTL

\* Registry, listeners and configuration agree on every service that no
\* handler is at and that no failure or restart has tainted.
THEOREM RegistryAgrees == Spec => []Agreement
  <1>1. IInv => Agreement
    BY DEF IInv, Services
  <1> QED BY <1>1, Inductive, PTL

\* A registered service has a configuration entry: pause, resume and delete
\* always find what they need.
THEOREM NothingForgotten == Spec => []RegisteredConfigured
  <1>1. IInv => RegisteredConfigured
    BY DEF IInv, Services
  <1> QED BY <1>1, Inductive, PTL

\* An open listener has an owner in the registry, outside the ones that a
\* failed ParseService left open.
THEOREM ListenersAreOwned == Spec => []ListenersOwned
  <1>1. IInv => ListenersOwned
    BY DEF IInv, Services
  <1> QED BY <1>1, Inductive, PTL

\* A reply with Success comes after the command has taken effect; and between
\* two commands gost.json is the configuration in memory, unless the latest save
\* met an error, which the reply does not tell.
THEOREM AcknowledgedIsApplied == Spec => []AckApplied
  <1>1. IInv => AckApplied
    BY DEF IInv
  <1> QED BY <1>1, Inductive, PTL
=============================================================================
