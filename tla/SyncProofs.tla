----------------------------- MODULE SyncProofs -----------------------------
(***************************************************************************)
(* What holds of document sync for any desktops, documents and edits, any  *)
(* capacity of the channels, and any number of faults.  The invariant adds *)
(* to the types what messages carry: edits of their one document, all of   *)
(* which were made.  The refinement of Replicas rests on the same facts.   *)
(* After it, by INSTANCE, what holds of items on their way through a       *)
(* node (Sources) and of an item's search index (SearchIndex).             *)
(***************************************************************************)
EXTENDS Sync, FiniteSetTheorems, TLAPS

\* Queues are finite, so that their lengths mean something.
Queues == \A o \in Desktop : IsFiniteSet(PushesTo(o, net))

\* A message is of the document it names.
OfOneDoc == \A m \in net : \A e \in m.edits : e[1] = m.doc

\* Nobody has, stored or sent an edit that was not made.
AllMade ==
  /\ \A d \in Desktop : mem[d] \subseteq made /\ vault[d] \subseteq made
  /\ layers \subseteq made
  /\ \A m \in net : m.edits \subseteq made

IInv == TypeOK /\ Queues /\ OfOneDoc /\ AllMade /\ SyncKeeps

-----------------------------------------------------------------------------
LEMMA InitInv == Init => IInv
<1> SUFFICES ASSUME Init PROVE IInv
  OBVIOUS
<1>1. \A o : PushesTo(o, net) = {}
  BY DEF Init, PushesTo
<1>2. \A o : IsFiniteSet(PushesTo(o, net)) /\ Cardinality(PushesTo(o, net)) = 0
  BY <1>1, FS_EmptySet
<1>3. TypeOK
  BY <1>2, SyncAssumption DEF Init, TypeOK
<1> QED
  BY <1>2, <1>3 DEF Init, IInv, Queues, OfOneDoc, AllMade, SyncKeeps, MemoryHasTheVault, UnsavedIsDirty,
                    Within

\* What becomes of the messages under way: none is a new push, so that no queue grows.
LEMMA NoMorePushes ==
  ASSUME TypeOK, Queues, NEW msgs, \A m \in msgs : m.kind = "push" => m \in net
  PROVE  \A o \in Desktop : /\ IsFiniteSet(PushesTo(o, msgs))
                            /\ Cardinality(PushesTo(o, msgs)) <= Capacity
<1> SUFFICES ASSUME NEW o \in Desktop
             PROVE  /\ IsFiniteSet(PushesTo(o, msgs))
                    /\ Cardinality(PushesTo(o, msgs)) <= Capacity
  OBVIOUS
<1>1. PushesTo(o, msgs) \subseteq PushesTo(o, net) /\ IsFiniteSet(PushesTo(o, net))
  BY DEF PushesTo, Queues
<1>2. /\ IsFiniteSet(PushesTo(o, msgs))
      /\ Cardinality(PushesTo(o, msgs)) <= Cardinality(PushesTo(o, net))
  BY <1>1, FS_Subset
<1>3. Cardinality(PushesTo(o, net)) \in Nat /\ Cardinality(PushesTo(o, msgs)) \in Nat
  BY <1>1, <1>2, FS_CardinalityType
<1> QED BY <1>2, <1>3, SyncAssumption DEF TypeOK

\* What fan_out queues of what the node has: pushes of its edits, as many as there is room for.
LEMMA FanOutFits ==
  ASSUME TypeOK, Queues, NEW d \in Desktop, NEW xs \in SUBSET Doc, NEW edits \in SUBSET Edit,
         NEW ps \in FanOuts(d, xs, edits)
  PROVE  /\ ps \subseteq Message
         /\ \A m \in ps : /\ m.kind = "push" /\ m.edits \subseteq edits
                          /\ \A e \in m.edits : e[1] = m.doc
         /\ \A o \in Desktop : /\ IsFiniteSet(PushesTo(o, net \cup ps))
                               /\ Cardinality(PushesTo(o, net \cup ps)) <= Capacity
<1>1. /\ ps \subseteq {Push(o, x, Of(edits, x)) : o \in Desktop \ {d}, x \in xs}
      /\ \A o \in Desktop : Cardinality(PushesTo(o, net \cup ps)) <= Capacity
  BY DEF FanOuts
<1>2. \A m \in ps : \E o \in Desktop, x \in xs : m = Push(o, x, Of(edits, x))
  BY <1>1
<1>3. \A x : Of(edits, x) \subseteq edits /\ \A e \in Of(edits, x) : e[1] = x
  BY DEF Of
<1>4. ps \subseteq Message
  <2> SUFFICES ASSUME NEW o \in Desktop, NEW x \in xs PROVE Push(o, x, Of(edits, x)) \in Message
    BY <1>2
  <2>1. Of(edits, x) \subseteq Edit /\ x \in Doc
    BY <1>3
  <2> QED BY <2>1 DEF Push, Message
<1>5. ASSUME NEW m \in ps
      PROVE  /\ m.kind = "push" /\ m.edits \subseteq edits
             /\ \A e \in m.edits : e[1] = m.doc
  BY <1>2, <1>3 DEF Push
<1>6. ASSUME NEW o \in Desktop PROVE IsFiniteSet(PushesTo(o, net \cup ps))
  <2> DEFINE f == [x \in xs |-> Push(o, x, Of(edits, x))]
             img == {Push(o, x, Of(edits, x)) : x \in xs}
  <2>1. IsFiniteSet(xs)
    BY SyncAssumption, FS_Subset
  <2>2. f \in Surjection(xs, img)
    <3>1. f \in [xs -> img]
      OBVIOUS
    <3>2. \A t \in img : \E x \in xs : f[x] = t
      OBVIOUS
    <3> QED BY <3>1, <3>2 DEF Surjection
  <2>3. IsFiniteSet(img)
    BY <2>1, <2>2, FS_Surjection
  <2>4. PushesTo(o, net \cup ps) \subseteq PushesTo(o, net) \cup img
    <3> SUFFICES ASSUME NEW m \in PushesTo(o, net \cup ps), m \notin PushesTo(o, net)
                 PROVE  m \in img
      OBVIOUS
    <3>1. m \in ps /\ m.who = o
      BY DEF PushesTo
    <3>2. PICK p \in Desktop, x \in xs : m = Push(p, x, Of(edits, x))
      BY <1>2, <3>1
    <3>3. p = o
      BY <3>1, <3>2 DEF Push
    <3> QED BY <3>2, <3>3
  <2>5. IsFiniteSet(PushesTo(o, net) \cup img)
    BY <2>3, FS_Union DEF Queues
  <2> QED BY <2>4, <2>5, FS_Subset
<1>7. \A o \in Desktop : /\ IsFiniteSet(PushesTo(o, net \cup ps))
                         /\ Cardinality(PushesTo(o, net \cup ps)) <= Capacity
  BY <1>1, <1>6
<1> QED BY <1>4, <1>5, <1>7

\* A message that may be on its way in the next state
Honest(m) ==
  /\ m \in Message /\ \A e \in m.edits : e[1] = m.doc
  /\ m.edits \subseteq made'

-----------------------------------------------------------------------------
\* What follows a message keeps the invariant, whatever of it fails.
LEMMA AfterMessageKeeps ==
  ASSUME IInv, NEW d \in Desktop, NEW edits \in SUBSET Edit, NEW versions \in SUBSET open[d], NEW sent,
         AfterMessage(d, edits, versions, sent), UNCHANGED <<open, layers, tabs>>,
         made \subseteq made', made' \subseteq Edit, mem[d] \subseteq edits, edits \subseteq made',
         \A e \in edits \ vault[d] : e[1] \in versions \/ e \in layers,
         \A m \in sent : Honest(m) /\ (m.kind = "push" => m \in net)
  PROVE  /\ IInv'
         /\ vault' = [vault EXCEPT ![d] = vault'[d]]
         /\ vault[d] \subseteq vault'[d] /\ vault'[d] \subseteq vault[d] \cup edits
<1>1. TypeOK /\ Queues /\ AllMade /\ SyncKeeps /\ OfOneDoc /\ open[d] \subseteq Doc
  BY DEF IInv, TypeOK
<1>2. PICK saved \in SUBSET versions, failed \in SUBSET versions :
        /\ failed \cap saved = {} /\ Cardinality(failed) <= 1
        /\ faults + Cardinality(failed) <= MaxFaults
        /\ faults' = faults + Cardinality(failed)
        /\ mem' = [mem EXCEPT ![d] = edits]
        /\ dirty' = [dirty EXCEPT ![d] = StillDirty(versions, saved)]
        /\ vault' = [vault EXCEPT ![d] = Within(@, Doc \ saved) \cup Within(edits, saved)]
        /\ index' = [index EXCEPT ![d] = Within(@, Doc \ (saved \cup failed))
                                           \cup Within(edits, saved \cup failed)]
        /\ net' = sent \cup {Hello(d, x, edits) : x \in saved \cup failed}
  BY DEF AfterMessage
<1>3. PICK put : put = Within(vault[d], Doc \ saved) \cup Within(edits, saved)
  OBVIOUS
<1>4. Within(vault[d], open[d]) \subseteq edits
  BY <1>1 DEF SyncKeeps, MemoryHasTheVault
<1>5. /\ vault[d] \subseteq put /\ put \subseteq vault[d] \cup edits
      /\ Within(put, open[d]) \subseteq edits
      /\ \A e \in edits \ put : e[1] \in versions \ saved \/ e \in layers
  <2>1. \A e \in Edit : e[1] \in Doc
    BY SyncAssumption
  <2>2. vault[d] \subseteq Edit
    BY <1>1 DEF TypeOK
  <2> QED BY <1>3, <1>4, <2>1, <2>2 DEF Within
<1>6. vault' = [vault EXCEPT ![d] = put] /\ vault'[d] = put
  BY <1>1, <1>2, <1>3 DEF TypeOK
<1>7. \A m \in net' : Honest(m) /\ (m.kind = "push" => m \in net)
  <2> SUFFICES ASSUME NEW x \in saved \cup failed
               PROVE  Honest(Hello(d, x, edits)) /\ Hello(d, x, edits).kind # "push"
    BY <1>2
  <2>1. Of(edits, x) \subseteq edits /\ \A e \in Of(edits, x) : e[1] = x
    BY DEF Of
  <2> QED BY <1>1, <2>1 DEF Honest, Hello, Message
<1>8. Queues' /\ \A o \in Desktop : Cardinality(PushesTo(o, net)') <= Capacity
  <2>1. \A o \in Desktop : /\ IsFiniteSet(PushesTo(o, net'))
                           /\ Cardinality(PushesTo(o, net')) <= Capacity
    BY <1>1, <1>7, NoMorePushes
  <2> QED BY <2>1 DEF Queues, PushesTo
<1>9. TypeOK'
  <2>1. faults' \in 0..MaxFaults /\ tabs' \in 0..MaxTabs
    <3>1. IsFiniteSet(failed)
      <4>1. failed \subseteq Doc
        BY <1>1
      <4> QED BY <4>1, SyncAssumption, FS_Subset
    <3>2. Cardinality(failed) \in Nat
      BY <3>1, FS_CardinalityType
    <3> QED BY <1>1, <1>2, <3>2, SyncAssumption DEF TypeOK
  <2>2. /\ mem' \in [Desktop -> SUBSET Edit] /\ dirty' \in [Desktop -> SUBSET Doc]
        /\ vault' \in [Desktop -> SUBSET Edit] /\ \A o \in Desktop : dirty'[o] \subseteq open[o]
    <3>1. vault[d] \subseteq Edit
      BY <1>1 DEF TypeOK
    <3> QED BY <1>1, <1>2, <1>5, <1>6, <3>1 DEF TypeOK, StillDirty
  <2>3. index' \in [Desktop -> SUBSET Edit]
    <3>1. index[d] \subseteq Edit /\ index \in [Desktop -> SUBSET Edit]
      BY <1>1 DEF TypeOK
    <3>2. Within(index[d], Doc \ (saved \cup failed)) \cup Within(edits, saved \cup failed) \subseteq Edit
      BY <3>1 DEF Within
    <3> QED BY <1>2, <3>1, <3>2
  <2>4. net' \subseteq Message
    BY <1>7 DEF Honest
  <2>5. open' \in [Desktop -> SUBSET Doc] /\ layers' \subseteq Edit
    BY <1>1 DEF TypeOK
  <2> QED BY <1>8, <2>1, <2>2, <2>3, <2>4, <2>5 DEF TypeOK
<1>10. OfOneDoc'
  BY <1>7 DEF OfOneDoc, Honest
<1>11. AllMade'
  <2>1. \A m \in net' : m.edits \subseteq made'
    BY <1>7 DEF Honest
  <2>2. ASSUME NEW o \in Desktop PROVE mem'[o] \subseteq made' /\ vault'[o] \subseteq made'
    BY <1>1, <1>2, <1>5, <1>6 DEF AllMade, TypeOK
  <2> QED BY <1>1, <2>1, <2>2 DEF AllMade
<1>12. SyncKeeps'
  <2> SUFFICES ASSUME NEW o \in Desktop
               PROVE  /\ Within(vault'[o], open[o]) \subseteq mem'[o]
                      /\ \A e \in mem'[o] \ vault'[o] : e[1] \in dirty'[o] \/ e \in layers
    BY DEF SyncKeeps, MemoryHasTheVault, UnsavedIsDirty, Within
  <2>1. CASE o = d
    <3>1. mem'[o] = edits /\ vault'[o] = put /\ dirty'[o] = versions \ saved
      BY <1>1, <1>2, <1>6, <2>1 DEF TypeOK, StillDirty
    <3> QED BY <1>5, <2>1, <3>1
  <2>2. CASE o # d
    <3>1. mem'[o] = mem[o] /\ vault'[o] = vault[o] /\ dirty'[o] = dirty[o]
      BY <1>1, <1>2, <1>6, <2>2 DEF TypeOK
    <3> QED BY <1>1, <3>1 DEF SyncKeeps, MemoryHasTheVault, UnsavedIsDirty
  <2> QED BY <2>1, <2>2
<1> QED BY <1>5, <1>6, <1>8, <1>9, <1>10, <1>11, <1>12 DEF IInv

-----------------------------------------------------------------------------
\* What a step may do to what is stored: at one place, and taking nothing away
StoresAt(d) ==
  /\ layers' = layers /\ vault' = [vault EXCEPT ![d] = vault'[d]]
  /\ vault[d] \subseteq vault'[d] /\ vault'[d] \subseteq made'
Stores ==
  \/ UNCHANGED <<vault, layers>>
  \/ \E d \in Desktop : StoresAt(d)
  \/ UNCHANGED vault /\ layers \subseteq layers'
Keeps == IInv' /\ Stores

\* An app that only the messages change under, or that is closed
LEMMA OtherStep ==
  ASSUME IInv, UNCHANGED <<vault, layers, made>>,
         open' \in [Desktop -> SUBSET Doc], mem' \in [Desktop -> SUBSET Edit],
         dirty' \in [Desktop -> SUBSET Doc], UNCHANGED index,
         \A d \in Desktop : \/ open'[d] = open[d] /\ mem'[d] = mem[d] /\ dirty'[d] = dirty[d]
                            \/ open'[d] = {} /\ mem'[d] = {} /\ dirty'[d] = {},
         faults' \in 0..MaxFaults, tabs' \in 0..MaxTabs,
         \A m \in net' : Honest(m) /\ (m.kind = "push" => m \in net)
  PROVE  Keeps
<1>1. \A o \in Desktop : /\ IsFiniteSet(PushesTo(o, net'))
                         /\ Cardinality(PushesTo(o, net')) <= Capacity
  BY NoMorePushes DEF IInv
<1>2. TypeOK' /\ Queues'
  BY <1>1 DEF IInv, TypeOK, Queues, PushesTo, Honest
<1>3. OfOneDoc' /\ AllMade'
  BY DEF IInv, OfOneDoc, AllMade, Honest
<1>4. SyncKeeps'
  BY DEF IInv, SyncKeeps, MemoryHasTheVault, UnsavedIsDirty, Within
<1> QED BY <1>2, <1>3, <1>4 DEF IInv, Keeps, Stores

\* The messages under way are honest.
LEMMA NetIsHonest == ASSUME IInv, made \subseteq made' PROVE \A m \in net : Honest(m)
  BY DEF IInv, TypeOK, OfOneDoc, AllMade, Honest

\* A step that ends in a flush
LEMMA FlushStep ==
  ASSUME IInv, NEW d \in Desktop, NEW edits \in SUBSET Edit, NEW versions \in SUBSET open[d], NEW sent,
         AfterMessage(d, edits, versions, sent), UNCHANGED <<open, layers, tabs>>,
         made \subseteq made', made' \subseteq Edit, mem[d] \subseteq edits, edits \subseteq made',
         \A e \in edits \ vault[d] : e[1] \in versions \/ e \in layers,
         \A m \in sent : Honest(m) /\ (m.kind = "push" => m \in net)
  PROVE  Keeps
<1>1. /\ IInv' /\ vault' = [vault EXCEPT ![d] = vault'[d]]
      /\ vault[d] \subseteq vault'[d] /\ vault'[d] \subseteq vault[d] \cup edits
  BY AfterMessageKeeps
<1>2. StoresAt(d)
  BY <1>1 DEF StoresAt, IInv, AllMade
<1> QED BY <1>1, <1>2 DEF Keeps, Stores

LEMMA ReceiveStep ==
  ASSUME IInv, NEW d \in Desktop, NEW m \in net, SyncDone(d, m) \/ PushReceived(d, m) PROVE Keeps
<1> DEFINE new == IF m.doc \in open[d] THEN m.edits ELSE {}
           edits == mem[d] \cup new
           versions == dirty[d] \cup Touched(d, m.doc, new)
<1>1. AfterMessage(d, edits, versions, net \ {m}) /\ UNCHANGED <<open, layers, made, tabs>>
  BY DEF SyncDone, PushReceived, Import
<1>2. /\ m \in Message /\ mem[d] \subseteq Edit /\ dirty[d] \subseteq open[d]
      /\ made' \subseteq Edit
  BY <1>1 DEF IInv, TypeOK
<1>3. m.edits \subseteq Edit /\ \A e \in m.edits : e[1] = m.doc
  BY <1>2 DEF IInv, OfOneDoc, Message
<1>4. edits \in SUBSET Edit /\ versions \in SUBSET open[d] /\ mem[d] \subseteq edits
  <2>1. Touched(d, m.doc, new) \subseteq open[d]
    BY DEF Touched
  <2> QED BY <1>2, <1>3, <2>1
<1>5. edits \subseteq made'
  BY <1>1, <1>2 DEF IInv, AllMade
<1>6. \A e \in edits \ vault[d] : e[1] \in versions \/ e \in layers
  BY <1>2, <1>3 DEF IInv, SyncKeeps, UnsavedIsDirty, Touched
<1>7. \A n \in net \ {m} : Honest(n)
  BY <1>1, NetIsHonest
<1> HIDE DEF edits, versions
<1> QED BY <1>1, <1>2, <1>4, <1>5, <1>6, <1>7, FlushStep

LEMMA SyncTickStep ==
  ASSUME IInv, NEW d \in Desktop, SyncTick(d) PROVE Keeps
<1>1. /\ mem[d] \in SUBSET Edit /\ dirty[d] \in SUBSET open[d] /\ mem[d] \subseteq made
      /\ open[d] \subseteq Doc /\ made' \subseteq Edit /\ made' = made
  BY DEF IInv, TypeOK, AllMade, SyncTick
<1>2. \A e \in mem[d] \ vault[d] : e[1] \in dirty[d] \/ e \in layers
  BY <1>1 DEF IInv, SyncKeeps, UnsavedIsDirty
<1>3. ASSUME NEW x \in open[d] PROVE Honest(Hello(d, x, mem[d])) /\ Hello(d, x, mem[d]).kind = "hello"
  <2>1. Of(mem[d], x) \subseteq mem[d] /\ \A e \in Of(mem[d], x) : e[1] = x
    BY DEF Of
  <2> QED BY <1>1, <2>1 DEF Honest, Hello, Message
<1>4. \A m \in net \cup {Hello(d, x, mem[d]) : x \in open[d]} :
        Honest(m) /\ (m.kind = "push" => m \in net)
  BY <1>1, <1>3, NetIsHonest
<1>5. /\ AfterMessage(d, mem[d], dirty[d], net \cup {Hello(d, x, mem[d]) : x \in open[d]})
      /\ UNCHANGED <<open, layers, tabs>>
  BY DEF SyncTick
<1> QED BY <1>1, <1>2, <1>4, <1>5, FlushStep

LEMMA MakeEditStep ==
  ASSUME IInv, NEW d \in Desktop, NEW e \in Edit, MakeEdit(d, e) PROVE Keeps
<1> DEFINE edits == mem[d] \cup {e}
           versions == dirty[d] \cup {e[1]}
<1>1. /\ edits \in SUBSET Edit /\ versions \in SUBSET open[d]
      /\ made' \subseteq Edit /\ made \subseteq made' /\ edits \subseteq made'
      /\ mem[d] \subseteq edits
  BY SyncAssumption DEF IInv, TypeOK, AllMade, MakeEdit
<1>2. \A f \in edits \ vault[d] : f[1] \in versions \/ f \in layers
  BY <1>1 DEF IInv, SyncKeeps, UnsavedIsDirty
<1>3. \A m \in net : Honest(m)
  BY <1>1, NetIsHonest
<1>4. AfterMessage(d, edits, versions, net) /\ UNCHANGED <<open, layers, tabs>>
  BY DEF MakeEdit
<1> HIDE DEF edits, versions
<1> QED BY <1>1, <1>2, <1>3, <1>4, FlushStep

-----------------------------------------------------------------------------
LEMMA LeaveStep ==
  ASSUME IInv, NEW d \in Desktop, Close(d) \/ Crash(d) PROVE Keeps
<1>1. /\ open' = [open EXCEPT ![d] = {}] /\ mem' = [mem EXCEPT ![d] = {}] /\ dirty' = [dirty EXCEPT ![d] = {}]
      /\ UNCHANGED <<vault, index, layers, made>>
  BY DEF Close, Crash
<1>2. faults' \in 0..MaxFaults /\ tabs' \in 0..MaxTabs
  BY SyncAssumption DEF IInv, TypeOK, Close, Crash
<1>3. \A m \in net' : Honest(m) /\ (m.kind = "push" => m \in net)
  <2>1. CASE Close(d)
    BY <1>1, <2>1, NetIsHonest DEF Close
  <2>2. CASE Crash(d)
    <3>1. ASSUME NEW m \in net, m.kind = "hello"
          PROVE  Honest([m EXCEPT !.live = FALSE]) /\ [m EXCEPT !.live = FALSE].kind # "push"
      <4>1. Honest(m)
        BY <1>1, NetIsHonest
      <4> QED BY <3>1, <4>1 DEF Honest, Message
    <3>2. \A m \in net' : m \in net \/ \E n \in net : n.kind = "hello" /\ m = [n EXCEPT !.live = FALSE]
      BY <2>2 DEF Crash
    <3> QED BY <1>1, <3>1, <3>2, NetIsHonest
  <2> QED BY <2>1, <2>2
<1>4. /\ open' \in [Desktop -> SUBSET Doc]
      /\ mem' \in [Desktop -> SUBSET Edit] /\ dirty' \in [Desktop -> SUBSET Doc]
      /\ \A o \in Desktop : \/ open'[o] = open[o] /\ mem'[o] = mem[o] /\ dirty'[o] = dirty[o]
                            \/ open'[o] = {} /\ mem'[o] = {} /\ dirty'[o] = {}
  <2>1. /\ open \in [Desktop -> SUBSET Doc] /\ mem \in [Desktop -> SUBSET Edit]
        /\ dirty \in [Desktop -> SUBSET Doc]
    BY DEF IInv, TypeOK
  <2>2. ASSUME NEW o \in Desktop
        PROVE  \/ open'[o] = open[o] /\ mem'[o] = mem[o] /\ dirty'[o] = dirty[o]
               \/ open'[o] = {} /\ mem'[o] = {} /\ dirty'[o] = {}
    BY <1>1, <2>1
  <2>3. /\ open' \in [Desktop -> SUBSET Doc]
        /\ mem' \in [Desktop -> SUBSET Edit] /\ dirty' \in [Desktop -> SUBSET Doc]
    BY <1>1, <2>1
  <2> QED BY <2>2, <2>3
<1> QED BY <1>1, <1>2, <1>3, <1>4, OtherStep

LEMMA LoseStep ==
  ASSUME IInv, NEW m \in net, Lose(m) \/ GiveUp(m) PROVE Keeps
<1>1. UNCHANGED <<open, mem, dirty, vault, index, layers, made, tabs>>
  BY DEF Lose, GiveUp
<1>2. faults' \in 0..MaxFaults /\ tabs' \in 0..MaxTabs
  BY SyncAssumption DEF IInv, TypeOK, Lose, GiveUp
<1>3. Honest(m)
  BY <1>1, NetIsHonest
<1>4. m.kind = "hello" => Honest([m EXCEPT !.live = FALSE]) /\ [m EXCEPT !.live = FALSE].kind # "push"
  BY <1>3 DEF Honest, Message
<1>5. \A n \in net' : Honest(n) /\ (n.kind = "push" => n \in net)
  BY <1>1, <1>4, NetIsHonest DEF Lose, GiveUp
<1>6. /\ open' \in [Desktop -> SUBSET Doc]
      /\ mem' \in [Desktop -> SUBSET Edit] /\ dirty' \in [Desktop -> SUBSET Doc]
      /\ \A o \in Desktop : \/ open'[o] = open[o] /\ mem'[o] = mem[o] /\ dirty'[o] = dirty[o]
                            \/ open'[o] = {} /\ mem'[o] = {} /\ dirty'[o] = {}
  BY <1>1 DEF IInv, TypeOK
<1>7. UNCHANGED <<vault, layers, made, index>>
  BY <1>1
<1> QED BY <1>2, <1>5, <1>6, <1>7, OtherStep

-----------------------------------------------------------------------------
\* The app opens: what it has in memory is what the vault has, and what the node has.
LEMMA OpenStep ==
  ASSUME IInv, NEW d \in Desktop, Open(d) PROVE Keeps
<1>1. PICK readable \in SUBSET Doc :
           /\ faults' = faults + (IF readable = Doc THEN 0 ELSE 1) /\ faults' <= MaxFaults
           /\ open' = [open EXCEPT ![d] = readable]
           /\ \E pulled \in SUBSET {x \in readable : Of(vault[d], x) = {}} :
              \E cached \in SUBSET {x \in pulled : Of(layers, x) # {}}, ps \in FanOuts(d, pulled, layers) :
                /\ mem' = [mem EXCEPT ![d] = Within(Resolved(d, pulled), readable)]
                /\ index' = [index EXCEPT ![d] = Within(@, Doc \ readable)
                                                   \cup Within(Resolved(d, pulled), readable)]
                /\ vault' = [vault EXCEPT ![d] = @ \cup Within(layers, cached)]
                /\ net' = net \cup ps
  BY DEF Open, Opened
<1>0. PICK pulled \in SUBSET {x \in readable : Of(vault[d], x) = {}} :
              \E cached \in SUBSET {x \in pulled : Of(layers, x) # {}}, ps \in FanOuts(d, pulled, layers) :
                /\ mem' = [mem EXCEPT ![d] = Within(Resolved(d, pulled), readable)]
                /\ index' = [index EXCEPT ![d] = Within(@, Doc \ readable)
                                                   \cup Within(Resolved(d, pulled), readable)]
                /\ vault' = [vault EXCEPT ![d] = @ \cup Within(layers, cached)]
                /\ net' = net \cup ps
  BY <1>1
<1>2. PICK cached \in SUBSET {x \in pulled : Of(layers, x) # {}}, ps \in FanOuts(d, pulled, layers) :
             /\ mem' = [mem EXCEPT ![d] = Within(Resolved(d, pulled), readable)]
             /\ index' = [index EXCEPT ![d] = Within(@, Doc \ readable)
                                                \cup Within(Resolved(d, pulled), readable)]
             /\ vault' = [vault EXCEPT ![d] = @ \cup Within(layers, cached)]
             /\ net' = net \cup ps
  BY <1>0
<1>3. /\ tabs' \in 0..MaxTabs /\ faults' \in 0..MaxFaults /\ dirty' = [dirty EXCEPT ![d] = {}]
      /\ UNCHANGED <<layers, made>>
  <2>1. tabs' \in 0..MaxTabs /\ dirty' = [dirty EXCEPT ![d] = {}] /\ UNCHANGED <<layers, made>>
    BY SyncAssumption DEF Open, IInv, TypeOK
  <2>2. PICK n \in 0..1 : n = IF readable = Doc THEN 0 ELSE 1
    OBVIOUS
  <2>3. faults' = faults + n /\ faults' <= MaxFaults /\ faults \in Nat
    BY <1>1, <2>2, SyncAssumption DEF IInv, TypeOK
  <2> QED BY <2>1, <2>2, <2>3, SyncAssumption
<1>4. /\ TypeOK /\ Queues /\ vault[d] \subseteq Edit /\ layers \in SUBSET Edit
      /\ pulled \in SUBSET Doc /\ layers \subseteq made /\ vault[d] \subseteq made
      /\ index[d] \subseteq Edit
  BY DEF IInv, TypeOK, AllMade
<1>5. /\ ps \subseteq Message
      /\ \A m \in ps : /\ m.kind = "push" /\ m.edits \subseteq layers
                       /\ \A e \in m.edits : e[1] = m.doc
      /\ \A o \in Desktop : /\ IsFiniteSet(PushesTo(o, net \cup ps))
                            /\ Cardinality(PushesTo(o, net \cup ps)) <= Capacity
  BY <1>4, FanOutFits
<1>6. /\ vault[d] \subseteq vault'[d] /\ vault'[d] \subseteq vault[d] \cup layers
      /\ Within(vault'[d], readable) \subseteq mem'[d]
      /\ mem'[d] \subseteq vault[d] \cup layers
      /\ vault' = [vault EXCEPT ![d] = vault'[d]]
  BY <1>2, <1>4 DEF TypeOK, Resolved, Within
<1>7. TypeOK'
  <2>1. index' \in [Desktop -> SUBSET Edit]
    BY <1>2, <1>4 DEF TypeOK, Resolved, Within
  <2>2. /\ open' \in [Desktop -> SUBSET Doc] /\ dirty' \in [Desktop -> SUBSET Doc]
        /\ \A o \in Desktop : dirty'[o] \subseteq open'[o]
    BY <1>1, <1>3, <1>4 DEF TypeOK
  <2>3. mem' \in [Desktop -> SUBSET Edit] /\ vault' \in [Desktop -> SUBSET Edit]
    BY <1>2, <1>4, <1>6 DEF TypeOK
  <2> QED BY <1>2, <1>3, <1>4, <1>5, <2>1, <2>2, <2>3 DEF TypeOK, PushesTo
<1>8. Queues' /\ OfOneDoc'
  BY <1>2, <1>5 DEF IInv, Queues, OfOneDoc, PushesTo
<1>9. AllMade'
  BY <1>2, <1>3, <1>4, <1>5, <1>6 DEF IInv, AllMade, TypeOK
<1>10. SyncKeeps'
  <2> SUFFICES ASSUME NEW o \in Desktop
               PROVE  /\ Within(vault'[o], open'[o]) \subseteq mem'[o]
                      /\ \A e \in mem'[o] \ vault'[o] : e[1] \in dirty'[o] \/ e \in layers
    BY <1>3 DEF SyncKeeps, MemoryHasTheVault, UnsavedIsDirty, Within
  <2>1. CASE o = d
    <3>1. open'[o] = readable
      BY <1>1, <1>4, <2>1 DEF TypeOK
    <3> QED BY <1>6, <2>1, <3>1
  <2>2. CASE o # d
    <3>1. open'[o] = open[o] /\ mem'[o] = mem[o] /\ vault'[o] = vault[o] /\ dirty'[o] = dirty[o]
      BY <1>1, <1>2, <1>3, <1>4, <2>2 DEF TypeOK
    <3> QED BY <3>1 DEF IInv, SyncKeeps, MemoryHasTheVault, UnsavedIsDirty
  <2> QED BY <2>1, <2>2
<1>11. StoresAt(d)
  BY <1>3, <1>4, <1>6 DEF StoresAt
<1> QED BY <1>7, <1>8, <1>9, <1>10, <1>11 DEF IInv, Keeps, Stores

\* The node merges: its layer of the document grows, and what it sends is in it.
LEMMA AcceptSyncStep ==
  ASSUME IInv, NEW m \in net, AcceptSync(m) PROVE Keeps
<1>1. PICK ps \in FanOuts(m.who, {m.doc}, Merged(m)) :
           net' = (net \ {m}) \cup ps
                    \cup (IF m.live THEN {Ack(m.who, m.doc, Diff(m))} ELSE {})
  BY DEF AcceptSync
<1>2. /\ layers' = (layers \ Of(layers, m.doc)) \cup Merged(m)
      /\ UNCHANGED <<open, mem, dirty, vault, index, made, faults, tabs>>
  BY DEF AcceptSync
<1>3. /\ m \in Message /\ TypeOK /\ Queues /\ Honest(m) /\ layers \subseteq Edit /\ layers \subseteq made
  BY <1>2, NetIsHonest DEF IInv, TypeOK, AllMade
<1>4. /\ m.who \in Desktop /\ m.doc \in Doc /\ m.edits \subseteq Edit /\ m.edits \subseteq made
      /\ \A e \in m.edits : e[1] = m.doc
  BY <1>2, <1>3 DEF Message, Honest
<1>5. /\ Merged(m) \in SUBSET Edit /\ Merged(m) \subseteq made
      /\ \A e \in Merged(m) : e[1] = m.doc
      /\ layers \subseteq layers' /\ layers' \subseteq layers \cup Merged(m)
  BY <1>2, <1>3, <1>4 DEF Merged, Of
<1>6. /\ ps \subseteq Message
      /\ \A n \in ps : /\ n.kind = "push" /\ n.edits \subseteq Merged(m)
                       /\ \A e \in n.edits : e[1] = n.doc
      /\ \A o \in Desktop : /\ IsFiniteSet(PushesTo(o, net \cup ps))
                            /\ Cardinality(PushesTo(o, net \cup ps)) <= Capacity
  <2>1. {m.doc} \in SUBSET Doc
    BY <1>4
  <2> QED BY <1>1, <1>3, <1>4, <1>5, <2>1, FanOutFits
<1>7. /\ Ack(m.who, m.doc, Diff(m)) \in Message /\ Ack(m.who, m.doc, Diff(m)).kind = "ack"
      /\ Honest(Ack(m.who, m.doc, Diff(m)))
  BY <1>2, <1>4, <1>5 DEF Ack, Diff, Message, Honest
<1>8. \A n \in net' : Honest(n)
  BY <1>1, <1>2, <1>5, <1>6, <1>7, NetIsHonest DEF Honest
<1>9. ASSUME NEW o \in Desktop
      PROVE  IsFiniteSet(PushesTo(o, net')) /\ Cardinality(PushesTo(o, net')) <= Capacity
  <2>1. PushesTo(o, net') \subseteq PushesTo(o, net \cup ps)
    BY <1>1, <1>7 DEF PushesTo
  <2>2. /\ IsFiniteSet(PushesTo(o, net'))
        /\ Cardinality(PushesTo(o, net')) <= Cardinality(PushesTo(o, net \cup ps))
    BY <1>6, <2>1, FS_Subset
  <2>3. Cardinality(PushesTo(o, net \cup ps)) \in Nat /\ Cardinality(PushesTo(o, net')) \in Nat
    BY <1>6, <2>2, FS_CardinalityType
  <2> QED BY <1>6, <2>2, <2>3, SyncAssumption
<1>10. TypeOK'
  BY <1>2, <1>3, <1>5, <1>8, <1>9 DEF TypeOK, PushesTo, Honest
<1>11. Queues' /\ OfOneDoc'
  BY <1>8, <1>9 DEF Queues, OfOneDoc, PushesTo, Honest
<1>12. AllMade'
  BY <1>2, <1>3, <1>5, <1>8 DEF IInv, AllMade, Honest
<1>13. SyncKeeps'
  BY <1>2, <1>5 DEF IInv, SyncKeeps, MemoryHasTheVault, UnsavedIsDirty, Within
<1> QED BY <1>2, <1>5, <1>10, <1>11, <1>12, <1>13 DEF IInv, Keeps, Stores

-----------------------------------------------------------------------------
LEMMA NextKeeps == IInv /\ [Next]_vars => Keeps
<1> SUFFICES ASSUME IInv, [Next]_vars PROVE Keeps
  OBVIOUS
<1>1. CASE UNCHANGED vars
  <2>1. IInv' /\ UNCHANGED <<vault, layers>>
    BY <1>1 DEF vars, IInv, TypeOK, PushesTo, Queues, OfOneDoc, AllMade, SyncKeeps,
                MemoryHasTheVault, UnsavedIsDirty, Within
  <2> QED BY <2>1 DEF Keeps, Stores
<1>2. ASSUME NEW d \in Desktop, Open(d) PROVE Keeps
  BY <1>2, OpenStep
<1>3. ASSUME NEW d \in Desktop, Close(d) \/ Crash(d) PROVE Keeps
  BY <1>3, LeaveStep
<1>4. ASSUME NEW d \in Desktop, SyncTick(d) PROVE Keeps
  BY <1>4, SyncTickStep
<1>5. ASSUME NEW d \in Desktop, NEW e \in Edit, MakeEdit(d, e) PROVE Keeps
  BY <1>5, MakeEditStep
<1>6. ASSUME NEW d \in Desktop, NEW m \in net, SyncDone(d, m) \/ PushReceived(d, m) PROVE Keeps
  BY <1>6, ReceiveStep
<1>7. ASSUME NEW m \in net, AcceptSync(m) PROVE Keeps
  BY <1>7, AcceptSyncStep
<1>8. ASSUME NEW m \in net, Lose(m) \/ GiveUp(m) PROVE Keeps
  BY <1>8, LoseStep
<1> QED BY <1>1, <1>2, <1>3, <1>4, <1>5, <1>6, <1>7, <1>8 DEF Next

LEMMA Invariant == Spec => []IInv
<1>1. IInv /\ [Next]_vars => IInv'
  BY NextKeeps DEF Keeps
<1> QED BY InitInv, <1>1, PTL DEF Spec

\* Every variable has its type, and no desktop's channel holds more pushes than
\* CHANNEL_CAPACITY, whoever fans out to it and when (node.rs, fan_out).
THEOREM TypeCorrect == Spec => []TypeOK
<1>1. IInv => TypeOK
  BY DEF IInv
<1> QED BY <1>1, Invariant, PTL

\* A put never overwrites what the app has not in memory, and what is only in
\* memory is in a document that the next flush will save, or is on the node:
\* whatever of a flush fails, whatever a message brings, whoever dies.
THEOREM KeepsCorrect == Spec => []SyncKeeps
<1>1. IInv => SyncKeeps
  BY DEF IInv
<1> QED BY <1>1, Invariant, PTL

-----------------------------------------------------------------------------
LEMMA DurableAt ==
  ASSUME IInv
  PROVE  /\ Durable[Node] = layers
         /\ \A d \in Desktop : Durable[d] = vault[d]
         /\ DOMAIN Durable = Desktop \cup {Node}
  BY SyncAssumption DEF Durable

\* The replicas' part of a step: nothing, or one replica learns edits that were made.
LEMMA StoresIsLearn ==
  ASSUME IInv, Keeps
  PROVE  \/ Durable' = Durable
         \/ \E r \in Desktop \cup {Node}, edits \in SUBSET made' : Abstract!Learn(r, edits)
<1>0. IInv' /\ Stores /\ vault \in [Desktop -> SUBSET Edit] /\ vault' \in [Desktop -> SUBSET Edit]
  BY DEF Keeps, IInv, TypeOK
<1>1. CASE UNCHANGED <<vault, layers>>
  BY <1>1 DEF Durable
<1>2. ASSUME NEW d \in Desktop, StoresAt(d)
      PROVE  Abstract!Learn(d, vault'[d]) /\ vault'[d] \in SUBSET made'
  <2>1. vault'[d] = vault[d] \cup vault'[d] /\ d # Node
    BY <1>2, SyncAssumption DEF StoresAt
  <2>2. Durable' = [Durable EXCEPT ![d] = vault[d] \cup vault'[d]]
    BY <1>0, <1>2, <2>1, SyncAssumption DEF StoresAt, Durable
  <2> QED BY <1>2, <2>2, DurableAt DEF StoresAt, Abstract!Learn
<1>3. CASE UNCHANGED vault /\ layers \subseteq layers'
  <2>1. layers' = layers \cup layers' /\ layers' \in SUBSET made'
    BY <1>0, <1>3 DEF IInv, AllMade
  <2>2. Durable' = [Durable EXCEPT ![Node] = layers \cup layers']
    BY <1>3, <2>1, SyncAssumption DEF Durable
  <2>3. Abstract!Learn(Node, layers')
    BY <2>2, DurableAt DEF Abstract!Learn
  <2> QED BY <2>1, <2>3
<1> QED BY <1>0, <1>1, <1>2, <1>3 DEF Stores

LEMMA StepImplements == IInv /\ [Next]_vars => [Abstract!Next]_(Abstract!vars)
<1> SUFFICES ASSUME IInv, [Next]_vars PROVE [Abstract!Next]_(Abstract!vars)
  OBVIOUS
<1>1. Keeps
  BY NextKeeps
<1>2. \/ Durable' = Durable
      \/ \E r \in Desktop \cup {Node}, edits \in SUBSET made' : Abstract!Learn(r, edits)
  BY <1>1, StoresIsLearn
<1>3. UNCHANGED made \/ \E e \in Edit : Abstract!Make(e)
  <2>1. ASSUME NEW d \in Desktop, NEW e \in Edit, MakeEdit(d, e) PROVE Abstract!Make(e)
    BY <2>1 DEF MakeEdit, Abstract!Make
  <2> QED BY <2>1 DEF Next, vars, Open, Close, Crash, SyncTick, SyncDone, PushReceived, AcceptSync,
               Lose, GiveUp
<1> QED BY <1>2, <1>3 DEF Abstract!Next, Abstract!vars

\* Vaults and the node's layers are replicas of the abstract specification: none
\* ever forgets an edit, or comes by one that nobody made.
THEOREM ReplicasImplemented == Spec => ImplementsReplicas
<1>1. Init => Abstract!Init
  BY SyncAssumption DEF Init, Durable, Abstract!Init
<1> QED BY <1>1, StepImplements, Invariant, PTL DEF Spec, ImplementsReplicas, Abstract!Spec

-----------------------------------------------------------------------------
(***************************************************************************)
(* Sources: an item's headers, source and document, for any desktops and   *)
(* any number of edits, threads and failing calls.  The invariant adds who *)
(* knows the item: whoever has its app open, pushes it, or is in a join    *)
(* that got past the headers.                                              *)
(***************************************************************************)
CONSTANTS Maker, None, MaxEdits, MaxCalls
VARIABLES header, src, doc, apps, nodeSrc, nodeDoc, nodeHeader, threads, pushed, edits, calls,
          failed
Items == INSTANCE Sources WITH open <- apps, faults <- failed

\* A thread that will write the source, or read it
WritesSource(t) == t.op = "push" \/ t.step \in {"call", "put"}
ItemIsKnown ==
  /\ \A d \in Desktop : apps[d] # None => d \in header
  /\ \A t \in threads : WritesSource(t) => t.who \in header

ItemsInv == Items!TypeOK /\ Items!ItemsAreWhole /\ ItemIsKnown

-----------------------------------------------------------------------------
LEMMA ItemsInit == ASSUME Items!SourcesConstants, Items!Init PROVE ItemsInv
<1>1. Items!TypeOK
  <2>1. 0 \in 0..MaxEdits /\ 0 \in 0..MaxCalls /\ 0 \in 0..MaxFaults
    BY DEF Items!SourcesConstants
  <2>2. apps \in [Desktop -> {None} \cup [src : SUBSET Items!Edit, doc : SUBSET Items!Edit]]
    BY DEF Items!Init
  <2>3. threads \subseteq Items!Thread
    BY DEF Items!Init
  <2> QED BY <2>1, <2>2, <2>3 DEF Items!Init, Items!TypeOK
<1>2. Items!ItemsAreWhole
  BY DEF Items!Init, Items!ItemsAreWhole, Items!PushedIsThere, Items!SourceHasHeader
<1>3. ItemIsKnown
  BY DEF Items!Init, ItemIsKnown
<1> QED BY <1>1, <1>2, <1>3 DEF ItemsInv

\* A set of threads of which some end and one may go on
LEMMA ThreadIs ==
  ASSUME Items!TypeOK, NEW t \in threads
  PROVE  /\ t.who \in Desktop /\ t.op \in {"push", "join"}
         /\ t.step \in {"start", "item", "call", "put"} /\ t.has \subseteq Items!Edit
         /\ t.op = "push" => t.step \in {"start", "call"}
  BY DEF Items!TypeOK, Items!Thread

\* A step of a thread that goes on
LEMMA GoesKeeps ==
  ASSUME Items!TypeOK, NEW t \in threads, NEW step, NEW has \in SUBSET Items!Edit,
         Items!Goes(t, step, has),
         \/ t.op = "push" /\ step = "call"
         \/ t.op = "join" /\ step \in {"item", "call"} /\ has = {}
         \/ t.op = "join" /\ step = "put"
  PROVE  /\ threads' \subseteq Items!Thread
         /\ \A n \in threads' : n \in threads \/ (n.who = t.who /\ n.op = t.op /\ n.step = step)
<1>1. t \in Items!Thread /\ threads \subseteq Items!Thread
  BY DEF Items!TypeOK
<1>2. [t EXCEPT !.step = step, !.has = has] \in Items!Thread
  BY <1>1 DEF Items!Thread
<1>3. LET n == [t EXCEPT !.step = step, !.has = has]
      IN  n.who = t.who /\ n.op = t.op /\ n.step = step
  BY <1>1 DEF Items!Thread
<1> QED BY <1>1, <1>2, <1>3 DEF Items!Goes

-----------------------------------------------------------------------------
\* A vault gets its headers before its source, and an open app has both.
LEMMA VaultSteps ==
  ASSUME Items!SourcesConstants, ItemsInv,
         \/ Items!Upload
         \/ \E d \in Desktop : \/ Items!EditSource(d) \/ Items!Open(d) \/ Items!Close(d)
                              \/ Items!SyncDoc(d) \/ Items!Publish(d) \/ Items!Crash(d)
  PROVE  ItemsInv'
<1> USE DEF Items!SourcesConstants, ItemsInv, Items!TypeOK, Items!ItemsAreWhole,
            Items!PushedIsThere, Items!SourceHasHeader, ItemIsKnown
<1>0. \A d \in Desktop, n \in 0..MaxEdits : <<d, n>> \in Items!Edit
  BY DEF Items!Edit
<1>1. CASE Items!Upload
  <2>1. {<<Maker, 0>>} \subseteq Items!Edit
    BY <1>0
  <2> QED BY <1>1, <2>1 DEF Items!Upload, Items!Fault, Items!onNode
<1>2. ASSUME NEW d \in Desktop, Items!EditSource(d) PROVE ItemsInv'
  <2> DEFINE base == IF apps[d] = None THEN src[d] ELSE apps[d].src
             edited == base \cup {<<d, edits[d] + 1>>}
  <2>1. /\ d \in header /\ edits' = [edits EXCEPT ![d] = @ + 1] /\ edits[d] + 1 \in 0..MaxEdits
        /\ apps' = IF apps[d] = None THEN apps ELSE [apps EXCEPT ![d].src = edited]
        /\ \/ src' = [src EXCEPT ![d] = edited] /\ failed' = failed
           \/ Items!Fault /\ src' = src
        /\ UNCHANGED <<header, doc, threads, calls, nodeSrc, nodeDoc, nodeHeader, pushed>>
    BY <1>2 DEF Items!EditSource, Items!onNode
  <2>2. edited \subseteq Items!Edit
    BY <1>0, <2>1
  <2> HIDE DEF edited
  <2>3. /\ src' \in [Desktop -> SUBSET Items!Edit] /\ \A e \in Desktop : e # d => src'[e] = src[e]
        /\ edits' \in [Desktop -> 0..MaxEdits] /\ failed' \in 0..MaxFaults
    BY <2>1, <2>2 DEF Items!Fault
  <2>4. /\ apps' \in [Desktop -> {None} \cup [src : SUBSET Items!Edit, doc : SUBSET Items!Edit]]
        /\ \A e \in Desktop : e # d => apps'[e] = apps[e]
    BY <2>1, <2>2
  <2> QED BY <2>1, <2>3, <2>4
<1>3. ASSUME NEW d \in Desktop, Items!Open(d) PROVE ItemsInv'
  <2>1. PICK reached \in BOOLEAN :
          LET found == IF doc[d] # {} THEN doc[d] ELSE Items!Pulled(d, reached)
              run == IF found = {} THEN {<<d, 0>>} ELSE found
          IN  /\ IF reached THEN UNCHANGED failed ELSE Items!Fault
              /\ apps' = [apps EXCEPT ![d] = [src |-> src[d], doc |-> run]]
              /\ doc' = [doc EXCEPT ![d] = run]
    BY <1>3 DEF Items!Open
  <2> DEFINE found == IF doc[d] # {} THEN doc[d] ELSE Items!Pulled(d, reached)
             run == IF found = {} THEN {<<d, 0>>} ELSE found
  <2>2. run \in SUBSET Items!Edit
    BY <1>0 DEF Items!Pulled
  <2>4. /\ apps' = [apps EXCEPT ![d] = [src |-> src[d], doc |-> run]]
        /\ doc' = [doc EXCEPT ![d] = run]
    BY <2>1
  <2> HIDE DEF run
  <2>3. failed' \in 0..MaxFaults
    BY <2>1 DEF Items!Fault
  <2> QED BY <1>3, <2>2, <2>3, <2>4 DEF Items!Open, Items!onNode
<1>4. ASSUME NEW d \in Desktop, Items!Close(d) PROVE ItemsInv'
  BY <1>4 DEF Items!Close, Items!onNode
<1>5. ASSUME NEW d \in Desktop, Items!SyncDoc(d) PROVE ItemsInv'
  BY <1>5 DEF Items!SyncDoc
<1>6. ASSUME NEW d \in Desktop, Items!Publish(d) PROVE ItemsInv'
  BY <1>6 DEF Items!Publish
<1>7. ASSUME NEW d \in Desktop, Items!Crash(d) PROVE ItemsInv'
  BY <1>7 DEF Items!Crash, Items!Fault, Items!onNode
<1> QED BY <1>1, <1>2, <1>3, <1>4, <1>5, <1>6, <1>7

-----------------------------------------------------------------------------
\* A push is of a vault that has the headers, and a join writes them first.
LEMMA ThreadSteps ==
  ASSUME Items!SourcesConstants, ItemsInv,
         \/ \E d \in Desktop, op \in {"join", "push"} : Items!Start(d, op)
         \/ \E t \in threads : \/ Items!PushReads(t) \/ Items!PushCalls(t)
                              \/ Items!JoinStep(t) \/ Items!Fails(t)
  PROVE  ItemsInv'
<1> USE DEF Items!SourcesConstants, ItemsInv, Items!TypeOK, Items!ItemsAreWhole,
            Items!PushedIsThere, Items!SourceHasHeader, ItemIsKnown
<1>1. ASSUME NEW d \in Desktop, NEW op \in {"join", "push"}, Items!Start(d, op) PROVE ItemsInv'
  <2> DEFINE t == [who |-> d, op |-> op, step |-> "start", has |-> {}]
  <2>1. t \in Items!Thread /\ t.who = d /\ t.op = op /\ (WritesSource(t) => op = "push")
    BY DEF Items!Thread, WritesSource
  <2>2. threads' = threads \cup {t} /\ (op = "push" => d \in header)
    BY <1>1 DEF Items!Start
  <2> HIDE DEF t
  <2>3. threads' \subseteq Items!Thread /\ \A n \in threads' : WritesSource(n) => n.who \in header
    BY <2>1, <2>2
  <2> QED BY <1>1, <2>3 DEF Items!Start, Items!onNode, WritesSource
<1>2. ASSUME NEW t \in threads, Items!PushReads(t) PROVE ItemsInv'
  <2>1. t.op = "push" /\ t.who \in Desktop /\ t.who \in header
    BY <1>2, ThreadIs DEF Items!PushReads, WritesSource
  <2>2. threads' \subseteq Items!Thread /\ \A n \in threads' : WritesSource(n) => n.who \in header
    <3>1. CASE Items!Ends(t)
      BY <3>1 DEF Items!Ends
    <3>2. CASE Items!Goes(t, "call", src[t.who])
      BY <2>1, <3>2, GoesKeeps
    <3> QED BY <1>2, <3>1, <3>2 DEF Items!PushReads
  <2> QED BY <1>2, <2>2 DEF Items!PushReads, Items!onNode, WritesSource
<1>3. ASSUME NEW t \in threads, Items!PushCalls(t) PROVE ItemsInv'
  <2>1. t.has \subseteq Items!Edit
    BY ThreadIs
  <2>2. /\ threads' = threads \ {t} /\ nodeSrc' = nodeSrc \cup t.has /\ pushed' = pushed \cup t.has
        /\ UNCHANGED <<header, src, doc, apps, nodeDoc, nodeHeader, edits, calls, failed>>
    BY <1>3 DEF Items!PushCalls, Items!Ends, Items!NodeMerges
  <2> QED BY <2>1, <2>2 DEF WritesSource
<1>4. ASSUME NEW t \in threads, Items!JoinStep(t) PROVE ItemsInv'
  <2>1. /\ t.op = "join" /\ t.who \in Desktop /\ t.has \subseteq Items!Edit
        /\ t.step \in {"start", "item", "call", "put"}
        /\ UNCHANGED <<doc, apps, edits, calls, failed, nodeSrc, nodeDoc, nodeHeader, pushed>>
    BY <1>4, ThreadIs DEF Items!JoinStep, Items!onNode
  <2>2. header \subseteq header' /\ header' \subseteq Desktop
    BY <1>4, <2>1 DEF Items!JoinStep, Items!HeadersFirst
  <2>3. CASE t.step = "put"
    <3>1. threads' = threads \ {t} /\ src' = [src EXCEPT ![t.who] = t.has] /\ t.who \in header
      BY <1>4, <2>1, <2>3 DEF Items!JoinStep, Items!Ends, WritesSource
    <3> QED BY <2>1, <2>2, <3>1 DEF WritesSource
  <2>4. CASE t.step # "put"
    <3>1. /\ src' = src /\ Items!Goes(t, Items!After(t), IF t.step = "call" THEN nodeSrc ELSE {})
          /\ header' = Items!HeadersFirst(t)
      BY <1>4, <2>4 DEF Items!JoinStep
    <3>2. Items!After(t) \in {"item", "call", "put"} /\ (Items!After(t) # "put" => t.step # "call")
      BY <2>1, <2>4 DEF Items!After
    <3>3. /\ threads' \subseteq Items!Thread
          /\ \A n \in threads' :
               n \in threads \/ (n.who = t.who /\ n.op = "join" /\ n.step = Items!After(t))
      BY <2>1, <3>1, <3>2, GoesKeeps
    <3>4. Items!After(t) \in {"call", "put"} => t.who \in header'
      BY <2>1, <2>2, <2>4, <3>1 DEF Items!After, Items!HeadersFirst, WritesSource
    <3>5. \A n \in threads' : WritesSource(n) => n.who \in header'
      BY <2>2, <3>3, <3>4 DEF WritesSource
    <3> QED BY <2>1, <2>2, <3>1, <3>3, <3>5 DEF WritesSource
  <2> QED BY <2>3, <2>4
<1>5. ASSUME NEW t \in threads, Items!Fails(t) PROVE ItemsInv'
  BY <1>5 DEF Items!Fails, Items!Fault, Items!Ends, Items!onNode, WritesSource
<1> QED BY <1>1, <1>2, <1>3, <1>4, <1>5

LEMMA ItemsInvariant == ASSUME Items!SourcesConstants PROVE Items!Spec => []ItemsInv
<1>1. Items!Init => ItemsInv
  BY ItemsInit
<1>2. ItemsInv /\ [Items!Next]_(Items!vars) => ItemsInv'
  <2> SUFFICES ASSUME ItemsInv, [Items!Next]_(Items!vars) PROVE ItemsInv'
    OBVIOUS
  <2>1. CASE UNCHANGED Items!vars
    BY <2>1 DEF Items!vars, ItemsInv, Items!TypeOK, Items!ItemsAreWhole, Items!PushedIsThere,
                Items!SourceHasHeader, ItemIsKnown, WritesSource
  <2>2. CASE Items!Next
    BY <2>2, VaultSteps, ThreadSteps DEF Items!Next
  <2> QED BY <2>1, <2>2
<1> QED BY <1>1, <1>2, PTL DEF Items!Spec

\* Vaults, apps, the node and its threads hold edits, within the bounds.
THEOREM ItemsTypeCorrect == ASSUME Items!SourcesConstants PROVE Items!Spec => []Items!TypeOK
<1>1. ItemsInv => Items!TypeOK
  BY DEF ItemsInv
<1> QED BY <1>1, ItemsInvariant, PTL

\* What somebody was told is pushed is on the node, and no vault has a source
\* without its headers: joining writes the headers, then the source, and may
\* end anywhere between (join_item, push_src).
THEOREM WholeCorrect == ASSUME Items!SourcesConstants PROVE Items!Spec => []Items!ItemsAreWhole
<1>1. ItemsInv => Items!ItemsAreWhole
  BY DEF ItemsInv
<1> QED BY <1>1, ItemsInvariant, PTL

\* A desktop that reached the node does not seed a document the node has: it
\* opens with its own, or with the node's (open_tab, resolver_with_node).
THEOREM SeedsAreFirst == ASSUME Items!SourcesConstants PROVE Items!Spec => Items!SeededBefore
<1> DEFINE Seeds == failed' = failed =>
             \A d \in Desktop : (apps[d] = None /\ apps'[d] # None /\ nodeDoc # {})
                                  => (<<d, 0>> \in doc'[d] => <<d, 0>> \in doc[d] \cup nodeDoc)
<1>1. ItemsInv /\ [Items!Next]_(Items!vars) => [Seeds]_(Items!vars)
  <2> SUFFICES ASSUME ItemsInv, Items!Next, failed' = failed, NEW d \in Desktop,
                      apps[d] = None, apps'[d] # None, nodeDoc # {}, <<d, 0>> \in doc'[d]
               PROVE  <<d, 0>> \in doc[d] \cup nodeDoc
    OBVIOUS
  <2>1. /\ apps \in [Desktop -> {None} \cup [src : SUBSET Items!Edit, doc : SUBSET Items!Edit]]
        /\ doc \in [Desktop -> SUBSET Items!Edit] /\ failed \in Nat
    BY DEF ItemsInv, Items!TypeOK
  <2>2. Items!Open(d)
    BY <2>1 DEF Items!Next, Items!Upload, Items!EditSource, Items!Open, Items!Close, Items!SyncDoc,
                Items!Publish, Items!Crash, Items!Start, Items!PushReads, Items!PushCalls,
                Items!JoinStep, Items!Fails
  <2> QED BY <2>1, <2>2 DEF Items!Open, Items!Pulled, Items!Fault
<1> QED BY <1>1, ItemsInvariant, PTL DEF Items!Spec, Items!SeededBefore

-----------------------------------------------------------------------------
(***************************************************************************)
(* SearchIndex: an item's search index, for any documents, records and     *)
(* index.luas.  The invariant says of the fingerprints a next plan goes by *)
(* - staged, or sealed, or after a crash those of before - that what they  *)
(* let it skip is in the writer, and of the files that they are those of   *)
(* some plan of the document as it was.                                    *)
(***************************************************************************)
CONSTANTS Docs, Names, Values, Texts, Broken, Closed, NoIndex, Faults
VARIABLES text, live, stored, ix, files, prints, hist, left
S == INSTANCE SearchIndex WITH vault <- stored

\* The fingerprints of a document, one of a record and named for it
WellFormed(p) ==
  /\ p.of \subseteq S!IdSet \X (Names \X Values)
  /\ \A x \in p.of : x[1][2] = x[2][1]
  /\ \A x, y \in p.of : x[2][1] = y[2][1] => x = y

\* What a plan may skip, by the fingerprints, the records hold
Good(p, recs, d, fails) ==
  \A x \in p.of :
    IF S!IsText(p.rest[2].says[x[2][2]])
    THEN <<d, x[1], <<p.rest[2].says[x[2][2]], p.rest[1]>>>> \in recs
    ELSE <<d, x[1]>> \in fails \/ \A r \in recs : r[1] = d => r[2] # x[1]

\* No record is of what has no fingerprint, unless it failed.
NoOrphans(p, recs, d, fails) ==
  \A r \in recs : r[1] = d => r[2] \in S!Ids(p.of) \/ <<d, r[2]>> \in fails
Right(p, recs, d, fails) ==
  WellFormed(p) /\ Good(p, recs, d, fails) /\ NoOrphans(p, recs, d, fails)

\* The fingerprints are those of a document as a spec plans it.
PlanFor(p, d, c, spec, fails) ==
  /\ p.rest = S!Rest(spec, c)
  /\ \A x \in p.of : \E n \in S!There(c) :
       x[2] = S!Fp(c, n) /\ (S!Keyed(spec, c, n) \/ <<d, S!Key(spec, n)>> \in fails)
  /\ \A n \in S!There(c) :
       S!Keyed(spec, c, n) /\ S!Said(spec, c, n) # "error" => S!Seen(p, S!Fp(c, n))

\* The fingerprints the next plan of a document goes by
Marks(i, stamps, d) == IF i.staged[d] # None THEN i.staged[d] ELSE stamps[d]
HasIndex == ix \notin {Closed, NoIndex}
Now(d) == IF HasIndex THEN Marks(ix, prints, d) ELSE prints[d]

\* A crash left the index files ahead of a document's fingerprints: the next
\* opening plans the document as it was planned then.
PendingAt(t, held, recs, stamps, fails, d) ==
  /\ held[d] # None /\ t \in S!Specs /\ d \in t.covers \ t.bad /\ WellFormed(S!Parsed(stamps[d]))
  /\ Right(S!Plan(t, held[d], S!Parsed(stamps[d])).prints, recs, d, fails)

Unique(recs) == \A r, s \in recs : r[1] = s[1] /\ r[2] = s[2] => r = s

HistTypes(h) ==
  /\ h = [planned |-> h.planned, upto |-> h.upto, failed |-> h.failed, ran |-> h.ran]
  /\ h.planned \in [Docs -> (S!Contents \X S!Specs) \cup {None}]
  /\ h.upto \in [Docs -> (S!Contents \X S!Specs) \cup {None}]
DiskTypes(recs, stamps) ==
  /\ recs \in SUBSET S!Record /\ Unique(recs)
  /\ stamps \in [Docs -> S!Fingerprints \cup {None}]
Types ==
  /\ text \in Texts
  /\ live \in [Docs -> S!Contents \cup {None}] /\ stored \in [Docs -> S!Contents \cup {None}]
  /\ ix \in S!Index \cup {Closed, NoIndex}
  /\ DiskTypes(files, prints) /\ HistTypes(hist)
  /\ left \in 0..MaxEdits

\* What is in memory is what is saved.
Mirrors(l, held) ==
  \A d \in Docs : l[d] # None => l[d] = held[d] \/ (held[d] = None /\ l[d] = S!Nothing)
Saved ==
  /\ ix = Closed => \A d \in Docs : live[d] = None
  /\ Mirrors(live, stored)

\* An index is what the files and the fingerprints make of it, and what is staged.
IndexIs(i, recs, stamps, h) ==
  /\ i.spec = i.src /\ i.src # Broken /\ Unique(i.writer)
  /\ \A d \in Docs :
       /\ Right(S!Parsed(Marks(i, stamps, d)), i.writer, d, h.failed)
       /\ i.staged[d] # None => h.planned[d] # None
       /\ i.staged[d] = None => \A r : r[1] = d => (r \in i.writer <=> r \in recs)
  /\ "crash" \in Faults => i.staged = S!Unstaged /\ i.writer = recs /\ ~i.dirty

\* What is sealed may be planned by, or is what a crash left.
StoredIs(t, held, recs, stamps, fails, closed) ==
  /\ \A d \in Docs :
       \/ Right(S!Parsed(stamps[d]), recs, d, fails)
       \/ "crash" \in Faults /\ closed /\ PendingAt(t, held, recs, stamps, fails, d)
  /\ "crash" \in Faults => \A d \in Docs : held[d] = None =>
       S!Parsed(stamps[d]).of = {} /\ Right(S!Parsed(stamps[d]), recs, d, fails)

PlannedIs(marks, h) ==
  \A d \in Docs : h.planned[d] # None =>
    marks[d] # None /\ PlanFor(marks[d], d, h.planned[d][1], h.planned[d][2], h.failed)

UptoIs(recs, h) ==
  \A d \in Docs : h.upto[d] # None =>
    \E p \in S!Fingerprints : /\ Right(p, recs, d, h.failed)
                              /\ PlanFor(p, d, h.upto[d][1], h.upto[d][2], h.failed)

SearchInv ==
  /\ Types /\ Saved
  /\ HasIndex => IndexIs(ix, files, prints, hist)
  /\ StoredIs(text, stored, files, prints, hist.failed, ix = Closed)
  /\ PlannedIs([d \in Docs |-> Now(d)], hist) /\ UptoIs(files, hist)

-----------------------------------------------------------------------------
\* A plan, by the names it is about: whom it lists, for whom fields runs and fails.
IdOf(spec, prev, c, n) == S!Id(spec, prev, S!Fp(c, n))
Listed(spec, c, prev) ==
  {n \in S!There(c) : S!Seen(prev, S!Fp(c, n)) \/ S!Keyed(spec, c, n)}
Ran(spec, c, prev) ==
  {n \in Listed(spec, c, prev) :
     S!Full(spec, c, prev) \/ <<IdOf(spec, prev, c, n), S!Fp(c, n)>> \notin prev.of}
Failing(spec, c, prev) == {n \in Ran(spec, c, prev) : S!Said(spec, c, n) = "error"}
FailedIds(spec, c, prev) == {IdOf(spec, prev, c, n) : n \in Failing(spec, c, prev)}

PlanMade(spec, c, prev, p) ==
  /\ p.ran = Ran(spec, c, prev)
    /\ p.prints = [rest |-> S!Rest(spec, c),
                   of |-> {<<IdOf(spec, prev, c, n), S!Fp(c, n)>> :
                             n \in {m \in Listed(spec, c, prev) :
                                      IdOf(spec, prev, c, m) \notin FailedIds(spec, c, prev)}}]
    /\ p.upserts = {<<IdOf(spec, prev, c, n), <<S!Said(spec, c, n), c.rest>>>> :
                      n \in {m \in Ran(spec, c, prev) : S!IsText(S!Said(spec, c, m))}}
    /\ p.deletes = {IdOf(spec, prev, c, n) :
                      n \in {m \in Ran(spec, c, prev) :
                               /\ S!Said(spec, c, m) = "nil"
                               /\ IdOf(spec, prev, c, m) \in S!Ids(prev.of)}}
                     \cup S!Vanished(prev, p.prints.of, FailedIds(spec, c, prev))
    /\ p.failed = FailedIds(spec, c, prev)
                    \cup {S!Key(spec, n) : n \in {m \in S!There(c) : ~S!Keyed(spec, c, m)}}

LEMMA PlanIs ==
  ASSUME NEW spec, NEW c, NEW prev, NEW p, p = S!Plan(spec, c, prev)
  PROVE  PlanMade(spec, c, prev, p)
<1> DEFINE next == {<<IdOf(spec, prev, c, n), S!Fp(c, n)>> :
                      n \in {m \in Listed(spec, c, prev) :
                               IdOf(spec, prev, c, m) \notin FailedIds(spec, c, prev)}}
<1>1. p = [upserts |-> {<<IdOf(spec, prev, c, n), <<S!Said(spec, c, n), c.rest>>>> :
                           n \in {m \in Ran(spec, c, prev) : S!IsText(S!Said(spec, c, m))}},
           deletes |-> {IdOf(spec, prev, c, n) :
                           n \in {m \in Ran(spec, c, prev) :
                                    /\ S!Said(spec, c, m) = "nil"
                                    /\ IdOf(spec, prev, c, m) \in S!Ids(prev.of)}}
                          \cup S!Vanished(prev, next, FailedIds(spec, c, prev)),
           prints  |-> [rest |-> S!Rest(spec, c), of |-> next],
           failed  |-> FailedIds(spec, c, prev)
                         \cup {S!Key(spec, n) : n \in {m \in S!There(c) : ~S!Keyed(spec, c, m)}},
           ran     |-> Ran(spec, c, prev)]
  BY DEF S!Plan, Listed, Ran, Failing, FailedIds, IdOf
<1> QED BY <1>1 DEF PlanMade

\* A fingerprint is of the record it is planned for; the id it got stays its id.
IdsKept(spec, c, prev, n) ==
  /\ S!Fp(c, n) = <<n, c.els[n]>> /\ S!Fp(c, n) \in Names \X Values
  /\ IdOf(spec, prev, c, n) \in S!IdSet /\ IdOf(spec, prev, c, n)[2] = n
  /\ S!Seen(prev, S!Fp(c, n)) => <<IdOf(spec, prev, c, n), S!Fp(c, n)>> \in prev.of
  /\ ~S!Seen(prev, S!Fp(c, n)) => IdOf(spec, prev, c, n) = S!Key(spec, n)
LEMMA IdIs ==
  ASSUME NEW spec \in S!Specs, NEW c \in S!Contents, NEW prev, WellFormed(prev),
         NEW n \in S!There(c)
  PROVE  IdsKept(spec, c, prev, n)
<1>1. PICK fp : fp = S!Fp(c, n)
  OBVIOUS
<1>2. PICK id : id = IdOf(spec, prev, c, n)
  OBVIOUS
<1>3. fp = <<n, c.els[n]>> /\ fp \in Names \X Values
  BY <1>1 DEF S!Fp, S!There, S!Contents
<1>4. CASE S!Seen(prev, fp)
  <2>1. PICK x : x = CHOOSE p \in prev.of : p[2] = fp
    OBVIOUS
  <2>2. x \in prev.of /\ x[2] = fp
    BY <1>4, <2>1 DEF S!Seen
  <2>3. id = x[1]
    BY <1>1, <1>2, <1>4, <2>1 DEF IdOf, S!Id, S!Seen
  <2>4. x = <<x[1], x[2]>> /\ x[1] \in S!IdSet /\ x[1][2] = x[2][1]
    BY <2>2 DEF WellFormed
  <2> QED BY <1>1, <1>2, <1>3, <1>4, <2>2, <2>3, <2>4 DEF IdsKept
<1>5. CASE ~S!Seen(prev, fp)
  <2>1. id = S!Key(spec, n)
    BY <1>1, <1>2, <1>3, <1>5 DEF IdOf, S!Id, S!Seen, S!Key
  <2>2. n \in Names
    BY DEF S!There
  <2>3. id \in S!IdSet /\ id[2] = n
    BY <2>1, <2>2 DEF S!IdSet, S!Key
  <2> QED BY <1>1, <1>2, <1>3, <1>5, <2>1, <2>3 DEF IdsKept
<1> QED BY <1>4, <1>5

\* The fingerprints of a plan
MarksMade(spec, c, prev, p, d, fails) ==
  /\ p.prints \in S!Fingerprints /\ WellFormed(p.prints)
  /\ p.prints.rest = S!Rest(spec, c)
  /\ \A n \in Listed(spec, c, prev) \ Failing(spec, c, prev) :
       <<IdOf(spec, prev, c, n), S!Fp(c, n)>> \in p.prints.of
  /\ \A x \in p.prints.of : \E n \in Listed(spec, c, prev) \ Failing(spec, c, prev) :
       x = <<IdOf(spec, prev, c, n), S!Fp(c, n)>>
  /\ PlanFor(p.prints, d, c, spec, fails)

LEMMA MarksAre ==
  ASSUME NEW spec \in S!Specs, NEW c \in S!Contents, NEW prev, WellFormed(prev),
         NEW p, p = S!Plan(spec, c, prev), NEW d, NEW fails, \A x \in p.failed : <<d, x>> \in fails
  PROVE  MarksMade(spec, c, prev, p, d, fails)
<1>0. \A n \in S!There(c) : IdsKept(spec, c, prev, n)
  BY IdIs
<1> DEFINE L == Listed(spec, c, prev)
           F == Failing(spec, c, prev)
           id(n) == IdOf(spec, prev, c, n)
           fp(n) == S!Fp(c, n)
<1>1. p.prints = [rest |-> S!Rest(spec, c),
                  of |-> {<<id(n), fp(n)>> : n \in {m \in L : id(m) \notin FailedIds(spec, c, prev)}}]
  <2>1. PlanMade(spec, c, prev, p)
    BY PlanIs
  <2> QED BY <2>1 DEF PlanMade
<1>2. L \subseteq S!There(c) /\ F \subseteq L
  BY DEF Listed, Failing, Ran
<1>3. \A n \in L : /\ fp(n) = <<n, c.els[n]>> /\ fp(n) \in Names \X Values
                   /\ id(n) \in S!IdSet /\ id(n)[2] = n
  BY <1>0, <1>2 DEF IdsKept
<1>4. \A n \in L : id(n) \in FailedIds(spec, c, prev) <=> n \in F
  BY <1>2, <1>3 DEF FailedIds
<1> HIDE DEF L, F, id, fp
<1>5. /\ p.prints.rest = S!Rest(spec, c)
      /\ \A n \in L \ F : <<id(n), fp(n)>> \in p.prints.of
      /\ \A x \in p.prints.of : \E n \in L \ F : x = <<id(n), fp(n)>>
  BY <1>1, <1>4
<1>6. p.prints.of \subseteq S!IdSet \X (Names \X Values)
  BY <1>3, <1>5
<1>7. p.prints \in S!Fingerprints
  <2>1. S!Rest(spec, c) \in S!Rests \X S!Specs
    BY DEF S!Rest, S!Contents
  <2>2. PICK of : of = p.prints.of
    OBVIOUS
  <2>3. p.prints = [rest |-> S!Rest(spec, c), of |-> of]
    BY <1>1, <2>2
  <2> QED BY <1>6, <2>1, <2>2, <2>3 DEF S!Fingerprints
<1>8. WellFormed(p.prints)
  <2>1. \A x \in p.prints.of : x[1][2] = x[2][1]
    BY <1>3, <1>5
  <2>2. ASSUME NEW x \in p.prints.of, NEW y \in p.prints.of, x[2][1] = y[2][1]
        PROVE  x = y
    <3>1. PICK n \in L \ F : x = <<id(n), fp(n)>>
      BY <1>5
    <3>2. PICK m \in L \ F : y = <<id(m), fp(m)>>
      BY <1>5
    <3>3. n = m
      BY <1>3, <2>2, <3>1, <3>2
    <3> QED BY <3>1, <3>2, <3>3
  <2> QED BY <1>6, <2>1, <2>2 DEF WellFormed
<1>9. PlanFor(p.prints, d, c, spec, fails)
  <2>1. ASSUME NEW x \in p.prints.of
        PROVE  \E n \in S!There(c) :
                 x[2] = S!Fp(c, n) /\ (S!Keyed(spec, c, n) \/ <<d, S!Key(spec, n)>> \in fails)
    <3>1. PICK n \in L \ F : x = <<id(n), fp(n)>>
      BY <1>5
    <3>2. n \in S!There(c) /\ x[2] = S!Fp(c, n)
      BY <1>2, <3>1 DEF fp
    <3>3. S!Keyed(spec, c, n) \/ S!Key(spec, n) \in p.failed
      <4>1. p.failed = FailedIds(spec, c, prev)
                         \cup {S!Key(spec, m) : m \in {k \in S!There(c) : ~S!Keyed(spec, c, k)}}
        <5>1. PlanMade(spec, c, prev, p)
          BY PlanIs
        <5> QED BY <5>1 DEF PlanMade
      <4> QED BY <3>2, <4>1
    <3> QED BY <3>2, <3>3
  <2>2. ASSUME NEW n \in S!There(c), S!Keyed(spec, c, n), S!Said(spec, c, n) # "error"
        PROVE  S!Seen(p.prints, S!Fp(c, n))
    <3>1. n \in L \ F
      BY <2>2 DEF L, F, Listed, Failing
    <3>2. <<id(n), fp(n)>> \in p.prints.of
      BY <1>5, <3>1
    <3> QED BY <3>2 DEF S!Seen, fp
  <2> QED BY <1>5, <2>1, <2>2 DEF PlanFor
<1> QED BY <1>5, <1>7, <1>8, <1>9 DEF MarksMade, L, F, id, fp

\* A plan leaves no record of the ids it deletes and writes those it upserts.
LEMMA WrittenIs ==
  ASSUME NEW recs, NEW plans, NEW d \in DOMAIN plans, NEW p, p = plans[d],
         NEW after, after = S!Written(recs, plans)
  PROVE  /\ \A r \in recs : r[1] = d /\ r[2] \notin p.deletes /\ (\A u \in p.upserts : u[1] # r[2])
                              => r \in after
         /\ \A u \in p.upserts : <<d, u[1], u[2]>> \in after
         /\ \A r \in after : r[1] = d =>
              \/ r \in recs /\ r[2] \notin p.deletes /\ \A u \in p.upserts : u[1] # r[2]
              \/ \E u \in p.upserts : r = <<d, u[1], u[2]>>
<1> DEFINE new == UNION {{<<e, u[1], u[2]>> : u \in plans[e].upserts} : e \in DOMAIN plans}
           kept == {r \in recs : \/ r[1] \notin DOMAIN plans
                                 \/ r[2] \notin plans[r[1]].deletes \cup {u[1] : u \in plans[r[1]].upserts}}
<1>1. after = kept \cup new
  BY DEF S!Written
<1>2. \A r : r \in new <=> \E e \in DOMAIN plans : \E u \in plans[e].upserts : r = <<e, u[1], u[2]>>
  OBVIOUS
<1>3. \A r \in recs : r[1] = d => (r \in kept <=> r[2] \notin p.deletes /\ \A u \in p.upserts : u[1] # r[2])
  OBVIOUS
<1>4. \A r \in kept : r \in recs
  OBVIOUS
<1> HIDE DEF new, kept
<1>5. \A u \in p.upserts : <<d, u[1], u[2]>> \in after
  BY <1>1, <1>2
<1>6. \A r \in after : r[1] = d =>
        \/ r \in recs /\ r[2] \notin p.deletes /\ \A u \in p.upserts : u[1] # r[2]
        \/ \E u \in p.upserts : r = <<d, u[1], u[2]>>
  <2> SUFFICES ASSUME NEW r \in after, r[1] = d
               PROVE  \/ r \in recs /\ r[2] \notin p.deletes /\ \A u \in p.upserts : u[1] # r[2]
                      \/ \E u \in p.upserts : r = <<d, u[1], u[2]>>
    OBVIOUS
  <2>1. CASE r \in kept
    BY <1>3, <1>4, <2>1
  <2>2. CASE r \in new
    <3>1. PICK e \in DOMAIN plans : \E u \in plans[e].upserts : r = <<e, u[1], u[2]>>
      BY <1>2, <2>2
    <3>2. e = d
      BY <3>1
    <3> QED BY <3>1, <3>2
  <2> QED BY <1>1, <2>1, <2>2
<1> QED BY <1>1, <1>3, <1>5, <1>6

\* What a plan by the fingerprints prev has to find in the records: what it
\* skips, nothing of a record that says nil and had no fingerprint, nothing of
\* what no fingerprint is of.
Ready(spec, c, prev, p, recs, d, fails) ==
  /\ \A n \in Listed(spec, c, prev) \ Ran(spec, c, prev) :
       IF S!IsText(S!Said(spec, c, n))
       THEN <<d, IdOf(spec, prev, c, n), <<S!Said(spec, c, n), c.rest>>>> \in recs
       ELSE \/ <<d, IdOf(spec, prev, c, n)>> \in fails
            \/ \A r \in recs : r[1] = d => r[2] # IdOf(spec, prev, c, n)
  /\ \A n \in Ran(spec, c, prev) :
       S!Said(spec, c, n) = "nil" /\ IdOf(spec, prev, c, n) \notin S!Ids(prev.of) =>
         \/ <<d, IdOf(spec, prev, c, n)>> \in fails
         \/ \A r \in recs : r[1] = d => r[2] # IdOf(spec, prev, c, n)
  /\ \A r \in recs : r[1] = d =>
       r[2] \in S!Ids(prev.of) \/ r[2] \in S!Ids(p.prints.of) \/ <<d, r[2]>> \in fails

\* The records a plan makes are what its fingerprints claim.
LEMMA PlanRight ==
  ASSUME NEW spec \in S!Specs, NEW c \in S!Contents, NEW prev, WellFormed(prev),
         NEW p, p = S!Plan(spec, c, prev), NEW d, NEW fails, \A x \in p.failed : <<d, x>> \in fails,
         NEW recs, Ready(spec, c, prev, p, recs, d, fails),
         NEW plans, d \in DOMAIN plans, p = plans[d], NEW after, after = S!Written(recs, plans)
  PROVE  Right(p.prints, after, d, fails)
<1>0. \A n \in S!There(c) : IdsKept(spec, c, prev, n)
  BY IdIs
<1>1. /\ WellFormed(p.prints) /\ p.prints.rest = S!Rest(spec, c)
      /\ \A n \in Listed(spec, c, prev) \ Failing(spec, c, prev) :
           <<IdOf(spec, prev, c, n), S!Fp(c, n)>> \in p.prints.of
      /\ \A x \in p.prints.of : \E n \in Listed(spec, c, prev) \ Failing(spec, c, prev) :
           x = <<IdOf(spec, prev, c, n), S!Fp(c, n)>>
  <2>1. MarksMade(spec, c, prev, p, d, fails)
    BY MarksAre
  <2> QED BY <2>1 DEF MarksMade
<1>2. /\ p.upserts = {<<IdOf(spec, prev, c, n), <<S!Said(spec, c, n), c.rest>>>> :
                        n \in {m \in Ran(spec, c, prev) : S!IsText(S!Said(spec, c, m))}}
      /\ p.deletes = {IdOf(spec, prev, c, n) :
                        n \in {m \in Ran(spec, c, prev) :
                                 /\ S!Said(spec, c, m) = "nil"
                                 /\ IdOf(spec, prev, c, m) \in S!Ids(prev.of)}}
                       \cup S!Vanished(prev, p.prints.of, FailedIds(spec, c, prev))
      /\ FailedIds(spec, c, prev) \subseteq p.failed
  <2>1. PlanMade(spec, c, prev, p)
    BY PlanIs
  <2> QED BY <2>1 DEF PlanMade
<1>3. /\ \A r \in recs : r[1] = d /\ r[2] \notin p.deletes /\ (\A u \in p.upserts : u[1] # r[2])
                           => r \in after
      /\ \A u \in p.upserts : <<d, u[1], u[2]>> \in after
      /\ \A r \in after : r[1] = d =>
           \/ r \in recs /\ r[2] \notin p.deletes /\ \A u \in p.upserts : u[1] # r[2]
           \/ \E u \in p.upserts : r = <<d, u[1], u[2]>>
  BY WrittenIs
<1>4. Listed(spec, c, prev) \subseteq S!There(c) /\ Ran(spec, c, prev) \subseteq Listed(spec, c, prev)
  BY DEF Listed, Ran
<1> DEFINE L == Listed(spec, c, prev)
           R == Ran(spec, c, prev)
           F == Failing(spec, c, prev)
           id(n) == IdOf(spec, prev, c, n)
           said(n) == S!Said(spec, c, n)
           of == p.prints.of
<1>5. \A n \in L : /\ S!Fp(c, n) = <<n, c.els[n]>>
                   /\ \A m \in L : id(m) = id(n) => m = n
  BY <1>0, <1>4 DEF IdsKept
<1>6. \A n \in L \ F : <<id(n), S!Fp(c, n)>> \in of /\ id(n) \in S!Ids(of)
  <2>1. \A n \in L \ F : <<id(n), S!Fp(c, n)>> \in of
    BY <1>1
  <2> QED BY <2>1 DEF S!Ids
<1>7. \A n \in R : S!IsText(said(n)) =>
        <<id(n), <<said(n), c.rest>>>> \in p.upserts /\ n \notin F
  BY <1>2 DEF S!IsText, Failing
<1>8. \A u \in p.upserts : \E n \in R : S!IsText(said(n)) /\ u[1] = id(n)
  BY <1>2
<1>9. \A x \in p.deletes : x \notin S!Ids(of) \/ \E n \in R : said(n) = "nil" /\ x = id(n)
  BY <1>2 DEF S!Vanished
<1>10. \A n \in R : said(n) = "nil" /\ id(n) \in S!Ids(prev.of) => id(n) \in p.deletes
  BY <1>2
<1>11. \A x \in S!Ids(prev.of) : x \in S!Ids(of) \/ <<d, x>> \in fails \/ x \in p.deletes
  BY <1>2 DEF S!Vanished
<1>12. /\ \A n \in L \ R :
            IF S!IsText(said(n))
            THEN <<d, id(n), <<said(n), c.rest>>>> \in recs
            ELSE <<d, id(n)>> \in fails \/ \A r \in recs : r[1] = d => r[2] # id(n)
       /\ \A n \in R : said(n) = "nil" /\ id(n) \notin S!Ids(prev.of) =>
            <<d, id(n)>> \in fails \/ \A r \in recs : r[1] = d => r[2] # id(n)
       /\ \A r \in recs : r[1] = d =>
            r[2] \in S!Ids(prev.of) \/ r[2] \in S!Ids(of) \/ <<d, r[2]>> \in fails
  BY DEF Ready
<1>13. \A n \in R \ F : said(n) # "error"
  BY DEF Failing
<1>14. \A n \in L \ F : \A r \in after : r[1] = d /\ r[2] = id(n) /\ ~(n \in R /\ S!IsText(said(n))) =>
         r \in recs /\ id(n) \notin p.deletes
  <2> SUFFICES ASSUME NEW n \in L \ F, NEW r \in after, r[1] = d, r[2] = id(n),
                      ~(n \in R /\ S!IsText(said(n))), NEW u \in p.upserts, r = <<d, u[1], u[2]>>
               PROVE  FALSE
    <3> HIDE DEF L, R, F, id, said, of
    <3> QED BY <1>3
  <2>1. PICK m \in R : S!IsText(said(m)) /\ u[1] = id(m)
    BY <1>8
  <2>2. m = n
    <3>1. r[2] = u[1]
      OBVIOUS
    <3> QED BY <1>4, <1>5, <2>1, <3>1
  <2> QED BY <2>1, <2>2
<1>15. Good(p.prints, after, d, fails)
  <2> SUFFICES ASSUME NEW x \in of
               PROVE  IF S!IsText(p.prints.rest[2].says[x[2][2]])
                      THEN <<d, x[1], <<p.prints.rest[2].says[x[2][2]], p.prints.rest[1]>>>> \in after
                      ELSE <<d, x[1]>> \in fails \/ \A r \in after : r[1] = d => r[2] # x[1]
    BY DEF Good
  <2>1. PICK n \in L \ F : x = <<id(n), S!Fp(c, n)>>
    BY <1>1
  <2>2. p.prints.rest[2].says[x[2][2]] = said(n) /\ p.prints.rest[1] = c.rest /\ x[1] = id(n)
    BY <1>1, <1>5, <2>1 DEF S!Rest, S!Said
  <2> HIDE DEF L, R, F, id, said, of
  <2> SUFFICES IF S!IsText(said(n))
               THEN <<d, id(n), <<said(n), c.rest>>>> \in after
               ELSE <<d, id(n)>> \in fails \/ \A r \in after : r[1] = d => r[2] # id(n)
    BY <2>2
  <2>3. CASE S!IsText(said(n)) /\ n \in R
    <3>1. PICK u \in p.upserts : u = <<id(n), <<said(n), c.rest>>>>
      BY <1>7, <2>3
    <3>2. <<d, u[1], u[2]>> \in after
      BY <1>3
    <3> QED BY <2>3, <3>1, <3>2
  <2>4. CASE S!IsText(said(n)) /\ n \notin R
    <3>1. PICK r \in recs : r = <<d, id(n), <<said(n), c.rest>>>>
      BY <1>12, <2>4
    <3>2. \A m \in R : id(m) # id(n)
      BY <1>4, <1>5, <2>4 DEF L, R
    <3>3. id(n) \notin p.deletes
      BY <1>6, <1>9, <3>2
    <3>4. \A u \in p.upserts : u[1] # id(n)
      BY <1>8, <3>2
    <3>5. r[1] = d /\ r[2] = id(n)
      BY <3>1
    <3>6. r \in after
      BY <1>3, <3>3, <3>4, <3>5
    <3> QED BY <2>4, <3>1, <3>6
  <2>5. CASE ~S!IsText(said(n)) /\ n \notin R
    BY <1>12, <1>14, <2>5
  <2>6. CASE ~S!IsText(said(n)) /\ n \in R
    <3>1. said(n) = "nil"
      BY <1>13, <2>6 DEF S!IsText
    <3> QED BY <1>10, <1>12, <1>14, <2>6, <3>1
  <2> QED BY <2>3, <2>4, <2>5, <2>6
<1>16. NoOrphans(p.prints, after, d, fails)
  <2> SUFFICES ASSUME NEW r \in after, r[1] = d
               PROVE  r[2] \in S!Ids(of) \/ <<d, r[2]>> \in fails
    BY DEF NoOrphans
  <2> HIDE DEF L, R, F, id, said, of
  <2>1. CASE r \in recs /\ r[2] \notin p.deletes
    BY <1>11, <1>12, <2>1
  <2>2. ASSUME NEW u \in p.upserts, r = <<d, u[1], u[2]>>
        PROVE  r[2] \in S!Ids(of)
    <3>1. PICK n \in R : S!IsText(said(n)) /\ u[1] = id(n)
      BY <1>8
    <3>2. n \in L \ F
      BY <1>4, <1>7, <3>1 DEF L, R
    <3>3. r[2] = u[1]
      BY <2>2
    <3> QED BY <1>6, <3>1, <3>2, <3>3
  <2> QED BY <1>3, <2>1, <2>2
<1> QED BY <1>1, <1>15, <1>16 DEF Right

\* Failures only add up: what is right stays right, and depends on a document's
\* records alone.
LEMMA RightStays ==
  ASSUME NEW p, NEW recs, NEW d, NEW fails, Right(p, recs, d, fails), NEW more, fails \subseteq more,
         NEW now, \A r : r[1] = d => (r \in now <=> r \in recs)
  PROVE  Right(p, now, d, more)
<1>1. Good(p, now, d, more)
  <2> SUFFICES ASSUME NEW x \in p.of
               PROVE  IF S!IsText(p.rest[2].says[x[2][2]])
                      THEN <<d, x[1], <<p.rest[2].says[x[2][2]], p.rest[1]>>>> \in now
                      ELSE <<d, x[1]>> \in more \/ \A r \in now : r[1] = d => r[2] # x[1]
    BY DEF Good
  <2>1. PICK said : said = p.rest[2].says[x[2][2]]
    OBVIOUS
  <2>2. IF S!IsText(said) THEN <<d, x[1], <<said, p.rest[1]>>>> \in recs
        ELSE <<d, x[1]>> \in fails \/ \A r \in recs : r[1] = d => r[2] # x[1]
    BY <2>1 DEF Right, Good
  <2>3. CASE S!IsText(said)
    <3>1. PICK r : r = <<d, x[1], <<said, p.rest[1]>>>>
      OBVIOUS
    <3>2. r[1] = d /\ r \in recs
      BY <2>2, <2>3, <3>1
    <3> QED BY <2>1, <2>3, <3>1, <3>2
  <2>4. CASE ~S!IsText(said)
    BY <2>1, <2>2, <2>4
  <2> QED BY <2>3, <2>4
<1>2. NoOrphans(p, now, d, more)
  BY DEF Right, NoOrphans
<1> QED BY <1>1, <1>2 DEF Right

LEMMA PlanForStays ==
  ASSUME NEW p, NEW d, NEW c, NEW spec, NEW fails, PlanFor(p, d, c, spec, fails),
         NEW more, fails \subseteq more
  PROVE  PlanFor(p, d, c, spec, more)
BY DEF PlanFor

\* Fingerprints that are right are enough to plan by; so are those of before a
\* plan whose work is in the records already.
LEMMA ReadyIfRight ==
  ASSUME NEW spec, NEW c, NEW prev, NEW p, NEW recs, NEW d, NEW fails, NEW more,
         \A n \in S!There(c) : IdsKept(spec, c, prev, n),
         Right(prev, recs, d, fails), fails \subseteq more
  PROVE  Ready(spec, c, prev, p, recs, d, more)
<1>1. ASSUME NEW n \in Listed(spec, c, prev) \ Ran(spec, c, prev)
      PROVE  IF S!IsText(S!Said(spec, c, n))
             THEN <<d, IdOf(spec, prev, c, n), <<S!Said(spec, c, n), c.rest>>>> \in recs
             ELSE \/ <<d, IdOf(spec, prev, c, n)>> \in more
                  \/ \A r \in recs : r[1] = d => r[2] # IdOf(spec, prev, c, n)
  <2>1. PICK x : x = <<IdOf(spec, prev, c, n), S!Fp(c, n)>>
    OBVIOUS
  <2>2. x \in prev.of /\ prev.rest = S!Rest(spec, c)
    BY <1>1, <2>1 DEF Ran, S!Full
  <2>3. n \in S!There(c)
    BY <1>1 DEF Listed
  <2>4. x[1] = IdOf(spec, prev, c, n) /\ x[2][2] = c.els[n]
    BY <2>1, <2>3 DEF IdsKept
  <2>5. prev.rest[2] = spec /\ prev.rest[1] = c.rest
    BY <2>2 DEF S!Rest
  <2>6. prev.rest[2].says[x[2][2]] = S!Said(spec, c, n)
    BY <2>4, <2>5 DEF S!Said
  <2>7. IF S!IsText(S!Said(spec, c, n))
        THEN <<d, x[1], <<S!Said(spec, c, n), c.rest>>>> \in recs
        ELSE <<d, x[1]>> \in fails \/ \A r \in recs : r[1] = d => r[2] # x[1]
    BY <2>2, <2>5, <2>6 DEF Right, Good
  <2> QED BY <2>4, <2>7
<1>2. ASSUME NEW n \in Ran(spec, c, prev), IdOf(spec, prev, c, n) \notin S!Ids(prev.of)
      PROVE  \/ <<d, IdOf(spec, prev, c, n)>> \in more
             \/ \A r \in recs : r[1] = d => r[2] # IdOf(spec, prev, c, n)
  <2>1. PICK id : id = IdOf(spec, prev, c, n)
    OBVIOUS
  <2>2. \A r \in recs : r[1] = d => r[2] \in S!Ids(prev.of) \/ <<d, r[2]>> \in more
    BY DEF Right, NoOrphans
  <2> QED BY <1>2, <2>1, <2>2
<1>3. \A r \in recs : r[1] = d => r[2] \in S!Ids(prev.of) \/ <<d, r[2]>> \in more
  BY DEF Right, NoOrphans
<1> QED BY <1>1, <1>2, <1>3 DEF Ready

LEMMA ReadyIfDone ==
  ASSUME NEW spec \in S!Specs, NEW c \in S!Contents, NEW prev, WellFormed(prev),
         NEW p, p = S!Plan(spec, c, prev), NEW d, NEW more, \A x \in p.failed : <<d, x>> \in more,
         NEW recs, NEW fails, fails \subseteq more, Right(p.prints, recs, d, fails)
  PROVE  Ready(spec, c, prev, p, recs, d, more)
<1>1. \A n \in S!There(c) : IdsKept(spec, c, prev, n)
  BY IdIs
<1>2. MarksMade(spec, c, prev, p, d, more)
  BY MarksAre
<1>3. ASSUME NEW n \in Listed(spec, c, prev) \ Failing(spec, c, prev)
      PROVE  IF S!IsText(S!Said(spec, c, n))
             THEN <<d, IdOf(spec, prev, c, n), <<S!Said(spec, c, n), c.rest>>>> \in recs
             ELSE \/ <<d, IdOf(spec, prev, c, n)>> \in more
                  \/ \A r \in recs : r[1] = d => r[2] # IdOf(spec, prev, c, n)
  <2>1. PICK x : x = <<IdOf(spec, prev, c, n), S!Fp(c, n)>>
    OBVIOUS
  <2>2. x \in p.prints.of /\ p.prints.rest = S!Rest(spec, c)
    BY <1>2, <1>3, <2>1 DEF MarksMade
  <2>3. n \in S!There(c)
    BY <1>3 DEF Listed
  <2>4. x[1] = IdOf(spec, prev, c, n) /\ x[2][2] = c.els[n]
    BY <1>1, <2>1, <2>3 DEF IdsKept
  <2>5. p.prints.rest[2] = spec /\ p.prints.rest[1] = c.rest
    BY <2>2 DEF S!Rest
  <2>6. p.prints.rest[2].says[x[2][2]] = S!Said(spec, c, n)
    BY <2>4, <2>5 DEF S!Said
  <2>7. IF S!IsText(S!Said(spec, c, n))
        THEN <<d, x[1], <<S!Said(spec, c, n), c.rest>>>> \in recs
        ELSE <<d, x[1]>> \in fails \/ \A r \in recs : r[1] = d => r[2] # x[1]
    BY <2>2, <2>5, <2>6 DEF Right, Good
  <2> QED BY <2>4, <2>7
<1>4. \A n \in Listed(spec, c, prev) \ Ran(spec, c, prev) : n \notin Failing(spec, c, prev)
  BY DEF Failing
<1>5. \A n \in Ran(spec, c, prev) : S!Said(spec, c, n) = "nil" =>
        n \in Listed(spec, c, prev) \ Failing(spec, c, prev) /\ ~S!IsText(S!Said(spec, c, n))
  BY DEF Failing, Ran, S!IsText
<1>6. \A r \in recs : r[1] = d => r[2] \in S!Ids(p.prints.of) \/ <<d, r[2]>> \in more
  BY DEF Right, NoOrphans
<1> QED BY <1>3, <1>4, <1>5, <1>6 DEF Ready

\* A plan that comes to the fingerprints it started from writes nothing.
LEMMA NotMoved ==
  ASSUME NEW spec \in S!Specs, NEW c \in S!Contents, NEW prev, WellFormed(prev),
         NEW p, p = S!Plan(spec, c, prev), p.prints = prev
  PROVE  p.upserts = {} /\ p.deletes = {}
<1>1. PlanMade(spec, c, prev, p)
  BY PlanIs
<1>2. PICK fails : fails = {<<0, x>> : x \in p.failed}
  OBVIOUS
<1>3. MarksMade(spec, c, prev, p, 0, fails)
  <2>1. \A x \in p.failed : <<0, x>> \in fails
    BY <1>2
  <2> QED BY <2>1, MarksAre
<1>4. Ran(spec, c, prev) \subseteq Failing(spec, c, prev)
  <2> SUFFICES ASSUME NEW n \in Ran(spec, c, prev), n \notin Failing(spec, c, prev)
               PROVE  FALSE
    OBVIOUS
  <2>1. n \in Listed(spec, c, prev) \ Failing(spec, c, prev)
    BY DEF Ran
  <2>2. <<IdOf(spec, prev, c, n), S!Fp(c, n)>> \in prev.of
    BY <1>3, <2>1 DEF MarksMade
  <2>3. ~S!Full(spec, c, prev)
    BY <1>3 DEF MarksMade, S!Full
  <2> QED BY <2>2, <2>3 DEF Ran
<1>5. \A n \in Ran(spec, c, prev) : S!Said(spec, c, n) = "error"
  BY <1>4 DEF Failing
<1>6. p.upserts = {}
  BY <1>1, <1>5 DEF PlanMade, S!IsText
<1>7. S!Vanished(prev, p.prints.of, FailedIds(spec, c, prev)) = {}
  BY DEF S!Vanished
<1>8. p.deletes = {}
  BY <1>1, <1>5, <1>7 DEF PlanMade
<1> QED BY <1>6, <1>8

\* Nothing is planned of a document with nothing in it.
LEMMA NothingPlanned ==
  ASSUME NEW spec \in S!Specs, NEW prev, prev.of = {}, NEW p, p = S!Plan(spec, S!Nothing, prev)
  PROVE  p.prints.of = {} /\ p.upserts = {} /\ p.deletes = {}
<1>1. PlanMade(spec, S!Nothing, prev, p)
  BY PlanIs
<1>2. S!There(S!Nothing) = {}
  BY DEF S!There, S!Nothing
<1>3. Listed(spec, S!Nothing, prev) = {} /\ Ran(spec, S!Nothing, prev) = {}
  BY <1>2 DEF Listed, Ran
<1>4. S!Ids(prev.of) = {}
  BY DEF S!Ids
<1> QED BY <1>1, <1>3, <1>4 DEF PlanMade, S!Vanished

-----------------------------------------------------------------------------
\* An index whose files and fingerprints can be planned by, for these documents
Plannable(i, spec, names, content) ==
  /\ i \in S!Index /\ i.spec = spec /\ i.src = spec /\ Unique(i.writer)
  /\ names \subseteq Docs /\ \A d \in names : content[d] \in S!Contents
  /\ \A d \in Docs : WellFormed(S!Parsed(Marks(i, prints, d)))
  /\ \A d \in Docs :
       \/ Right(S!Parsed(Marks(i, prints, d)), i.writer, d, hist.failed)
       \/ /\ d \in names \ spec.bad
          /\ Right(S!Plan(spec, content[d], S!Parsed(Marks(i, prints, d))).prints,
                   i.writer, d, hist.failed)

LEMMA PlansAre ==
  ASSUME S!SearchIndexConstants, HistTypes(hist),
         NEW spec \in S!Specs, NEW i, NEW names, NEW content, Plannable(i, spec, names, content),
         NEW plans, plans = S!Plans(i, names, content),
         NEW h, h = S!Planned(names, i, content, plans), NEW d \in names
  PROVE  /\ DOMAIN plans = names
         /\ plans[d] = S!Plan(spec, content[d], S!Parsed(Marks(i, prints, d)))
         /\ \A x \in plans[d].failed : <<d, x>> \in h.failed
         /\ hist.failed \subseteq h.failed
         /\ MarksMade(spec, content[d], S!Parsed(Marks(i, prints, d)), plans[d], d, h.failed)
<1>1. DOMAIN plans = names /\ d \in Docs
  BY DEF S!Plans, Plannable
<1>2. plans[d] = S!Plan(spec, content[d], S!Parsed(Marks(i, prints, d)))
  BY DEF S!Plans, S!PrintsOf, Marks, Plannable
<1>3. h.failed = hist.failed \cup UNION {{e} \X plans[e].failed : e \in names}
  BY DEF S!Planned, HistTypes
<1>4. \A x \in plans[d].failed : <<d, x>> \in h.failed
  BY <1>3
<1>5. hist.failed \subseteq h.failed
  BY <1>3
<1>6. WellFormed(S!Parsed(Marks(i, prints, d))) /\ content[d] \in S!Contents
  BY <1>1 DEF Plannable
<1>7. PICK p : p = plans[d]
  OBVIOUS
<1>8. MarksMade(spec, content[d], S!Parsed(Marks(i, prints, d)), p, d, h.failed)
  BY <1>2, <1>4, <1>6, <1>7, MarksAre
<1> QED BY <1>1, <1>2, <1>4, <1>5, <1>7, <1>8

LEMMA WrittenElse ==
  ASSUME NEW recs, NEW plans, NEW d, d \notin DOMAIN plans, NEW after, after = S!Written(recs, plans)
  PROVE  \A r : r[1] = d => (r \in after <=> r \in recs)
<1> DEFINE new == UNION {{<<e, u[1], u[2]>> : u \in plans[e].upserts} : e \in DOMAIN plans}
           kept == {r \in recs : \/ r[1] \notin DOMAIN plans
                                 \/ r[2] \notin plans[r[1]].deletes \cup {u[1] : u \in plans[r[1]].upserts}}
<1>1. after = kept \cup new
  BY DEF S!Written
<1>2. \A r \in new : \E e \in DOMAIN plans : \E u \in plans[e].upserts : r = <<e, u[1], u[2]>>
  OBVIOUS
<1>3. \A r \in new : r[1] \in DOMAIN plans
  <2> SUFFICES ASSUME NEW r \in new PROVE r[1] \in DOMAIN plans
    OBVIOUS
  <2>1. PICK e \in DOMAIN plans : \E u \in plans[e].upserts : r = <<e, u[1], u[2]>>
    BY <1>2
  <2> QED BY <2>1
<1>4. \A r : r[1] = d => (r \in kept <=> r \in recs)
  OBVIOUS
<1> HIDE DEF new, kept
<1> QED BY <1>1, <1>3, <1>4

\* The records after plans are records, one of an id.
LEMMA WrittenTypes ==
  ASSUME S!SearchIndexConstants, HistTypes(hist),
         NEW spec \in S!Specs, NEW i, NEW names, NEW content, Plannable(i, spec, names, content),
         NEW plans, plans = S!Plans(i, names, content),
         NEW after, after = S!Written(i.writer, plans)
  PROVE  after \subseteq S!Record /\ Unique(after)
<1>1. PICK h : h = S!Planned(names, i, content, plans)
  OBVIOUS
<1>2. i.writer \subseteq S!Record /\ Unique(i.writer) /\ names \subseteq Docs
  BY DEF Plannable, S!Index
<1>3. ASSUME NEW d \in names
      PROVE  /\ \A u \in plans[d].upserts :
                  u = <<u[1], u[2]>> /\ <<d, u[1], u[2]>> \in S!Record
             /\ \A u, v \in plans[d].upserts : u[1] = v[1] => u = v
  <2>0. PICK c : c = content[d]
    OBVIOUS
  <2>1. PICK prev : prev = S!Parsed(Marks(i, prints, d))
    OBVIOUS
  <2>2. PICK p : p = plans[d]
    OBVIOUS
  <2>3. p = S!Plan(spec, c, prev)
    BY <1>1, <2>0, <2>1, <2>2, PlansAre
  <2>4. WellFormed(prev) /\ c \in S!Contents /\ d \in Docs
    BY <2>0, <2>1 DEF Plannable
  <2>5. PlanMade(spec, c, prev, p)
    BY <2>3, PlanIs
  <2>6. \A n \in S!There(c) : IdsKept(spec, c, prev, n)
    BY <2>4, IdIs
  <2>7. \A n \in Ran(spec, c, prev) :
          /\ n \in S!There(c) /\ IdOf(spec, prev, c, n) \in S!IdSet
          /\ IdOf(spec, prev, c, n)[2] = n
    BY <2>6 DEF Ran, Listed, IdsKept
  <2>8. \A u \in p.upserts : \E n \in Ran(spec, c, prev) :
          u = <<IdOf(spec, prev, c, n), <<S!Said(spec, c, n), c.rest>>>>
    BY <2>5 DEF PlanMade
  <2>9. \A n \in S!There(c) : S!Said(spec, c, n) \in UNION {{s.says[x] : x \in Values} : s \in S!Specs}
    BY <2>4 DEF S!There, S!Contents, S!Said
  <2>10. c.rest \in S!Rests
    BY <2>4 DEF S!Contents
  <2>11. ASSUME NEW u \in p.upserts
         PROVE  u = <<u[1], u[2]>> /\ <<d, u[1], u[2]>> \in S!Record
    <3>1. PICK n \in Ran(spec, c, prev) :
            u = <<IdOf(spec, prev, c, n), <<S!Said(spec, c, n), c.rest>>>>
      BY <2>8
    <3>2. PICK say : say = S!Said(spec, c, n)
      OBVIOUS
    <3>3. say \in UNION {{s.says[x] : x \in Values} : s \in S!Specs}
      BY <2>7, <2>9, <3>2
    <3>4. u = <<u[1], u[2]>> /\ u[1] \in S!IdSet /\ u[2] = <<say, c.rest>>
      BY <2>7, <3>1, <3>2
    <3> QED BY <2>4, <2>10, <3>3, <3>4 DEF S!Record
  <2>12. ASSUME NEW u \in p.upserts, NEW v \in p.upserts, u[1] = v[1]
         PROVE  u = v
    <3>1. PICK n \in Ran(spec, c, prev) :
            u = <<IdOf(spec, prev, c, n), <<S!Said(spec, c, n), c.rest>>>>
      BY <2>8
    <3>2. PICK m \in Ran(spec, c, prev) :
            v = <<IdOf(spec, prev, c, m), <<S!Said(spec, c, m), c.rest>>>>
      BY <2>8
    <3>3. n = m
      BY <2>7, <2>12, <3>1, <3>2
    <3> QED BY <3>1, <3>2, <3>3
  <2> QED BY <2>2, <2>11, <2>12
<1>4. \A d \in names : d \in DOMAIN plans
  BY DEF S!Plans
<1>5. \A d : d \notin names => d \notin DOMAIN plans
  BY DEF S!Plans
<1>6. after \subseteq S!Record
  <2> SUFFICES ASSUME NEW r \in after PROVE r \in S!Record
    OBVIOUS
  <2>1. PICK d : d = r[1]
    OBVIOUS
  <2>2. CASE d \in names
    <3>1. r \in i.writer \/ \E u \in plans[d].upserts : r = <<d, u[1], u[2]>>
      BY <1>4, <2>1, <2>2, WrittenIs
    <3> QED BY <1>2, <1>3, <2>2, <3>1
  <2>3. CASE d \notin names
    <3>1. r \in i.writer
      BY <1>5, <2>1, <2>3, WrittenElse
    <3> QED BY <1>2, <3>1
  <2> QED BY <2>2, <2>3
<1>7. Unique(after)
  <2> SUFFICES ASSUME NEW r \in after, NEW s \in after, r[1] = s[1], r[2] = s[2]
               PROVE  r = s
    BY DEF Unique
  <2>1. PICK d : d = r[1]
    OBVIOUS
  <2>2. CASE d \in names
    <3>0. \A x \in after : x[1] = d =>
            \/ x \in i.writer /\ \A u \in plans[d].upserts : u[1] # x[2]
            \/ \E u \in plans[d].upserts : x = <<d, u[1], u[2]>>
      BY <1>4, <2>2, WrittenIs
    <3>1. CASE \E u \in plans[d].upserts : r = <<d, u[1], u[2]>>
      <4>1. PICK u \in plans[d].upserts : r = <<d, u[1], u[2]>>
        BY <3>1
      <4>2. u[1] = r[2]
        BY <4>1
      <4>3. PICK v \in plans[d].upserts : s = <<d, v[1], v[2]>>
        BY <2>1, <3>0, <4>2
      <4>4. v[1] = s[2]
        BY <4>3
      <4>5. u = v
        BY <1>3, <2>2, <4>2, <4>4
      <4> QED BY <4>1, <4>3, <4>5
    <3>2. CASE r \in i.writer /\ \A u \in plans[d].upserts : u[1] # r[2]
      <4>1. s \in i.writer
        <5>1. ASSUME NEW v \in plans[d].upserts, s = <<d, v[1], v[2]>>
              PROVE  FALSE
          <6>1. v[1] = s[2]
            BY <5>1
          <6> QED BY <3>2, <6>1
        <5> QED BY <2>1, <3>0, <5>1
      <4> QED BY <1>2, <3>2, <4>1 DEF Unique
    <3> QED BY <2>1, <3>0, <3>1, <3>2
  <2>3. CASE d \notin names
    <3>1. r \in i.writer /\ s \in i.writer
      BY <1>5, <2>1, <2>3, WrittenElse
    <3> QED BY <1>2, <3>1 DEF Unique
  <2> QED BY <2>2, <2>3
<1> QED BY <1>6, <1>7

\* What applying plans comes to: the index by the new fingerprints, and what
\* the history remembers of it
AppliedTo(i, spec, names, content, plans, j, h) ==
  /\ j \in S!Index /\ j.spec = spec /\ j.src = spec /\ Unique(j.writer)
  /\ HistTypes(h) /\ hist.failed \subseteq h.failed /\ h.upto = hist.upto
  /\ h.ran = {x \in names \X Names : x[2] \in plans[x[1]].ran}
  /\ \A d \in Docs : Right(S!Parsed(Marks(j, prints, d)), j.writer, d, h.failed)
  /\ \A d \in names :
       /\ Marks(j, prints, d) = plans[d].prints /\ plans[d].prints \in S!Fingerprints
       /\ plans[d] = S!Plan(spec, content[d], S!Parsed(Marks(i, prints, d)))
       /\ h.planned[d] = <<content[d], spec>>
       /\ PlanFor(Marks(j, prints, d), d, content[d], spec, h.failed)
       /\ j.staged[d] = None =>
            i.staged[d] = None /\ \A r : r[1] = d => (r \in j.writer <=> r \in i.writer)
  /\ \A d \in Docs \ names :
       /\ j.staged[d] = i.staged[d] /\ h.planned[d] = hist.planned[d]
       /\ \A r : r[1] = d => (r \in j.writer <=> r \in i.writer)
  /\ ~j.dirty => j.staged = i.staged /\ j.writer = i.writer /\ ~i.dirty

LEMMA AppliedIs ==
  ASSUME S!SearchIndexConstants, HistTypes(hist), DiskTypes(files, prints),
         NEW spec \in S!Specs, NEW i, NEW names, NEW content, Plannable(i, spec, names, content),
         NEW plans, plans = S!Plans(i, names, content),
         NEW h, h = S!Planned(names, i, content, plans), NEW j, j = S!Applied(i, names, content)
  PROVE  AppliedTo(i, spec, names, content, plans, j, h)
<1> DEFINE moved == {d \in names : plans[d].prints # S!PrintsOf(i, d)}
<1>1. /\ names \subseteq Docs /\ i \in S!Index /\ i.spec = spec /\ i.src = spec
      /\ \A d \in names : content[d] \in S!Contents
      /\ \A d \in Docs : WellFormed(S!Parsed(Marks(i, prints, d)))
      /\ \A d \in Docs :
           \/ Right(S!Parsed(Marks(i, prints, d)), i.writer, d, hist.failed)
           \/ d \in names /\ Right(S!Plan(spec, content[d], S!Parsed(Marks(i, prints, d))).prints,
                                   i.writer, d, hist.failed)
  BY DEF Plannable
<1>2. DOMAIN plans = names
  BY DEF S!Plans
<1>3. \A d \in names : /\ plans[d] = S!Plan(spec, content[d], S!Parsed(Marks(i, prints, d)))
                       /\ \A x \in plans[d].failed : <<d, x>> \in h.failed
                       /\ MarksMade(spec, content[d], S!Parsed(Marks(i, prints, d)), plans[d], d, h.failed)
  BY PlansAre
<1>4. PICK after : after = S!Written(i.writer, plans)
  OBVIOUS
<1>5. after \in SUBSET S!Record /\ Unique(after)
  BY <1>4, WrittenTypes
<1>6. PICK staged : staged = [d \in Docs |-> IF d \in moved THEN plans[d].prints ELSE i.staged[d]]
  OBVIOUS
<1>7. PICK moves \in BOOLEAN :
        moves = (\/ i.dirty \/ moved # {}
                 \/ \E d \in names : plans[d].upserts # {} \/ plans[d].deletes # {})
  BY <1>1 DEF S!Index
<1>8. j = [i EXCEPT !.writer = after, !.staged = staged, !.dirty = moves]
  BY <1>4, <1>6, <1>7 DEF S!Applied
<1>9. \A d \in names : plans[d].prints \in S!Fingerprints /\ WellFormed(plans[d].prints)
  BY <1>3 DEF MarksMade
<1>10. \A d \in names : d \in moved <=> plans[d].prints # Marks(i, prints, d)
  BY DEF S!PrintsOf, Marks
<1>11. i.staged \in [Docs -> S!Fingerprints \cup {None}]
  BY <1>1 DEF S!Index
<1>12. staged \in [Docs -> S!Fingerprints \cup {None}]
  BY <1>6, <1>9, <1>11
<1>13. /\ j \in S!Index /\ j.spec = spec /\ j.src = spec /\ j.writer = after
       /\ j.staged = staged /\ j.dirty = moves
  <2>1. i = [src |-> i.src, spec |-> i.spec, reader |-> i.reader, writer |-> i.writer,
             staged |-> i.staged, dirty |-> i.dirty, memo |-> i.memo]
    BY <1>1 DEF S!Index
  <2>2. j = [src |-> i.src, spec |-> i.spec, reader |-> i.reader, writer |-> after,
             staged |-> staged, dirty |-> moves, memo |-> i.memo]
    BY <1>8, <2>1
  <2> QED BY <1>1, <1>5, <1>7, <1>12, <2>2 DEF S!Index
<1>14. None \notin S!Fingerprints
  BY DEF S!SearchIndexConstants
<1>15. \A d \in names : Marks(j, prints, d) = plans[d].prints
  <2> SUFFICES ASSUME NEW d \in names PROVE Marks(j, prints, d) = plans[d].prints
    OBVIOUS
  <2>1. d \in Docs
    BY <1>1
  <2>2. CASE d \in moved
    BY <1>6, <1>9, <1>13, <1>14, <2>1, <2>2 DEF Marks
  <2>3. CASE d \notin moved
    <3>1. j.staged[d] = i.staged[d]
      BY <1>6, <1>13, <2>1, <2>3
    <3>2. Marks(j, prints, d) = Marks(i, prints, d)
      BY <3>1 DEF Marks
    <3> QED BY <1>10, <2>3, <3>2
  <2> QED BY <2>2, <2>3
<1>16. \A d \in Docs \ names : /\ j.staged[d] = i.staged[d]
                               /\ Marks(j, prints, d) = Marks(i, prints, d)
                               /\ \A r : r[1] = d => (r \in after <=> r \in i.writer)
  <2> SUFFICES ASSUME NEW d \in Docs \ names
               PROVE  /\ j.staged[d] = i.staged[d]
                      /\ Marks(j, prints, d) = Marks(i, prints, d)
                      /\ \A r : r[1] = d => (r \in after <=> r \in i.writer)
    OBVIOUS
  <2>1. j.staged[d] = i.staged[d]
    BY <1>6, <1>13
  <2> QED BY <1>2, <1>4, <2>1, WrittenElse DEF Marks
<1>17. hist = [planned |-> hist.planned, upto |-> hist.upto, failed |-> hist.failed, ran |-> hist.ran]
  BY DEF HistTypes
<1>18. /\ h.planned = [d \in Docs |-> IF d \in names THEN <<content[d], spec>> ELSE hist.planned[d]]
       /\ h.upto = hist.upto /\ hist.failed \subseteq h.failed
       /\ h = [planned |-> h.planned, upto |-> h.upto, failed |-> h.failed, ran |-> h.ran]
       /\ h.ran = {x \in names \X Names : x[2] \in plans[x[1]].ran}
  <2>1. PICK fails : fails = hist.failed \cup UNION {{d} \X plans[d].failed : d \in names}
    OBVIOUS
  <2>2. PICK ran : ran = {x \in names \X Names : x[2] \in plans[x[1]].ran}
    OBVIOUS
  <2>3. PICK planned : planned = [d \in Docs |-> IF d \in names THEN <<content[d], i.spec>> ELSE hist.planned[d]]
    OBVIOUS
  <2>4. h = [hist EXCEPT !.planned = planned, !.failed = fails, !.ran = ran]
    BY <2>1, <2>2, <2>3 DEF S!Planned
  <2>5. h = [planned |-> planned, upto |-> hist.upto, failed |-> fails, ran |-> ran]
    BY <1>17, <2>4
  <2> QED BY <1>1, <2>1, <2>2, <2>3, <2>5
<1>19. HistTypes(h)
  BY <1>1, <1>18 DEF HistTypes
<1>20. \A d \in Docs : Right(S!Parsed(Marks(j, prints, d)), j.writer, d, h.failed)
  <2> SUFFICES ASSUME NEW d \in Docs
               PROVE  Right(S!Parsed(Marks(j, prints, d)), after, d, h.failed)
    BY <1>13
  <2>1. CASE d \in names
    <3>1. PICK prev : prev = S!Parsed(Marks(i, prints, d))
      OBVIOUS
    <3>2. PICK p : p = plans[d]
      OBVIOUS
    <3>3. PICK c : c = content[d]
      OBVIOUS
    <3>4. /\ p = S!Plan(spec, c, prev) /\ WellFormed(prev) /\ c \in S!Contents
          /\ \A x \in p.failed : <<d, x>> \in h.failed
      BY <1>1, <1>3, <2>1, <3>1, <3>2, <3>3
    <3>5. Right(prev, i.writer, d, hist.failed) \/ Right(p.prints, i.writer, d, hist.failed)
      BY <1>1, <2>1, <3>1, <3>3, <3>4
    <3>6. Ready(spec, c, prev, p, i.writer, d, h.failed)
      <4>1. \A n \in S!There(c) : IdsKept(spec, c, prev, n)
        BY <3>4, IdIs
      <4>2. CASE Right(prev, i.writer, d, hist.failed)
        BY <1>18, <4>1, <4>2, ReadyIfRight
      <4>3. CASE Right(p.prints, i.writer, d, hist.failed)
        BY <1>18, <3>4, <4>3, ReadyIfDone
      <4> QED BY <3>5, <4>2, <4>3
    <3>7. Right(p.prints, after, d, h.failed)
      BY <1>2, <1>4, <2>1, <3>2, <3>4, <3>6, PlanRight
    <3>8. S!Parsed(Marks(j, prints, d)) = p.prints
      BY <1>9, <1>14, <1>15, <2>1, <3>2 DEF S!Parsed
    <3> QED BY <3>7, <3>8
  <2>2. CASE d \notin names
    <3>1. PICK p : p = S!Parsed(Marks(i, prints, d))
      OBVIOUS
    <3>2. Right(p, i.writer, d, hist.failed) /\ p = S!Parsed(Marks(j, prints, d))
      BY <1>1, <1>16, <2>2, <3>1
    <3>3. \A r : r[1] = d => (r \in after <=> r \in i.writer)
      BY <1>16, <2>2
    <3> QED BY <1>18, <3>2, <3>3, RightStays
  <2> QED BY <2>1, <2>2
<1>21. \A d \in names \ moved : plans[d].upserts = {} /\ plans[d].deletes = {}
  <2> SUFFICES ASSUME NEW d \in names \ moved PROVE plans[d].upserts = {} /\ plans[d].deletes = {}
    OBVIOUS
  <2>1. PICK prev : prev = S!Parsed(Marks(i, prints, d))
    OBVIOUS
  <2>2. PICK p : p = plans[d]
    OBVIOUS
  <2>3. p.prints = Marks(i, prints, d) /\ p.prints \in S!Fingerprints
    BY <1>9, <1>10, <2>2
  <2>4. p.prints = prev
    BY <1>14, <2>1, <2>3 DEF S!Parsed
  <2>5. p = S!Plan(spec, content[d], prev) /\ WellFormed(prev) /\ content[d] \in S!Contents
    BY <1>1, <1>3, <2>1, <2>2
  <2> QED BY <2>2, <2>4, <2>5, NotMoved
<1>22. \A d \in names : j.staged[d] = None =>
         i.staged[d] = None /\ \A r : r[1] = d => (r \in after <=> r \in i.writer)
  <2> SUFFICES ASSUME NEW d \in names, j.staged[d] = None
               PROVE  i.staged[d] = None /\ \A r : r[1] = d => (r \in after <=> r \in i.writer)
    OBVIOUS
  <2>1. d \notin moved /\ i.staged[d] = None
    BY <1>1, <1>6, <1>9, <1>13, <1>14
  <2>2. /\ \A r \in i.writer : r[1] = d => r \in after
        /\ \A r \in after : r[1] = d => r \in i.writer
    <3>1. plans[d].upserts = {} /\ plans[d].deletes = {}
      BY <1>21, <2>1
    <3> QED BY <1>2, <1>4, <3>1, WrittenIs
  <2> QED BY <2>1, <2>2
<1>23. ~moves => staged = i.staged /\ after = i.writer /\ ~i.dirty
  <2> SUFFICES ASSUME ~moves PROVE staged = i.staged /\ after = i.writer /\ ~i.dirty
    OBVIOUS
  <2>1. moved = {} /\ ~i.dirty
    BY <1>7
  <2>2. staged = i.staged
    BY <1>6, <1>11, <2>1
  <2>3. /\ \A r \in after : r \in i.writer
        /\ \A r \in i.writer : r \in after
    <3>1. \A d \in names : plans[d].upserts = {} /\ plans[d].deletes = {}
      BY <1>21, <2>1
    <3>2. ASSUME NEW r \in after PROVE r \in i.writer
      <4>1. PICK d : d = r[1]
        OBVIOUS
      <4>2. CASE d \in names
        BY <1>2, <1>4, <3>1, <4>1, <4>2, WrittenIs
      <4>3. CASE d \notin names
        BY <1>2, <1>4, <4>1, <4>3, WrittenElse
      <4> QED BY <4>2, <4>3
    <3>3. ASSUME NEW r \in i.writer PROVE r \in after
      <4>1. PICK d : d = r[1]
        OBVIOUS
      <4>2. CASE d \in names
        BY <1>2, <1>4, <3>1, <4>1, <4>2, WrittenIs
      <4>3. CASE d \notin names
        BY <1>2, <1>4, <4>1, <4>3, WrittenElse
      <4> QED BY <4>2, <4>3
    <3> QED BY <3>2, <3>3
  <2> QED BY <2>1, <2>2, <2>3
<1>24. \A d \in names : /\ h.planned[d] = <<content[d], spec>>
                        /\ PlanFor(Marks(j, prints, d), d, content[d], spec, h.failed)
  <2> SUFFICES ASSUME NEW d \in names
               PROVE  /\ h.planned[d] = <<content[d], spec>>
                      /\ PlanFor(Marks(j, prints, d), d, content[d], spec, h.failed)
    OBVIOUS
  <2>1. h.planned[d] = <<content[d], spec>>
    BY <1>1, <1>18
  <2>2. PlanFor(plans[d].prints, d, content[d], spec, h.failed)
    BY <1>3 DEF MarksMade
  <2> QED BY <1>15, <2>1, <2>2
<1>25. \A d \in Docs \ names : h.planned[d] = hist.planned[d]
  BY <1>18
<1> HIDE DEF moved
<1> QED
  BY <1>3, <1>5, <1>9, <1>13, <1>15, <1>16, <1>18, <1>19, <1>20, <1>22, <1>23, <1>24, <1>25
  DEF AppliedTo

-----------------------------------------------------------------------------
LEMMA EndsAre ==
  ASSUME S!Regime, NEW j, NEW e \in S!Ends(j)
  PROVE  \/ e.ok /\ e.alive /\ e.files /\ e.prints = S!Staged(j)
         \/ "crash" \notin Faults /\ ~e.ok /\ e.alive /\ ~e.files /\ e.prints = {}
         \/ /\ "crash" \in Faults /\ ~e.ok /\ ~e.alive
            /\ e.prints \subseteq S!Staged(j) /\ (~e.files => e.prints = {})
<1> DEFINE all == S!Staged(j)
           A == {[ok |-> TRUE, alive |-> TRUE, files |-> TRUE, prints |-> all]}
           B == {[ok |-> FALSE, alive |-> TRUE, files |-> FALSE, prints |-> {}]}
           C == {[ok |-> FALSE, alive |-> FALSE, files |-> p # {} \/ b, prints |-> p] :
                   p \in SUBSET all, b \in BOOLEAN}
<1>1. e \in A \/ ("files" \in Faults /\ e \in B) \/ ("crash" \in Faults /\ e \in C)
  BY DEF S!Ends, S!Regime
<1>2. CASE e \in A
  BY <1>2
<1>3. CASE "files" \in Faults /\ e \in B
  BY <1>3 DEF S!Regime
<1>4. CASE "crash" \in Faults /\ e \in C
  <2>1. PICK p \in SUBSET all, b \in BOOLEAN :
          e = [ok |-> FALSE, alive |-> FALSE, files |-> p # {} \/ b, prints |-> p]
    BY <1>4
  <2>2. PICK f \in BOOLEAN : f = (p # {} \/ b)
    OBVIOUS
  <2>3. e = [ok |-> FALSE, alive |-> FALSE, files |-> f, prints |-> p]
    BY <2>1, <2>2
  <2>4. ~e.ok /\ ~e.alive /\ e.prints = p /\ e.files = f
    BY <2>3
  <2>5. ~e.files => e.prints = {}
    BY <2>2, <2>4
  <2> QED BY <1>4, <2>4, <2>5
<1> QED BY <1>1, <1>2, <1>3, <1>4

LEMMA EndsAreTyped ==
  ASSUME NEW j, NEW e \in S!Ends(j)
  PROVE  e.ok \in BOOLEAN /\ e.alive \in BOOLEAN
<1> DEFINE all == S!Staged(j)
           A == {[ok |-> TRUE, alive |-> TRUE, files |-> TRUE, prints |-> all]}
           B == {[ok |-> FALSE, alive |-> TRUE, files |-> FALSE, prints |-> {}]}
           P == {[ok |-> FALSE, alive |-> TRUE, files |-> TRUE, prints |-> p] : p \in (SUBSET all) \ {all}}
           C == {[ok |-> FALSE, alive |-> FALSE, files |-> p # {} \/ b, prints |-> p] :
                   p \in SUBSET all, b \in BOOLEAN}
<1>1. e \in A \/ e \in B \/ e \in P \/ e \in C
  BY DEF S!Ends
<1>2. CASE e \in A
  <2>1. e.ok = TRUE /\ e.alive = TRUE
    BY <1>2
  <2> QED BY <2>1
<1>3. CASE e \in B
  <2>1. e.ok = FALSE /\ e.alive = TRUE
    BY <1>3
  <2> QED BY <2>1
<1>4. CASE e \in P
  <2>1. PICK p : e = [ok |-> FALSE, alive |-> TRUE, files |-> TRUE, prints |-> p]
    BY <1>4
  <2> QED BY <2>1
<1>5. CASE e \in C
  <2>1. PICK p \in SUBSET all, b \in BOOLEAN :
          e = [ok |-> FALSE, alive |-> FALSE, files |-> p # {} \/ b, prints |-> p]
    BY <1>5
  <2>2. PICK f \in BOOLEAN : f = (p # {} \/ b)
    OBVIOUS
  <2>3. e = [ok |-> FALSE, alive |-> FALSE, files |-> f, prints |-> p]
    BY <2>1, <2>2
  <2> QED BY <2>3
<1> QED BY <1>1, <1>2, <1>3, <1>4, <1>5

\* What a reindexing of these documents finds, of a desktop whose vault comes
\* to hold `held'
Found(i, spec, names, content, held) ==
  /\ Plannable(i, spec, names, content) /\ names \subseteq spec.covers
  /\ \A d \in Docs :
       /\ i.staged[d] # None => hist.planned[d] # None
       /\ i.staged[d] = None => \A r : r[1] = d => (r \in i.writer <=> r \in files)
  /\ PlannedIs([d \in Docs |-> Marks(i, prints, d)], hist) /\ UptoIs(files, hist)
  /\ "crash" \in Faults =>
       /\ i.staged = S!Unstaged /\ i.writer = files /\ ~i.dirty
       /\ \A d \in names : content[d] = IF held[d] # None THEN held[d] ELSE S!Nothing
       /\ \A d \in Docs : held[d] = None =>
            S!Parsed(prints[d]).of = {} /\ Right(S!Parsed(prints[d]), files, d, hist.failed)
  /\ "crash" \notin Faults => \A d \in Docs :
       /\ Right(S!Parsed(prints[d]), files, d, hist.failed)
       /\ Right(S!Parsed(Marks(i, prints, d)), i.writer, d, hist.failed)

\* What fields runs for moved, or fails.
Moved(was, now, n) ==
  \/ was[2] # now[2] \/ was[1].rest # now[1].rest \/ was[1].els[n] # now[1].els[n]
  \/ S!Said(now[2], now[1], n) = "error"
RanMoved(h) ==
  \A x \in h.ran : hist.planned[x[1]] # None /\ h.planned[x[1]] # None =>
    Moved(hist.planned[x[1]], h.planned[x[1]], x[2])

\* What a reindexing comes to
Outcome(r, spec, held) ==
  /\ DiskTypes(r.files, r.prints) /\ HistTypes(r.hist) /\ UptoIs(r.files, r.hist)
  /\ r.alive \in BOOLEAN /\ r.ok \in BOOLEAN
  /\ r.alive =>
       /\ r.ix \in S!Index /\ IndexIs(r.ix, r.files, r.prints, r.hist)
       /\ PlannedIs([d \in Docs |-> Marks(r.ix, r.prints, d)], r.hist)
  /\ ~r.alive => PlannedIs(r.prints, r.hist)
  /\ StoredIs(spec, held, r.files, r.prints, r.hist.failed, ~r.alive)
  /\ RanMoved(r.hist)

LEMMA UptoStays ==
  ASSUME NEW recs, NEW h, NEW g, UptoIs(recs, h), g.upto = h.upto, h.failed \subseteq g.failed
  PROVE  UptoIs(recs, g)
<1> SUFFICES ASSUME NEW d \in Docs, g.upto[d] # None
             PROVE  \E p \in S!Fingerprints : /\ Right(p, recs, d, g.failed)
                                              /\ PlanFor(p, d, g.upto[d][1], g.upto[d][2], g.failed)
  BY DEF UptoIs
<1>1. PICK p \in S!Fingerprints : /\ Right(p, recs, d, h.failed)
                                  /\ PlanFor(p, d, h.upto[d][1], h.upto[d][2], h.failed)
  BY DEF UptoIs
<1>2. Right(p, recs, d, g.failed)
  BY <1>1, RightStays
<1>3. PlanFor(p, d, g.upto[d][1], g.upto[d][2], g.failed)
  BY <1>1, PlanForStays
<1> QED BY <1>2, <1>3

\* After a plan every document's history is that of its fingerprints.
LEMMA AppliedPlanned ==
  ASSUME S!SearchIndexConstants, NEW spec \in S!Specs, NEW i, NEW names, NEW content, NEW held,
         Found(i, spec, names, content, held), NEW plans, NEW j, NEW h,
         AppliedTo(i, spec, names, content, plans, j, h)
  PROVE  /\ PlannedIs([d \in Docs |-> Marks(j, prints, d)], h)
         /\ \A d \in Docs :
              /\ j.staged[d] # None => h.planned[d] # None
              /\ j.staged[d] = None => \A r : r[1] = d => (r \in j.writer <=> r \in files)
         /\ UptoIs(files, h) /\ RanMoved(h)
<1>0. None \notin S!Fingerprints /\ None \notin S!Contents \X S!Specs
  BY DEF S!SearchIndexConstants
<1>1. /\ names \subseteq Docs /\ \A d \in names : content[d] \in S!Contents
      /\ \A d \in Docs :
           /\ i.staged[d] # None => hist.planned[d] # None
           /\ i.staged[d] = None => \A r : r[1] = d => (r \in i.writer <=> r \in files)
  BY DEF Found, Plannable
<1>2. /\ \A d \in names :
           /\ Marks(j, prints, d) \in S!Fingerprints /\ h.planned[d] = <<content[d], spec>>
           /\ PlanFor(Marks(j, prints, d), d, content[d], spec, h.failed)
           /\ j.staged[d] = None =>
                i.staged[d] = None /\ \A r : r[1] = d => (r \in j.writer <=> r \in i.writer)
      /\ \A d \in Docs \ names :
           /\ j.staged[d] = i.staged[d] /\ h.planned[d] = hist.planned[d]
           /\ \A r : r[1] = d => (r \in j.writer <=> r \in i.writer)
      /\ hist.failed \subseteq h.failed /\ h.upto = hist.upto
  BY DEF AppliedTo
<1>3. ASSUME NEW d \in Docs, h.planned[d] # None
      PROVE  /\ Marks(j, prints, d) # None
             /\ PlanFor(Marks(j, prints, d), d, h.planned[d][1], h.planned[d][2], h.failed)
  <2>1. CASE d \in names
    <3>1. h.planned[d][1] = content[d] /\ h.planned[d][2] = spec
      BY <1>2, <2>1
    <3> QED BY <1>0, <1>2, <2>1, <3>1
  <2>2. CASE d \notin names
    <3>1. Marks(j, prints, d) = Marks(i, prints, d) /\ h.planned[d] = hist.planned[d]
      BY <1>2, <2>2 DEF Marks
    <3>2. PICK p : p = Marks(i, prints, d)
      OBVIOUS
    <3>3. p # None /\ PlanFor(p, d, hist.planned[d][1], hist.planned[d][2], hist.failed)
      BY <1>3, <3>1, <3>2 DEF Found, PlannedIs
    <3>4. PlanFor(p, d, hist.planned[d][1], hist.planned[d][2], h.failed)
      BY <1>2, <3>3, PlanForStays
    <3> QED BY <3>1, <3>2, <3>3, <3>4
  <2> QED BY <2>1, <2>2
<1>4. PlannedIs([d \in Docs |-> Marks(j, prints, d)], h)
  BY <1>3 DEF PlannedIs
<1>5. ASSUME NEW d \in Docs
      PROVE  /\ j.staged[d] # None => h.planned[d] # None
             /\ j.staged[d] = None => \A r : r[1] = d => (r \in j.writer <=> r \in files)
  <2>1. CASE d \in names
    <3>1. <<content[d], spec>> \in S!Contents \X S!Specs
      BY <1>1, <2>1
    <3> QED BY <1>0, <1>1, <1>2, <2>1, <3>1
  <2>2. CASE d \notin names
    BY <1>1, <1>2, <2>2
  <2> QED BY <2>1, <2>2
<1>6. UptoIs(files, h)
  BY <1>2, UptoStays DEF Found
<1>7. ASSUME NEW d \in names, NEW n \in plans[d].ran, hist.planned[d] # None
      PROVE  Moved(hist.planned[d], h.planned[d], n)
  <2>1. PICK c \in S!Contents : c = content[d]
    BY <1>1
  <2>2. h.planned[d][1] = c /\ h.planned[d][2] = spec
    BY <1>2, <2>1
  <2>3. PICK prev : prev = Marks(i, prints, d)
    OBVIOUS
  <2>4. PICK was : was = hist.planned[d]
    OBVIOUS
  <2>5. prev = S!Parsed(prev) /\ PlanFor(prev, d, was[1], was[2], hist.failed)
    BY <1>1, <1>7, <2>3, <2>4 DEF Found, PlannedIs, S!Parsed
  <2>6. WellFormed(prev)
    BY <1>1, <2>3, <2>5 DEF Found, Plannable
  <2>7. PICK p : p = plans[d]
    OBVIOUS
  <2>8. p = S!Plan(spec, c, prev)
    BY <2>1, <2>3, <2>5, <2>7 DEF AppliedTo
  <2>9. PlanMade(spec, c, prev, p)
    BY <2>8, PlanIs
  <2>10. n \in Ran(spec, c, prev)
    BY <2>7, <2>9 DEF PlanMade
  <2>11. n \in S!There(c) /\ (S!Seen(prev, S!Fp(c, n)) \/ S!Keyed(spec, c, n))
    BY <2>10 DEF Ran, Listed
  <2>12. IdsKept(spec, c, prev, n)
    BY <2>6, <2>11, IdIs
  <2> SUFFICES ASSUME was[2] = spec, was[1].rest = c.rest, was[1].els[n] = c.els[n],
                      S!Said(spec, c, n) # "error"
               PROVE  FALSE
    BY <2>2, <2>4 DEF Moved
  <2>13. ~S!Full(spec, c, prev)
    BY <2>5 DEF PlanFor, S!Full, S!Rest
  <2>14. ~S!Seen(prev, S!Fp(c, n))
    BY <2>10, <2>12, <2>13 DEF IdsKept, Ran
  <2>15. n \in S!There(was[1]) /\ S!Fp(was[1], n) = S!Fp(c, n)
    BY <2>11 DEF S!There, S!Fp
  <2>16. S!Keyed(was[2], was[1], n) /\ S!Said(was[2], was[1], n) # "error"
    BY <2>11, <2>14 DEF S!Keyed, S!Said
  <2> QED BY <2>5, <2>14, <2>15, <2>16 DEF PlanFor
<1>8. RanMoved(h)
  <2>1. \A x \in h.ran : x[1] \in names /\ x[2] \in plans[x[1]].ran
    BY DEF AppliedTo
  <2> QED BY <1>7, <2>1 DEF RanMoved
<1> QED BY <1>4, <1>5, <1>6, <1>8

RememberedAs(g, h, j, e) ==
  /\ g.ran \subseteq h.ran
  /\ g.failed = h.failed
  /\ g.upto = IF e.files THEN [d \in Docs |-> IF j.staged[d] # None THEN h.planned[d] ELSE h.upto[d]]
              ELSE h.upto
  /\ g.planned = IF e.ok \/ (e.alive /\ ~e.files) THEN h.planned
                 ELSE [d \in Docs |-> IF d \in S!Staged(j) \ e.prints THEN None ELSE h.planned[d]]
  /\ HistTypes(g)

LEMMA RememberedIs ==
  ASSUME HistTypes(hist), NEW h, HistTypes(h), NEW j, NEW e, NEW g, g = S!Remembered(h, j, e)
  PROVE  RememberedAs(g, h, j, e)
<1>1. h = [planned |-> h.planned, upto |-> h.upto, failed |-> h.failed, ran |-> h.ran]
  BY DEF HistTypes
<1>2. PICK upto : upto = IF e.files THEN [d \in Docs |-> IF j.staged[d] # None THEN h.planned[d] ELSE h.upto[d]]
                         ELSE h.upto
  OBVIOUS
<1>3. PICK planned : planned = IF e.ok \/ (e.alive /\ ~e.files) THEN h.planned
                        ELSE [d \in Docs |-> IF d \in S!Staged(j) \ e.prints THEN None ELSE h.planned[d]]
  OBVIOUS
<1>4. PICK ran : ran = IF e.alive THEN h.ran ELSE {}
  OBVIOUS
<1>5. g = [h EXCEPT !.upto = upto, !.planned = planned, !.ran = ran]
  BY <1>2, <1>3, <1>4 DEF S!Remembered
<1>6. g = [planned |-> planned, upto |-> upto, failed |-> h.failed, ran |-> ran]
  BY <1>1, <1>5
<1>7. /\ upto \in [Docs -> (S!Contents \X S!Specs) \cup {None}]
      /\ planned \in [Docs -> (S!Contents \X S!Specs) \cup {None}]
  BY <1>2, <1>3 DEF HistTypes
<1>8. HistTypes(g)
  BY <1>6, <1>7 DEF HistTypes
<1> QED BY <1>2, <1>3, <1>4, <1>6, <1>8 DEF RememberedAs

LEMMA ForgotIs ==
  ASSUME NEW h, HistTypes(h), NEW i, i.staged \in [Docs -> S!Fingerprints \cup {None}], NEW stamps,
         PlannedIs([d \in Docs |-> Marks(i, stamps, d)], h), NEW g, g = S!Forgot(h, i)
  PROVE  /\ HistTypes(g) /\ g.failed = h.failed /\ g.upto = h.upto /\ g.ran = {}
         /\ PlannedIs([d \in Docs |-> stamps[d]], g)
<1>1. h = [planned |-> h.planned, upto |-> h.upto, failed |-> h.failed, ran |-> h.ran]
  BY DEF HistTypes
<1>2. PICK planned : planned = [d \in Docs |-> IF d \in S!Staged(i) THEN None ELSE h.planned[d]]
  OBVIOUS
<1>3. g = [h EXCEPT !.planned = planned, !.ran = {}]
  BY <1>2 DEF S!Forgot
<1>4. g = [planned |-> planned, upto |-> h.upto, failed |-> h.failed, ran |-> {}]
  BY <1>1, <1>3
<1>5. planned \in [Docs -> (S!Contents \X S!Specs) \cup {None}]
  BY <1>2 DEF HistTypes
<1>6. HistTypes(g)
  BY <1>4, <1>5 DEF HistTypes
<1>7. ASSUME NEW d \in Docs, g.planned[d] # None
      PROVE  /\ stamps[d] # None
             /\ PlanFor(stamps[d], d, g.planned[d][1], g.planned[d][2], g.failed)
  <2>1. i.staged[d] = None /\ g.planned[d] = h.planned[d]
    BY <1>2, <1>4, <1>7 DEF S!Staged
  <2>2. Marks(i, stamps, d) = stamps[d]
    BY <2>1 DEF Marks
  <2> QED BY <1>4, <1>7, <2>1, <2>2 DEF PlannedIs
<1> QED BY <1>4, <1>6, <1>7 DEF PlannedIs

\* A plan that is not committed: nothing on disk moves.
LEMMA StagedOnly ==
  ASSUME S!SearchIndexConstants, S!Regime, HistTypes(hist), DiskTypes(files, prints),
         NEW spec \in S!Specs, NEW i, NEW names, NEW content, NEW held,
         Found(i, spec, names, content, held), NEW plans, NEW j, NEW h,
         AppliedTo(i, spec, names, content, plans, j, h),
         "crash" \in Faults => ~j.dirty,
         NEW k \in S!Index, k.spec = j.spec, k.src = j.src, k.writer = j.writer,
         k.staged = j.staged, ~j.dirty => ~k.dirty,
         NEW g, HistTypes(g), g.planned = h.planned, g.upto = h.upto, g.failed = h.failed,
         g.ran \subseteq h.ran, NEW r, r.alive, r.alive \in BOOLEAN, r.ok \in BOOLEAN,
         r.ix = k, r.files = files, r.prints = prints, r.hist = g
  PROVE  Outcome(r, spec, held)
<1>1. /\ j \in S!Index /\ j.spec = spec /\ j.src = spec /\ Unique(j.writer)
      /\ HistTypes(h) /\ hist.failed \subseteq h.failed /\ h.upto = hist.upto
      /\ \A d \in Docs : Right(S!Parsed(Marks(j, prints, d)), j.writer, d, h.failed)
      /\ ~j.dirty => j.staged = i.staged /\ j.writer = i.writer /\ ~i.dirty
  BY DEF AppliedTo
<1>2. /\ PlannedIs([d \in Docs |-> Marks(j, prints, d)], h)
      /\ \A d \in Docs :
           /\ j.staged[d] # None => h.planned[d] # None
           /\ j.staged[d] = None => \A x : x[1] = d => (x \in j.writer <=> x \in files)
      /\ UptoIs(files, h) /\ RanMoved(h)
  BY AppliedPlanned
<1>3. /\ k \in S!Index /\ k.spec = spec /\ k.src = spec /\ k.writer = j.writer
      /\ k.staged = j.staged /\ (~j.dirty => ~k.dirty)
  BY <1>1
<1>4. \A d \in Docs : Marks(k, prints, d) = Marks(j, prints, d)
  BY <1>3 DEF Marks
<1>5. "crash" \in Faults =>
        /\ i.staged = S!Unstaged /\ i.writer = files /\ ~i.dirty
        /\ \A d \in Docs : held[d] = None =>
             S!Parsed(prints[d]).of = {} /\ Right(S!Parsed(prints[d]), files, d, hist.failed)
  BY DEF Found
<1>6. spec # Broken
  BY DEF S!Specs
<1>7. IndexIs(k, files, prints, g)
  <2>1. "crash" \in Faults => k.staged = S!Unstaged /\ k.writer = files /\ ~k.dirty
    BY <1>1, <1>3, <1>5
  <2> QED BY <1>1, <1>2, <1>3, <1>4, <1>6, <2>1 DEF IndexIs
<1>8. PlannedIs([d \in Docs |-> Marks(k, prints, d)], g)
  BY <1>2, <1>4 DEF PlannedIs
<1>9. UptoIs(files, g)
  BY <1>2 DEF UptoIs
<1>10. ASSUME NEW d \in Docs
       PROVE  Right(S!Parsed(prints[d]), files, d, g.failed)
  <2>1. PICK p : p = S!Parsed(prints[d])
    OBVIOUS
  <2>2. CASE "crash" \in Faults
    <3>1. j.staged[d] = None /\ j.writer = files
      BY <1>1, <1>5, <2>2 DEF S!Unstaged
    <3>2. Marks(j, prints, d) = prints[d]
      BY <3>1 DEF Marks
    <3> QED BY <1>1, <3>1, <3>2
  <2>3. CASE "crash" \notin Faults
    <3>1. Right(p, files, d, hist.failed)
      BY <2>1, <2>3 DEF Found
    <3> QED BY <1>1, <2>1, <3>1, RightStays
  <2> QED BY <2>2, <2>3
<1>11. StoredIs(spec, held, files, prints, g.failed, ~r.alive)
  BY <1>5, <1>10 DEF StoredIs
<1>12. RanMoved(g)
  BY <1>2 DEF RanMoved
<1> QED BY <1>3, <1>7, <1>8, <1>9, <1>11, <1>12 DEF Outcome

\* What a commit lands is right with the files it lands.
LEMMA LandedIs ==
  ASSUME S!SearchIndexConstants, S!Regime, HistTypes(hist), DiskTypes(files, prints),
         NEW spec \in S!Specs, NEW i, NEW names, NEW content, NEW held,
         Found(i, spec, names, content, held), NEW plans, NEW j, NEW h,
         AppliedTo(i, spec, names, content, plans, j, h),
         NEW e, e.prints \subseteq S!Staged(j), e.files,
         NEW after, after = S!LandedPrints(j, e),
         NEW g, g = S!Remembered(h, j, e)
  PROVE  /\ DiskTypes(j.writer, after) /\ UptoIs(j.writer, g)
         /\ \A d \in Docs : d \in e.prints \/ j.staged[d] = None => after[d] = Marks(j, prints, d)
         /\ \A d \in Docs : d \notin e.prints => after[d] = prints[d]
         /\ HistTypes(g) /\ g.failed = h.failed
<1>1. /\ j \in S!Index /\ Unique(j.writer) /\ HistTypes(h)
      /\ \A d \in Docs : Right(S!Parsed(Marks(j, prints, d)), j.writer, d, h.failed)
  BY DEF AppliedTo
<1>2. /\ PlannedIs([d \in Docs |-> Marks(j, prints, d)], h)
      /\ \A d \in Docs :
           /\ j.staged[d] # None => h.planned[d] # None
           /\ j.staged[d] = None => \A x : x[1] = d => (x \in j.writer <=> x \in files)
      /\ UptoIs(files, h)
  BY AppliedPlanned
<1>3. /\ j.staged \in [Docs -> S!Fingerprints \cup {None}] /\ j.writer \in SUBSET S!Record
  BY <1>1 DEF S!Index
<1>4. after = [d \in Docs |-> IF d \in e.prints THEN j.staged[d] ELSE prints[d]]
  BY DEF S!LandedPrints
<1>5. \A d \in Docs : d \in S!Staged(j) <=> j.staged[d] # None
  BY DEF S!Staged
<1>6. after \in [Docs -> S!Fingerprints \cup {None}]
  BY <1>3, <1>4 DEF DiskTypes
<1>7. \A d \in Docs : d \in e.prints \/ j.staged[d] = None => after[d] = Marks(j, prints, d)
  BY <1>4, <1>5 DEF Marks
<1>8. /\ g.failed = h.failed /\ HistTypes(g)
      /\ g.upto = [d \in Docs |-> IF j.staged[d] # None THEN h.planned[d] ELSE h.upto[d]]
  <2>1. RememberedAs(g, h, j, e)
    BY <1>1, RememberedIs
  <2> QED BY <2>1 DEF RememberedAs
<1>9. UptoIs(j.writer, g)
  <2> SUFFICES ASSUME NEW d \in Docs, g.upto[d] # None
               PROVE  \E p \in S!Fingerprints :
                        /\ Right(p, j.writer, d, h.failed)
                        /\ PlanFor(p, d, g.upto[d][1], g.upto[d][2], h.failed)
    BY <1>8 DEF UptoIs
  <2>1. CASE j.staged[d] # None
    <3>1. PICK p : p = j.staged[d]
      OBVIOUS
    <3>2. p \in S!Fingerprints /\ p # None /\ Marks(j, prints, d) = p
      BY <1>3, <2>1, <3>1 DEF Marks
    <3>3. Right(p, j.writer, d, h.failed)
      BY <1>1, <3>2 DEF S!Parsed
    <3>4. g.upto[d] = h.planned[d] /\ h.planned[d] # None
      BY <1>2, <1>8, <2>1
    <3>5. PlanFor(p, d, h.planned[d][1], h.planned[d][2], h.failed)
      BY <1>2, <3>2, <3>4 DEF PlannedIs
    <3> QED BY <3>2, <3>3, <3>4, <3>5
  <2>2. CASE j.staged[d] = None
    <3>1. g.upto[d] = h.upto[d]
      BY <1>8, <2>2
    <3>2. PICK p \in S!Fingerprints : /\ Right(p, files, d, h.failed)
                                      /\ PlanFor(p, d, h.upto[d][1], h.upto[d][2], h.failed)
      BY <1>2, <2>2, <3>1 DEF UptoIs
    <3>3. Right(p, j.writer, d, h.failed)
      BY <1>2, <2>2, <3>2, RightStays
    <3> QED BY <3>1, <3>2, <3>3
  <2> QED BY <2>1, <2>2
<1> QED BY <1>1, <1>3, <1>4, <1>6, <1>7, <1>8, <1>9 DEF DiskTypes

LEMMA Committed ==
  ASSUME S!SearchIndexConstants, S!Regime, HistTypes(hist), DiskTypes(files, prints),
         NEW spec \in S!Specs, NEW i, NEW names, NEW content, NEW held,
         Found(i, spec, names, content, held),
         NEW plans, plans = S!Plans(i, names, content), NEW j, NEW h,
         AppliedTo(i, spec, names, content, plans, j, h),
         NEW e, e.prints = S!Staged(j), e.files, e.ok, e.ok \in BOOLEAN, e.alive, e.alive \in BOOLEAN,
         NEW r, r = [alive |-> e.alive, ok |-> e.ok, ix |-> S!Landed(j, e), files |-> j.writer,
                     prints |-> S!LandedPrints(j, e), hist |-> S!Remembered(h, j, e)]
  PROVE  Outcome(r, spec, held)
<1>1. /\ j \in S!Index /\ j.spec = spec /\ j.src = spec /\ Unique(j.writer) /\ HistTypes(h)
      /\ \A d \in Docs : Right(S!Parsed(Marks(j, prints, d)), j.writer, d, h.failed)
      /\ \A d \in names :
           /\ Marks(j, prints, d) = plans[d].prints
           /\ plans[d] = S!Plan(spec, content[d], S!Parsed(Marks(i, prints, d)))
           /\ plans[d].prints \in S!Fingerprints
      /\ \A d \in Docs \ names : j.staged[d] = i.staged[d]
      /\ hist.failed \subseteq h.failed
  BY DEF AppliedTo
<1>2. /\ PlannedIs([d \in Docs |-> Marks(j, prints, d)], h)
      /\ \A d \in Docs :
           /\ j.staged[d] # None => h.planned[d] # None
           /\ j.staged[d] = None => \A x : x[1] = d => (x \in j.writer <=> x \in files)
      /\ RanMoved(h)
  BY AppliedPlanned
<1>3. PICK after : after = S!LandedPrints(j, e)
  OBVIOUS
<1>4. PICK g : g = S!Remembered(h, j, e)
  OBVIOUS
<1>5. /\ DiskTypes(j.writer, after) /\ UptoIs(j.writer, g)
      /\ \A d \in Docs : d \in e.prints \/ j.staged[d] = None => after[d] = Marks(j, prints, d)
      /\ HistTypes(g) /\ g.failed = h.failed
  BY <1>3, <1>4, LandedIs
<1>6. \A d \in Docs : after[d] = Marks(j, prints, d)
  BY <1>5 DEF S!Staged
<1>7. PICK k : k = S!Landed(j, e)
  OBVIOUS
<1>8. /\ k \in S!Index /\ k.spec = spec /\ k.src = spec /\ k.writer = j.writer
      /\ k.staged = S!Unstaged /\ ~k.dirty
  <2>1. j = [src |-> j.src, spec |-> j.spec, reader |-> j.reader, writer |-> j.writer,
             staged |-> j.staged, dirty |-> j.dirty, memo |-> j.memo]
    BY <1>1 DEF S!Index
  <2>2. PICK no \in BOOLEAN : no = FALSE
    OBVIOUS
  <2>3. k = [j EXCEPT !.dirty = no, !.reader = j.writer, !.staged = S!Unstaged, !.memo = None]
    BY <1>7, <2>2 DEF S!Landed
  <2>4. k = [src |-> j.src, spec |-> j.spec, reader |-> j.writer, writer |-> j.writer,
             staged |-> S!Unstaged, dirty |-> no, memo |-> None]
    BY <2>1, <2>3
  <2>5. S!Unstaged \in [Docs -> S!Fingerprints \cup {None}]
    BY DEF S!Unstaged
  <2> QED BY <1>1, <2>2, <2>4, <2>5 DEF S!Index
<1>9. \A d \in Docs : k.staged[d] = None /\ Marks(k, after, d) = Marks(j, prints, d)
  BY <1>6, <1>8 DEF Marks, S!Unstaged
<1>10. g.planned = h.planned /\ g.ran \subseteq h.ran
  <2>1. RememberedAs(g, h, j, e)
    BY <1>1, <1>4, RememberedIs
  <2> QED BY <2>1 DEF RememberedAs
<1>11. PlannedIs([d \in Docs |-> Marks(k, after, d)], g)
  BY <1>2, <1>5, <1>9, <1>10 DEF PlannedIs
<1>12. spec # Broken
  BY DEF S!Specs
<1>13. IndexIs(k, j.writer, after, g)
  BY <1>1, <1>5, <1>8, <1>9, <1>12 DEF IndexIs
<1>14. ASSUME "crash" \in Faults, NEW d \in Docs, held[d] = None
       PROVE  S!Parsed(after[d]).of = {}
  <2>1. S!Parsed(prints[d]).of = {} /\ i.staged[d] = None
    BY <1>14 DEF Found, S!Unstaged
  <2>2. CASE d \in names
    <3>1. content[d] = S!Nothing
      BY <1>14, <2>2 DEF Found
    <3>2. Marks(i, prints, d) = prints[d]
      BY <2>1 DEF Marks
    <3>3. PICK prev : prev = S!Parsed(prints[d])
      OBVIOUS
    <3>4. PICK p : p = plans[d]
      OBVIOUS
    <3>5. p = S!Plan(spec, S!Nothing, prev) /\ prev.of = {}
      BY <1>1, <2>1, <2>2, <3>1, <3>2, <3>3, <3>4
    <3>6. p.prints.of = {}
      BY <3>5, NothingPlanned
    <3>7. after[d] = p.prints /\ p.prints \in S!Fingerprints
      BY <1>1, <1>6, <2>2, <3>4
    <3> QED BY <3>6, <3>7 DEF S!Parsed, S!SearchIndexConstants
  <2>3. CASE d \notin names
    <3>1. after[d] = prints[d]
      BY <1>1, <1>6, <2>1, <2>3 DEF Marks
    <3> QED BY <2>1, <3>1
  <2> QED BY <2>2, <2>3
<1>15. StoredIs(spec, held, j.writer, after, g.failed, ~r.alive)
  BY <1>1, <1>5, <1>6, <1>14 DEF StoredIs
<1>16. /\ r.alive = e.alive /\ r.ok = e.ok /\ r.ix = k /\ r.files = j.writer /\ r.prints = after
       /\ r.hist = g
  BY <1>3, <1>4, <1>7
<1>17. RanMoved(g)
  BY <1>2, <1>10 DEF RanMoved
<1> QED BY <1>5, <1>8, <1>11, <1>13, <1>15, <1>16, <1>17 DEF Outcome

\* What a crash leaves: where the files landed and a document's fingerprints
\* did not, planning the document of before again comes to what the files hold.
LEMMA Crashed ==
  ASSUME S!SearchIndexConstants, S!Regime, HistTypes(hist), DiskTypes(files, prints),
         NEW spec \in S!Specs, NEW i, NEW names, NEW content, NEW held,
         Found(i, spec, names, content, held), names \cap spec.bad = {},
         NEW plans, plans = S!Plans(i, names, content), NEW j, NEW h,
         AppliedTo(i, spec, names, content, plans, j, h),
         NEW e, "crash" \in Faults, e.prints \subseteq S!Staged(j), ~e.files => e.prints = {},
         ~e.ok, e.ok \in BOOLEAN, ~e.alive, e.alive \in BOOLEAN,
         NEW r, r = [alive |-> e.alive, ok |-> e.ok, ix |-> S!Landed(j, e),
                     files |-> IF e.files THEN j.writer ELSE files,
                     prints |-> S!LandedPrints(j, e), hist |-> S!Remembered(h, j, e)]
  PROVE  Outcome(r, spec, held)
<1>1. /\ j \in S!Index /\ Unique(j.writer) /\ HistTypes(h)
      /\ \A d \in Docs : Right(S!Parsed(Marks(j, prints, d)), j.writer, d, h.failed)
      /\ \A d \in names :
           /\ Marks(j, prints, d) = plans[d].prints
           /\ plans[d] = S!Plan(spec, content[d], S!Parsed(Marks(i, prints, d)))
           /\ plans[d].prints \in S!Fingerprints
      /\ \A d \in Docs \ names : j.staged[d] = i.staged[d]
      /\ hist.failed \subseteq h.failed
  BY DEF AppliedTo
<1>2. /\ PlannedIs([d \in Docs |-> Marks(j, prints, d)], h)
      /\ \A d \in Docs :
           /\ j.staged[d] # None => h.planned[d] # None
           /\ j.staged[d] = None => \A x : x[1] = d => (x \in j.writer <=> x \in files)
      /\ UptoIs(files, h) /\ RanMoved(h)
  BY AppliedPlanned
<1>3. /\ i.staged = S!Unstaged /\ i.writer = files /\ names \subseteq spec.covers
      /\ \A d \in names : content[d] = IF held[d] # None THEN held[d] ELSE S!Nothing
      /\ \A d \in Docs : held[d] = None =>
           S!Parsed(prints[d]).of = {} /\ Right(S!Parsed(prints[d]), files, d, hist.failed)
      /\ \A d \in Docs :
           \/ Right(S!Parsed(Marks(i, prints, d)), i.writer, d, hist.failed)
           \/ d \in names /\ Right(S!Plan(spec, content[d], S!Parsed(Marks(i, prints, d))).prints,
                                   i.writer, d, hist.failed)
      /\ \A d \in Docs : WellFormed(S!Parsed(Marks(i, prints, d)))
  BY DEF Found, Plannable
<1>4. \A d \in Docs : Marks(i, prints, d) = prints[d]
  BY <1>3 DEF Marks, S!Unstaged
<1>5. PICK after : after = S!LandedPrints(j, e)
  OBVIOUS
<1>6. PICK g : g = S!Remembered(h, j, e)
  OBVIOUS
<1>7. PICK recs : recs = IF e.files THEN j.writer ELSE files
  OBVIOUS
<1>8. HistTypes(g) /\ g.failed = h.failed
      /\ g.planned = [d \in Docs |-> IF d \in S!Staged(j) \ e.prints THEN None ELSE h.planned[d]]
      /\ (~e.files => g.upto = h.upto) /\ g.ran \subseteq h.ran
  <2>1. RememberedAs(g, h, j, e)
    BY <1>1, <1>6, RememberedIs
  <2> QED BY <2>1 DEF RememberedAs
<1>9. /\ \A d \in Docs : d \in e.prints \/ j.staged[d] = None => after[d] = Marks(j, prints, d)
      /\ \A d \in Docs : d \notin e.prints => after[d] = prints[d]
  BY <1>5 DEF S!LandedPrints, S!Staged, Marks
<1>10. DiskTypes(recs, after) /\ UptoIs(recs, g)
  <2>1. CASE e.files
    BY <1>5, <1>6, <1>7, <2>1, LandedIs
  <2>2. CASE ~e.files
    <3>1. after = [d \in Docs |-> prints[d]]
      BY <1>5, <2>2 DEF S!LandedPrints
    <3>2. after = prints
      BY <3>1 DEF DiskTypes
    <3> QED BY <1>2, <1>7, <1>8, <2>2, <3>2 DEF UptoIs
  <2> QED BY <2>1, <2>2
<1>11. PlannedIs(after, g)
  <2> SUFFICES ASSUME NEW d \in Docs, g.planned[d] # None
               PROVE  /\ after[d] # None
                      /\ PlanFor(after[d], d, g.planned[d][1], g.planned[d][2], g.failed)
    BY DEF PlannedIs
  <2>1. g.planned[d] = h.planned[d] /\ (d \in e.prints \/ j.staged[d] = None)
    BY <1>8 DEF S!Staged
  <2>2. after[d] = Marks(j, prints, d)
    BY <1>9, <2>1
  <2> QED BY <1>2, <1>8, <2>1, <2>2 DEF PlannedIs
\* A document that is not in the vault has nothing to plan.
<1>12. ASSUME NEW d \in Docs, held[d] = None
       PROVE  S!Parsed(after[d]).of = {} /\ Right(S!Parsed(after[d]), recs, d, h.failed)
  <2>1. S!Parsed(prints[d]).of = {} /\ Right(S!Parsed(prints[d]), files, d, hist.failed)
    BY <1>3, <1>12
  <2>2. CASE d \notin names
    <3>1. j.staged[d] = None
      BY <1>1, <1>3, <2>2 DEF S!Unstaged
    <3>2. after[d] = prints[d]
      BY <1>9, <3>1 DEF Marks
    <3>3. \A x : x[1] = d => (x \in recs <=> x \in files)
      BY <1>2, <1>7, <3>1
    <3>4. Right(S!Parsed(prints[d]), recs, d, h.failed)
      <4>1. PICK p : p = S!Parsed(prints[d])
        OBVIOUS
      <4> QED BY <1>1, <2>1, <3>3, <4>1, RightStays
    <3> QED BY <2>1, <3>2, <3>4
  <2>3. CASE d \in names
    <3>1. PICK prev : prev = S!Parsed(prints[d])
      OBVIOUS
    <3>2. PICK p : p = plans[d]
      OBVIOUS
    <3>3. p = S!Plan(spec, S!Nothing, prev) /\ prev.of = {} /\ p.prints \in S!Fingerprints
      BY <1>1, <1>3, <1>4, <1>12, <2>1, <2>3, <3>1, <3>2
    <3>4. p.prints.of = {}
      BY <3>3, NothingPlanned
    <3>5. WellFormed(p.prints) /\ WellFormed(prev)
      BY <3>3, <3>4 DEF WellFormed
    <3>6. S!Parsed(Marks(j, prints, d)) = p.prints
      BY <1>1, <2>3, <3>2, <3>3 DEF S!Parsed, S!SearchIndexConstants
    <3>7. Right(p.prints, j.writer, d, h.failed)
      BY <1>1, <3>6
    <3>8. Right(prev, recs, d, h.failed)
      <4>1. CASE e.files
        BY <1>7, <3>3, <3>4, <3>5, <3>7, <4>1 DEF Right, Good, NoOrphans, S!Ids
      <4>2. CASE ~e.files
        <5>1. recs = files
          BY <1>7, <4>2
        <5> QED BY <1>1, <2>1, <3>1, <5>1, RightStays
      <4> QED BY <4>1, <4>2
    <3>9. CASE after[d] = prints[d]
      BY <3>1, <3>3, <3>8, <3>9
    <3>10. CASE after[d] # prints[d]
      <4>1. d \in e.prints /\ e.files
        BY <1>9, <3>10
      <4>2. S!Parsed(after[d]) = p.prints /\ recs = j.writer
        BY <1>7, <1>9, <3>6, <4>1
      <4> QED BY <3>4, <3>7, <4>2
    <3> QED BY <3>9, <3>10
  <2> QED BY <2>2, <2>3
<1>13. ASSUME NEW d \in Docs
       PROVE  \/ Right(S!Parsed(after[d]), recs, d, h.failed)
              \/ PendingAt(spec, held, recs, after, h.failed, d)
  <2>1. CASE held[d] = None
    BY <1>12, <2>1
  <2>2. CASE held[d] # None /\ d \notin names
    <3>1. j.staged[d] = None
      BY <1>1, <1>3, <2>2 DEF S!Unstaged
    <3>2. after[d] = prints[d] /\ Marks(j, prints, d) = prints[d]
      BY <1>9, <3>1 DEF Marks
    <3>3. CASE e.files
      BY <1>1, <1>7, <3>2, <3>3
    <3>4. CASE ~e.files
      <4>1. PICK p : p = S!Parsed(prints[d])
        OBVIOUS
      <4>2. Right(p, files, d, hist.failed)
        BY <1>3, <1>4, <2>2, <4>1
      <4>3. Right(p, files, d, h.failed)
        BY <1>1, <4>2, RightStays
      <4> QED BY <1>7, <3>2, <3>4, <4>1, <4>3
    <3> QED BY <3>3, <3>4
  <2>3. CASE held[d] # None /\ d \in names
    <3>1. content[d] = held[d] /\ d \in spec.covers \ spec.bad
      BY <1>3, <2>3
    <3>2. plans[d] = S!Plan(spec, held[d], S!Parsed(prints[d]))
      BY <1>1, <1>4, <2>3, <3>1
    <3>3. S!Parsed(Marks(j, prints, d)) = plans[d].prints
      BY <1>1, <2>3 DEF S!Parsed, S!SearchIndexConstants
    <3>4. CASE e.files
      <4>1. CASE d \in e.prints
        BY <1>1, <1>7, <1>9, <3>4, <4>1
      <4>2. CASE d \notin e.prints
        <5>1. after[d] = prints[d] /\ recs = j.writer
          BY <1>7, <1>9, <3>4, <4>2
        <5>2. Right(S!Plan(spec, held[d], S!Parsed(after[d])).prints, recs, d, h.failed)
          BY <1>1, <3>2, <3>3, <5>1
        <5>3. WellFormed(S!Parsed(after[d]))
          BY <1>3, <1>4, <5>1
        <5> QED BY <2>3, <3>1, <5>2, <5>3 DEF PendingAt
      <4> QED BY <4>1, <4>2
    <3>5. CASE ~e.files
      <4>1. after[d] = prints[d] /\ recs = files
        BY <1>7, <1>9, <3>5
      <4>2. PICK p : p = S!Parsed(prints[d])
        OBVIOUS
      <4>3. PICK q : q = S!Plan(spec, held[d], p).prints
        OBVIOUS
      <4>4. Right(p, files, d, hist.failed) \/ Right(q, files, d, hist.failed)
        BY <1>3, <1>4, <3>1, <4>2, <4>3
      <4>5. Right(p, files, d, h.failed) \/ Right(q, files, d, h.failed)
        BY <1>1, <4>4, RightStays
      <4>6. WellFormed(p)
        BY <1>3, <1>4, <4>2
      <4> QED BY <2>3, <3>1, <4>1, <4>2, <4>3, <4>5, <4>6 DEF PendingAt
    <3> QED BY <3>4, <3>5
  <2> QED BY <2>1, <2>2, <2>3
<1>14. /\ r.alive = e.alive /\ r.ok = e.ok /\ r.files = recs /\ r.prints = after /\ r.hist = g
  BY <1>5, <1>6, <1>7
<1>15. StoredIs(spec, held, recs, after, g.failed, ~r.alive)
  BY <1>8, <1>12, <1>13, <1>14 DEF StoredIs
<1>16. RanMoved(g)
  <2>1. \A d : d \in Docs /\ g.planned[d] # None => g.planned[d] = h.planned[d]
    BY <1>8
  <2>2. \A x \in h.ran : x[1] \in Docs
    BY DEF AppliedTo, Found, Plannable
  <2> QED BY <1>2, <1>8, <2>1, <2>2 DEF RanMoved
<1> QED BY <1>8, <1>10, <1>11, <1>14, <1>15, <1>16 DEF Outcome

LEMMA FoundFewer ==
  ASSUME NEW spec, NEW i, NEW names, NEW content, NEW held, Found(i, spec, names, content, held),
         "crash" \notin Faults \/ names \subseteq spec.bad, NEW some \in SUBSET names
  PROVE  Found(i, spec, some, content, held)
<1>1. \A d \in Docs : Right(S!Parsed(Marks(i, prints, d)), i.writer, d, hist.failed)
  BY DEF Found, Plannable
<1>2. Plannable(i, spec, some, content)
  BY <1>1 DEF Found, Plannable
<1> QED BY <1>2 DEF Found

\* reindex, of documents found so, comes to an outcome that is right.
LEMMA ReindexedIs ==
  ASSUME S!SearchIndexConstants, S!Regime, HistTypes(hist), DiskTypes(files, prints),
         NEW spec \in S!Specs, NEW i, NEW names, NEW content, NEW held,
         Found(i, spec, names, content, held), NEW r \in S!Reindexed(i, names, content)
  PROVE  Outcome(r, spec, held)
<1> DEFINE with(some) == [alive |-> TRUE, ok |-> some = names, ix |-> S!Applied(i, some, content),
                          files |-> files, prints |-> prints,
                          hist |-> S!Planned(some, i, content, S!Plans(i, some, content))]
<1>1. PICK j : j = S!Applied(i, names, content)
  OBVIOUS
<1>2. PICK plans : plans = S!Plans(i, names, content)
  OBVIOUS
<1>3. PICK h : h = S!Planned(names, i, content, plans)
  OBVIOUS
<1>4. i.spec = spec /\ Plannable(i, spec, names, content)
  BY DEF Found, Plannable
<1>5. AppliedTo(i, spec, names, content, plans, j, h)
  BY <1>1, <1>2, <1>3, <1>4, AppliedIs
<1>6. HistTypes(h)
  BY <1>5 DEF AppliedTo
<1>7. CASE names \cap spec.bad # {}
  <2>1. "crash" \notin Faults \/ names \subseteq spec.bad
    <3>1. names \subseteq spec.covers
      BY DEF Found
    <3> QED BY <1>7, <3>1 DEF S!Regime
  <2>2. PICK some \in SUBSET (names \ spec.bad) : r = with(some)
    BY <1>4, <1>7 DEF S!Reindexed
  <2>3. some \in SUBSET names
    BY <2>2
  <2>4. Found(i, spec, some, content, held)
    BY <2>1, <2>3, FoundFewer
  <2>5. Plannable(i, spec, some, content)
    BY <2>4 DEF Found
  <2>6. PICK k : k = S!Applied(i, some, content)
    OBVIOUS
  <2>7. PICK these : these = S!Plans(i, some, content)
    OBVIOUS
  <2>8. PICK g : g = S!Planned(some, i, content, these)
    OBVIOUS
  <2>9. AppliedTo(i, spec, some, content, these, k, g)
    BY <2>5, <2>6, <2>7, <2>8, AppliedIs
  <2>10. HistTypes(g)
    BY <2>9 DEF AppliedTo
  <2>11. /\ r.alive /\ r.alive \in BOOLEAN /\ r.ok \in BOOLEAN /\ r.ix = k /\ r.files = files
         /\ r.prints = prints /\ r.hist = g
    <3>1. PICK b \in BOOLEAN : b = (some = names)
      OBVIOUS
    <3>2. PICK yes : yes = TRUE
      OBVIOUS
    <3>3. r = [alive |-> yes, ok |-> b, ix |-> k, files |-> files, prints |-> prints, hist |-> g]
      BY <2>2, <2>6, <2>7, <2>8, <3>1, <3>2
    <3> QED BY <3>2, <3>3
  <2>13. "crash" \in Faults => ~k.dirty
    <3> SUFFICES ASSUME "crash" \in Faults PROVE ~k.dirty
      OBVIOUS
    <3>1. some = {}
      BY <2>1, <2>2
    <3>2. i \in S!Index /\ ~i.dirty
      BY <2>5 DEF Found, Plannable
    <3>3. i = [src |-> i.src, spec |-> i.spec, reader |-> i.reader, writer |-> i.writer,
               staged |-> i.staged, dirty |-> i.dirty, memo |-> i.memo]
      BY <3>2 DEF S!Index
    <3>4. PICK yes \in BOOLEAN :
            yes = (\/ i.dirty
                   \/ {d \in some : S!Plans(i, some, content)[d].prints # S!PrintsOf(i, d)} # {}
                   \/ \E d \in some : \/ S!Plans(i, some, content)[d].upserts # {}
                                      \/ S!Plans(i, some, content)[d].deletes # {})
      BY <3>2 DEF S!Index
    <3>5. ~yes
      BY <3>1, <3>2, <3>4
    <3>6. PICK w, st : k = [i EXCEPT !.writer = w, !.staged = st, !.dirty = yes]
      BY <2>6, <3>4 DEF S!Applied
    <3>7. k = [src |-> i.src, spec |-> i.spec, reader |-> i.reader, writer |-> w,
               staged |-> st, dirty |-> yes, memo |-> i.memo]
      BY <3>3, <3>6
    <3> QED BY <3>5, <3>7
  <2> HIDE DEF with
  <2>12. k \in S!Index
    BY <2>9 DEF AppliedTo
  <2> QED BY <2>13, <2>4, <2>9, <2>10, <2>11, <2>12, StagedOnly
<1>8. CASE names \cap spec.bad = {} /\ ~j.dirty
  <2>1. r = with(names)
    BY <1>1, <1>4, <1>8 DEF S!Reindexed
  <2>2. /\ r.alive /\ r.alive \in BOOLEAN /\ r.ok /\ r.ok \in BOOLEAN /\ r.ix = j /\ r.files = files
        /\ r.prints = prints /\ r.hist = h
    <3>1. PICK yes : yes = TRUE
      OBVIOUS
    <3>2. r = [alive |-> yes, ok |-> yes, ix |-> j, files |-> files, prints |-> prints, hist |-> h]
      BY <1>1, <1>2, <1>3, <2>1, <3>1
    <3> QED BY <3>1, <3>2
  <2> HIDE DEF with
  <2>3. j \in S!Index
    BY <1>5 DEF AppliedTo
  <2> QED BY <1>5, <1>6, <1>8, <2>2, <2>3, StagedOnly
<1>9. CASE names \cap spec.bad = {} /\ j.dirty
  <2>1. PICK e \in S!Ends(j) :
          r = [alive |-> e.alive, ok |-> e.ok, ix |-> S!Landed(j, e),
               files |-> IF e.files THEN j.writer ELSE files,
               prints |-> S!LandedPrints(j, e),
               hist |-> S!Remembered(with(names).hist, j, e)]
    BY <1>1, <1>4, <1>9 DEF S!Reindexed
  <2>2. with(names).hist = h
    BY <1>2, <1>3
  <2> HIDE DEF with
  <2>3. r = [alive |-> e.alive, ok |-> e.ok, ix |-> S!Landed(j, e),
             files |-> IF e.files THEN j.writer ELSE files,
             prints |-> S!LandedPrints(j, e), hist |-> S!Remembered(h, j, e)]
    BY <2>1, <2>2
  <2>4. e.ok \in BOOLEAN /\ e.alive \in BOOLEAN
    BY EndsAreTyped
  <2>5. CASE e.ok /\ e.alive /\ e.files /\ e.prints = S!Staged(j)
    <3>1. r = [alive |-> e.alive, ok |-> e.ok, ix |-> S!Landed(j, e), files |-> j.writer,
               prints |-> S!LandedPrints(j, e), hist |-> S!Remembered(h, j, e)]
      BY <2>3, <2>5
    <3> QED BY <1>2, <1>5, <2>4, <2>5, <3>1, Committed
  <2>6. CASE "crash" \notin Faults /\ ~e.ok /\ e.alive /\ ~e.files /\ e.prints = {}
    <3>1. PICK k : k = [j EXCEPT !.dirty = FALSE]
      OBVIOUS
    <3>2. S!Landed(j, e) = k
      BY <2>6, <3>1 DEF S!Landed
    <3>3. S!LandedPrints(j, e) = prints
      <4>1. S!LandedPrints(j, e) = [d \in Docs |-> prints[d]]
        BY <2>6 DEF S!LandedPrints
      <4> QED BY <4>1 DEF DiskTypes
    <3>4. PICK g : g = S!Remembered(h, j, e)
      OBVIOUS
    <3>5. /\ HistTypes(g) /\ g.planned = h.planned /\ g.upto = h.upto /\ g.failed = h.failed
          /\ g.ran \subseteq h.ran
      <4>1. RememberedAs(g, h, j, e)
        BY <1>6, <3>4, RememberedIs
      <4> QED BY <2>6, <4>1 DEF RememberedAs
    <3>6. /\ r.alive /\ r.alive \in BOOLEAN /\ r.ok \in BOOLEAN /\ r.ix = k /\ r.files = files
          /\ r.prints = prints /\ r.hist = g
      BY <2>3, <2>4, <2>6, <3>2, <3>3, <3>4
    <3>7. "crash" \notin Faults
      BY <2>6
    <3>8. /\ k \in S!Index /\ k.spec = j.spec /\ k.src = j.src /\ k.writer = j.writer
          /\ k.staged = j.staged /\ ~k.dirty
      <4>1. j \in S!Index
        BY <1>5 DEF AppliedTo
      <4>2. j = [src |-> j.src, spec |-> j.spec, reader |-> j.reader, writer |-> j.writer,
                 staged |-> j.staged, dirty |-> j.dirty, memo |-> j.memo]
        BY <4>1 DEF S!Index
      <4>3. PICK no \in BOOLEAN : no = FALSE
        OBVIOUS
      <4>4. k = [src |-> j.src, spec |-> j.spec, reader |-> j.reader, writer |-> j.writer,
                 staged |-> j.staged, dirty |-> no, memo |-> j.memo]
        BY <3>1, <4>2, <4>3
      <4> QED BY <4>1, <4>3, <4>4 DEF S!Index
    <3> QED BY <1>5, <3>5, <3>6, <3>7, <3>8, StagedOnly
  <2>7. CASE /\ "crash" \in Faults /\ ~e.ok /\ ~e.alive
             /\ e.prints \subseteq S!Staged(j) /\ (~e.files => e.prints = {})
    BY <1>2, <1>5, <1>9, <2>3, <2>4, <2>7, Crashed
  <2> QED BY <2>5, <2>6, <2>7, EndsAre
<1> QED
  <2>1. j.dirty \in BOOLEAN
    BY <1>5 DEF AppliedTo, S!Index
  <2> QED BY <1>7, <1>8, <1>9, <2>1

-----------------------------------------------------------------------------
\* What the callers of reindex give it: an index that may be planned by, and
\* documents as the vault comes to hold them
Sound(i, t, names, content, held) ==
  /\ i \in S!Index /\ i.spec = i.src /\ i.src # Broken /\ Unique(i.writer)
  /\ names \subseteq Docs /\ \A d \in names : content[d] \in S!Contents
  /\ S!Covered(i, names) # {} => t = i.spec
  /\ \A d \in Docs :
       /\ WellFormed(S!Parsed(Marks(i, prints, d)))
       /\ \/ Right(S!Parsed(Marks(i, prints, d)), i.writer, d, hist.failed)
          \/ /\ d \in S!Covered(i, names) \ i.spec.bad
             /\ Right(S!Plan(i.spec, content[d], S!Parsed(Marks(i, prints, d))).prints,
                      i.writer, d, hist.failed)
       /\ i.staged[d] # None => hist.planned[d] # None
       /\ i.staged[d] = None => \A r : r[1] = d => (r \in i.writer <=> r \in files)
  /\ PlannedIs([d \in Docs |-> Marks(i, prints, d)], hist) /\ UptoIs(files, hist)
  /\ "crash" \in Faults =>
       /\ i.staged = S!Unstaged /\ i.writer = files /\ ~i.dirty
       /\ \A d \in names : content[d] = IF held[d] # None THEN held[d] ELSE S!Nothing
       /\ \A d \in Docs : held[d] = None =>
            S!Parsed(prints[d]).of = {} /\ Right(S!Parsed(prints[d]), files, d, hist.failed)
  /\ "crash" \notin Faults => \A d \in Docs :
       /\ Right(S!Parsed(prints[d]), files, d, hist.failed)
       /\ Right(S!Parsed(Marks(i, prints, d)), i.writer, d, hist.failed)

LEMMA ReindexIs ==
  ASSUME S!SearchIndexConstants, S!Regime, HistTypes(hist), DiskTypes(files, prints),
         NEW i, NEW t, NEW names, NEW content, NEW held, Sound(i, t, names, content, held),
         NEW r \in S!Reindex(i, names, content)
  PROVE  Outcome(r, t, held)
<1>1. PICK covered : covered = S!Covered(i, names)
  OBVIOUS
<1>2. covered \subseteq names /\ (covered # {} => i.spec # None /\ covered \subseteq i.spec.covers)
  BY <1>1 DEF S!Covered
<1>3. CASE covered # {}
  <2>1. i.spec \in S!Specs /\ t = i.spec
    BY <1>1, <1>2, <1>3 DEF Sound, S!Index, S!Specs
  <2>2. Found(i, i.spec, covered, content, held)
    BY <1>1, <1>2, <1>3 DEF Sound, Found, Plannable
  <2>3. r \in S!Reindexed(i, covered, content)
    BY <1>1, <1>3 DEF S!Reindex
  <2> QED BY <2>1, <2>2, <2>3, ReindexedIs
<1>4. CASE covered = {}
  <2>1. PICK g : g = [hist EXCEPT !.ran = {}]
    OBVIOUS
  <2>2. g = [planned |-> hist.planned, upto |-> hist.upto, failed |-> hist.failed, ran |-> {}]
    BY <2>1 DEF HistTypes
  <2>3. /\ g.planned = hist.planned /\ g.upto = hist.upto /\ g.failed = hist.failed
        /\ g.ran = {} /\ HistTypes(g)
    BY <2>2 DEF HistTypes
  <2>4. /\ r.alive /\ r.alive \in BOOLEAN /\ r.ok /\ r.ok \in BOOLEAN /\ r.ix = i /\ r.files = files
        /\ r.prints = prints /\ r.hist = g
    <3>1. PICK yes : yes = TRUE
      OBVIOUS
    <3>2. r = [alive |-> yes, ok |-> yes, ix |-> i, files |-> files, prints |-> prints, hist |-> g]
      BY <1>1, <1>4, <2>1, <3>1 DEF S!Reindex
    <3> QED BY <3>1, <3>2
  <2>5. \A d \in Docs : Right(S!Parsed(Marks(i, prints, d)), i.writer, d, hist.failed)
    BY <1>1, <1>4 DEF Sound
  <2>6. IndexIs(i, files, prints, g)
    BY <2>3, <2>5 DEF Sound, IndexIs
  <2>7. PlannedIs([d \in Docs |-> Marks(i, prints, d)], g) /\ UptoIs(files, g)
    BY <2>3 DEF Sound, PlannedIs, UptoIs
  <2>8. \A d \in Docs : Right(S!Parsed(prints[d]), files, d, hist.failed)
    <3>1. CASE "crash" \in Faults
      <4>1. i.staged = S!Unstaged /\ i.writer = files
        BY <3>1 DEF Sound
      <4>2. \A d \in Docs : Marks(i, prints, d) = prints[d]
        BY <4>1 DEF Marks, S!Unstaged
      <4> QED BY <2>5, <4>1, <4>2
    <3>2. CASE "crash" \notin Faults
      BY <3>2 DEF Sound
    <3> QED BY <3>1, <3>2
  <2>9. StoredIs(t, held, files, prints, g.failed, ~r.alive)
    BY <2>3, <2>8 DEF Sound, StoredIs
  <2>10. i \in S!Index
    BY DEF Sound
  <2>11. RanMoved(g)
    BY <2>3 DEF RanMoved
  <2> QED BY <2>3, <2>4, <2>6, <2>7, <2>9, <2>10, <2>11 DEF Outcome
<1> QED BY <1>3, <1>4

\* The documents of the item, as an app that has opened some reads them
LEMMA ContentIs ==
  ASSUME NEW l \in [Docs -> S!Contents \cup {None}], NEW v \in [Docs -> S!Contents \cup {None}],
         None \notin S!Contents, Mirrors(l, v), NEW content, content = S!Content(l, v)
  PROVE  /\ S!Has(l, v) \subseteq Docs
         /\ \A d \in S!Has(l, v) : /\ content[d] \in S!Contents
                                   /\ content[d] = IF v[d] # None THEN v[d] ELSE S!Nothing
         /\ \A d \in Docs : l[d] # None \/ v[d] # None => d \in S!Has(l, v)
BY DEF S!Has, S!Content, Mirrors

LEMMA SyncedIs ==
  ASSUME NEW i \in S!Index, NEW t \in Texts, t # Broken, NEW k, k = S!Synced(i, t)
  PROVE  /\ k \in S!Index /\ k.src = t /\ k.spec = t /\ k.writer = i.writer /\ k.staged = i.staged
         /\ k.dirty = i.dirty
<1>1. i = [src |-> i.src, spec |-> i.spec, reader |-> i.reader, writer |-> i.writer,
           staged |-> i.staged, dirty |-> i.dirty, memo |-> i.memo]
  BY DEF S!Index
<1>2. k = [i EXCEPT !.src = t, !.spec = t]
  BY DEF S!Synced, S!Loads
<1>3. k = [src |-> t, spec |-> t, reader |-> i.reader, writer |-> i.writer,
           staged |-> i.staged, dirty |-> i.dirty, memo |-> i.memo]
  BY <1>1, <1>2
<1> QED BY <1>3 DEF S!Index

\* The end of a message finds an index that is sound, whatever index.lua says.
LEMMA MessageIs ==
  ASSUME S!SearchIndexConstants, S!Regime, SearchInv, HasIndex, NEW t \in Texts,
         NEW l \in [Docs -> S!Contents \cup {None}], NEW v \in [Docs -> S!Contents \cup {None}],
         Mirrors(l, v), \A d \in Docs : v[d] = None => stored[d] = None,
         NEW wrote \in SUBSET Docs, \A d \in wrote : l[d] # None,
         NEW r \in S!IndexDirty(ix, t, wrote, l, v)
  PROVE  Outcome(r, t, v)
<1>1. /\ HistTypes(hist) /\ DiskTypes(files, prints) /\ ix \in S!Index
      /\ IndexIs(ix, files, prints, hist)
      /\ StoredIs(text, stored, files, prints, hist.failed, ix = Closed)
      /\ PlannedIs([d \in Docs |-> Marks(ix, prints, d)], hist) /\ UptoIs(files, hist)
  <2>1. \A d \in Docs : Now(d) = Marks(ix, prints, d)
    BY DEF Now
  <2>2. PlannedIs([d \in Docs |-> Marks(ix, prints, d)], hist)
    BY <2>1 DEF SearchInv, PlannedIs
  <2> QED BY <2>2 DEF SearchInv, Types, HasIndex
<1>2. None \notin S!Contents /\ Closed \notin S!Index
  BY DEF S!SearchIndexConstants
<1>3. PICK content : content = S!Content(l, v)
  OBVIOUS
<1>4. PICK has : has = S!Has(l, v)
  OBVIOUS
<1>5. /\ has \subseteq Docs
      /\ \A d \in has : content[d] \in S!Contents /\ content[d] = IF v[d] # None THEN v[d] ELSE S!Nothing
      /\ wrote \subseteq has
  BY <1>2, <1>3, <1>4, ContentIs
<1>6. \A d \in Docs : Right(S!Parsed(prints[d]), files, d, hist.failed)
  BY <1>1, <1>2 DEF StoredIs
<1>7. "crash" \in Faults => \A d \in Docs : v[d] = None =>
        S!Parsed(prints[d]).of = {} /\ Right(S!Parsed(prints[d]), files, d, hist.failed)
  BY <1>1 DEF StoredIs
<1>8. \A d \in Docs : /\ Right(S!Parsed(Marks(ix, prints, d)), ix.writer, d, hist.failed)
                      /\ WellFormed(S!Parsed(Marks(ix, prints, d)))
  BY <1>1 DEF IndexIs, Right
<1>9. ASSUME NEW k \in S!Index, k.src = k.spec, k.src # Broken, k.writer = ix.writer,
             k.staged = ix.staged, k.dirty = ix.dirty, NEW names \in SUBSET has,
             S!Covered(k, names) # {} => t = k.spec
      PROVE  Sound(k, t, names, content, v)
  <2>1. \A d : Marks(k, prints, d) = Marks(ix, prints, d)
    BY <1>9 DEF Marks
  <2>2. PlannedIs([d \in Docs |-> Marks(k, prints, d)], hist)
    BY <1>1, <2>1 DEF PlannedIs
  <2>3. \A d \in Docs :
       /\ WellFormed(S!Parsed(Marks(k, prints, d)))
       /\ Right(S!Parsed(Marks(k, prints, d)), k.writer, d, hist.failed)
       /\ k.staged[d] # None => hist.planned[d] # None
       /\ k.staged[d] = None => \A x : x[1] = d => (x \in k.writer <=> x \in files)
    BY <1>1, <1>8, <1>9, <2>1 DEF IndexIs
  <2>4. Unique(k.writer)
    BY <1>1, <1>9 DEF IndexIs
  <2>5. "crash" \in Faults => k.staged = S!Unstaged /\ k.writer = files /\ ~k.dirty
    BY <1>1, <1>9 DEF IndexIs
  <2>6. names \subseteq Docs /\ \A d \in names :
          content[d] \in S!Contents /\ content[d] = IF v[d] # None THEN v[d] ELSE S!Nothing
    BY <1>5
  <2> QED BY <1>1, <1>6, <1>7, <1>9, <2>2, <2>3, <2>4, <2>5, <2>6 DEF Sound
<1>10. ix.src = ix.spec /\ ix.src # Broken
  BY <1>1 DEF IndexIs
<1>11. CASE t = ix.src
  <2>1. Sound(ix, t, wrote, content, v)
    BY <1>1, <1>5, <1>9, <1>10, <1>11
  <2>2. r \in S!Reindex(ix, wrote, content)
    BY <1>3, <1>11 DEF S!IndexDirty
  <2> QED BY <1>1, <2>1, <2>2, ReindexIs
<1>12. CASE t # ix.src /\ t = Broken
  <2>1. r \in S!Reindex(ix, {}, content)
    BY <1>3, <1>12 DEF S!IndexDirty, S!Loads, S!Synced
  <2>2. S!Covered(ix, {}) = {}
    BY DEF S!Covered
  <2>3. Sound(ix, t, {}, content, v)
    BY <1>1, <1>9, <1>10, <2>2
  <2> QED BY <1>1, <2>1, <2>3, ReindexIs
<1>13. CASE t # ix.src /\ t # Broken
  <2>1. PICK k : k = S!Synced(ix, t)
    OBVIOUS
  <2>2. /\ k \in S!Index /\ k.src = t /\ k.spec = t /\ k.writer = ix.writer /\ k.staged = ix.staged
        /\ k.dirty = ix.dirty
    BY <1>1, <1>13, <2>1, SyncedIs
  <2>3. r \in S!Reindex(k, has, content)
    BY <1>3, <1>4, <1>13, <2>1 DEF S!IndexDirty, S!Loads
  <2>4. Sound(k, t, has, content, v)
    BY <1>9, <1>13, <2>2
  <2> QED BY <1>1, <2>3, <2>4, ReindexIs
<1> QED BY <1>11, <1>12, <1>13

-----------------------------------------------------------------------------
LEMMA OutcomeInv ==
  ASSUME S!SearchIndexConstants, S!Regime, text' \in Texts,
         live' \in [Docs -> S!Contents \cup {None}], stored' \in [Docs -> S!Contents \cup {None}],
         left' \in 0..MaxEdits, Mirrors(live', stored'),
         NEW r, Outcome(r, text', stored'), files' = r.files, prints' = r.prints,
         \/ r.alive /\ ix' = r.ix /\ hist' = r.hist
         \/ ~r.alive /\ ix' = Closed /\ hist' = r.hist /\ \A d \in Docs : live'[d] = None
         \/ r.alive /\ ~r.ok /\ ix' = NoIndex /\ hist' = S!Forgot(r.hist, r.ix)
  PROVE  SearchInv' /\ RanMoved(hist')
<1>1. Closed # NoIndex /\ Closed \notin S!Index /\ NoIndex \notin S!Index
  BY DEF S!SearchIndexConstants
<1>2. /\ DiskTypes(files', prints') /\ HistTypes(r.hist) /\ UptoIs(files', r.hist)
      /\ r.alive =>
           /\ r.ix \in S!Index /\ IndexIs(r.ix, files', prints', r.hist)
           /\ PlannedIs([d \in Docs |-> Marks(r.ix, prints', d)], r.hist)
      /\ ~r.alive => PlannedIs(prints', r.hist)
      /\ StoredIs(text', stored', files', prints', r.hist.failed, ~r.alive)
      /\ RanMoved(r.hist)
  BY DEF Outcome
<1>3. CASE r.alive /\ ix' = r.ix /\ hist' = r.hist
  <2>1. HasIndex' /\ ix' # Closed /\ ix' # NoIndex /\ ix' \in S!Index
    BY <1>1, <1>2, <1>3 DEF HasIndex
  <2>2. \A d \in Docs : Now(d)' = Marks(ix', prints', d)
    BY <2>1 DEF Now
  <2>3. PlannedIs([d \in Docs |-> Now(d)], hist)'
    BY <1>2, <1>3, <2>2 DEF PlannedIs
  <2>4. StoredIs(text', stored', files', prints', hist'.failed, ix' = Closed)
    BY <1>2, <1>3, <2>1 DEF StoredIs
  <2>5. Types'
    BY <1>2, <1>3, <2>1 DEF Types
  <2>6. Saved'
    BY <2>1 DEF Saved
  <2> QED BY <1>2, <1>3, <2>1, <2>3, <2>4, <2>5, <2>6 DEF SearchInv
<1>4. CASE ~r.alive /\ ix' = Closed /\ hist' = r.hist /\ \A d \in Docs : live'[d] = None
  <2>1. ~HasIndex' /\ ix' # NoIndex
    BY <1>1, <1>4 DEF HasIndex
  <2>2. \A d \in Docs : Now(d)' = prints'[d]
    BY <2>1 DEF Now
  <2>3. PlannedIs([d \in Docs |-> Now(d)], hist)'
    BY <1>2, <1>4, <2>2 DEF PlannedIs
  <2>4. StoredIs(text', stored', files', prints', hist'.failed, ix' = Closed)
    BY <1>2, <1>4 DEF StoredIs
  <2>5. Types'
    BY <1>2, <1>4 DEF Types
  <2>6. Saved'
    BY <1>4 DEF Saved
  <2> QED BY <1>2, <1>4, <2>1, <2>3, <2>4, <2>5, <2>6 DEF SearchInv
<1>5. CASE r.alive /\ ~r.ok /\ ix' = NoIndex /\ hist' = S!Forgot(r.hist, r.ix)
  <2>1. ~HasIndex' /\ ix' # Closed
    BY <1>1, <1>2, <1>5 DEF HasIndex
  <2>2. \A d \in Docs : Now(d)' = prints'[d]
    BY <2>1 DEF Now
  <2>3. r.ix.staged \in [Docs -> S!Fingerprints \cup {None}]
    BY <1>2, <1>5 DEF S!Index
  <2>4. PICK h : h = r.hist
    OBVIOUS
  <2>5. PICK i : i = r.ix
    OBVIOUS
  <2>6. PICK g : g = hist'
    OBVIOUS
  <2>7. PICK stamps : stamps = prints'
    OBVIOUS
  <2>8. /\ HistTypes(g) /\ g.failed = h.failed /\ g.upto = h.upto /\ g.ran = {}
        /\ PlannedIs([d \in Docs |-> stamps[d]], g)
    BY <1>2, <1>5, <2>3, <2>4, <2>5, <2>6, <2>7, ForgotIs
  <2>9. PlannedIs([d \in Docs |-> Now(d)], hist)'
    BY <2>2, <2>6, <2>7, <2>8 DEF PlannedIs
  <2>10. StoredIs(text', stored', files', prints', hist'.failed, ix' = Closed)
    BY <1>2, <1>5, <2>1, <2>4, <2>6, <2>8 DEF StoredIs
  <2>11. UptoIs(files', hist')
    BY <1>2, <2>4, <2>6, <2>8 DEF UptoIs
  <2>12. Types'
    BY <1>2, <1>5, <2>6, <2>8 DEF Types
  <2>13. Saved'
    BY <2>1 DEF Saved
  <2>14. RanMoved(hist')
    BY <2>6, <2>8 DEF RanMoved
  <2> QED BY <1>5, <2>1, <2>9, <2>10, <2>11, <2>12, <2>13, <2>14 DEF SearchInv
<1> QED BY <1>3, <1>4, <1>5

LEMMA EndOfMessageInv ==
  ASSUME S!SearchIndexConstants, S!Regime, SearchInv, ix # Closed, text' \in Texts,
         NEW l \in [Docs -> S!Contents \cup {None}], NEW held \in [Docs -> S!Contents \cup {None}],
         NEW wrote \in SUBSET Docs, \A d \in wrote : l[d] # None,
         \A d \in Docs \ wrote : l[d] # None => l[d] = held[d] \/ (held[d] = None /\ l[d] = S!Nothing),
         \A d \in Docs : held[d] = None => stored[d] = None,
         left' \in 0..MaxEdits, S!EndOfMessage(text', l, held, wrote)
  PROVE  SearchInv' /\ RanMoved(hist')
<1>1. PICK v : v = [d \in Docs |-> IF d \in wrote THEN l[d] ELSE held[d]]
  OBVIOUS
<1>2. stored' = v /\ v \in [Docs -> S!Contents \cup {None}] /\ Mirrors(l, v)
  BY <1>1 DEF S!EndOfMessage, Mirrors
<1>3. \A d \in Docs : v[d] = None => stored[d] = None
  BY <1>1
<1>4. CASE ix = NoIndex
  <2>1. PICK g : g = [hist EXCEPT !.ran = {}]
    OBVIOUS
  <2>2. live' = l /\ hist' = g /\ ix' = ix /\ files' = files /\ prints' = prints
    BY <1>4, <2>1 DEF S!EndOfMessage
  <2>3. HistTypes(hist)
    BY DEF SearchInv, Types
  <2>4. g = [planned |-> hist.planned, upto |-> hist.upto, failed |-> hist.failed, ran |-> {}]
    BY <2>1, <2>3 DEF HistTypes
  <2>5. /\ g.planned = hist.planned /\ g.upto = hist.upto /\ g.failed = hist.failed
        /\ g.ran = {} /\ HistTypes(g)
    BY <2>3, <2>4 DEF HistTypes
  <2>6. ~HasIndex /\ ~HasIndex' /\ ix # Closed /\ ix' # Closed
    BY <1>4, <2>2 DEF HasIndex
  <2>7. PlannedIs([d \in Docs |-> Now(d)], hist)'
    BY <2>2, <2>5, <2>6 DEF SearchInv, PlannedIs, Now
  <2>8. StoredIs(text', stored', files', prints', hist'.failed, ix' = Closed)
    BY <1>2, <1>3, <2>2, <2>5, <2>6 DEF SearchInv, StoredIs
  <2>9. UptoIs(files', hist')
    BY <2>2, <2>5 DEF SearchInv, UptoIs
  <2>10. Types'
    BY <1>2, <2>2, <2>5 DEF SearchInv, Types
  <2>11. Saved'
    BY <1>2, <2>2, <2>6 DEF Saved
  <2>12. RanMoved(hist')
    BY <2>2, <2>5 DEF RanMoved
  <2> QED BY <2>6, <2>7, <2>8, <2>9, <2>10, <2>11, <2>12 DEF SearchInv
<1>5. CASE ix # NoIndex
  <2>1. HasIndex
    BY <1>5 DEF HasIndex
  <2>2. PICK r \in S!IndexDirty(ix, text', wrote, l, v) :
          /\ ix' = IF r.alive THEN r.ix ELSE Closed
          /\ live' = IF r.alive THEN l ELSE [d \in Docs |-> None]
          /\ files' = r.files /\ prints' = r.prints /\ hist' = r.hist
    BY <1>1, <1>5 DEF S!EndOfMessage
  <2>3. PICK t \in Texts : t = text'
    OBVIOUS
  <2>4. Outcome(r, t, v)
    BY <1>2, <1>3, <2>1, <2>2, <2>3, MessageIs
  <2>5. live' \in [Docs -> S!Contents \cup {None}] /\ Mirrors(live', stored')
    BY <1>2, <2>2 DEF Mirrors
  <2>6. Outcome(r, text', stored')
    BY <1>2, <2>3, <2>4
  <2>7. stored' \in [Docs -> S!Contents \cup {None}]
    BY <1>2
  <2>8. \/ r.alive /\ ix' = r.ix /\ hist' = r.hist
        \/ ~r.alive /\ ix' = Closed /\ hist' = r.hist /\ \A d \in Docs : live'[d] = None
    BY <2>2
  <2> QED BY <2>2, <2>5, <2>6, <2>7, <2>8, OutcomeInv
<1> QED BY <1>4, <1>5

LEMMA OpenInv ==
  ASSUME S!SearchIndexConstants, S!Regime, SearchInv, S!Open
  PROVE  SearchInv' /\ RanMoved(hist')
<1>1. /\ ix = Closed /\ text \in Texts /\ DiskTypes(files, prints) /\ HistTypes(hist)
      /\ stored \in [Docs -> S!Contents \cup {None}] /\ \A d \in Docs : live[d] = None
      /\ live \in [Docs -> S!Contents \cup {None}] /\ left \in 0..MaxEdits
      /\ StoredIs(text, stored, files, prints, hist.failed, TRUE)
      /\ UptoIs(files, hist)
  BY DEF S!Open, S!IsOpen, SearchInv, Types, Saved
<1>2. PlannedIs([d \in Docs |-> prints[d]], hist)
  <2>1. \A d \in Docs : Now(d) = prints[d]
    BY <1>1 DEF Now, HasIndex
  <2> QED BY <2>1 DEF SearchInv, PlannedIs
<1>3. PICK opens, l :
        /\ opens \in (SUBSET Docs) \ {{}}
        /\ l = [d \in Docs |-> IF d \notin opens THEN None
                               ELSE IF stored[d] = None THEN S!Nothing ELSE stored[d]]
        /\ \E r \in S!Reindex(S!Synced(S!Opened(files), text), S!Has(l, stored), S!Content(l, stored)) :
             /\ live' = IF r.alive THEN l ELSE live
             /\ ix' = IF ~r.alive THEN Closed ELSE IF r.ok THEN r.ix ELSE NoIndex
             /\ hist' = IF r.alive /\ ~r.ok THEN S!Forgot(r.hist, r.ix) ELSE r.hist
             /\ files' = r.files
             /\ prints' = r.prints
  BY DEF S!Open
<1>4. text' = text /\ stored' = stored /\ left' = left
  BY DEF S!Open
<1>5. None \notin S!Contents /\ Broken # None
  BY DEF S!SearchIndexConstants
<1>6. S!Nothing \in S!Contents
  BY DEF S!Nothing, S!Contents, S!Rests
<1>7. l \in [Docs -> S!Contents \cup {None}] /\ Mirrors(l, stored)
  BY <1>1, <1>3, <1>6 DEF Mirrors
<1>8. PICK i : i = S!Opened(files)
  OBVIOUS
<1>9. /\ i \in S!Index /\ i.src = None /\ i.spec = None /\ i.writer = files
      /\ i.staged = S!Unstaged /\ ~i.dirty
  <2>1. PICK no \in BOOLEAN : no = FALSE
    OBVIOUS
  <2>2. PICK staged : staged = [d \in Docs |-> None]
    OBVIOUS
  <2>3. i = [src |-> None, spec |-> None, reader |-> files, writer |-> files,
             staged |-> staged, dirty |-> no, memo |-> None]
    BY <1>8, <2>1, <2>2 DEF S!Opened
  <2>4. staged \in [Docs -> S!Fingerprints \cup {None}] /\ staged = S!Unstaged
    BY <2>2 DEF S!Unstaged
  <2>5. files \in SUBSET S!Record
    BY <1>1 DEF DiskTypes
  <2>6. i \in S!Index
    BY <2>3, <2>4, <2>5 DEF S!Index
  <2> QED BY <2>1, <2>3, <2>4, <2>6
<1>10. PICK k : k = S!Synced(i, text)
  OBVIOUS
<1>11. /\ k \in S!Index /\ k.src = k.spec /\ k.src # Broken /\ k.writer = files
       /\ k.staged = S!Unstaged /\ ~k.dirty /\ (text = Broken => k.spec = None)
       /\ (text # Broken => k.spec = text)
  <2>1. CASE text = Broken
    <3>1. k = i
      BY <1>10, <2>1 DEF S!Synced, S!Loads
    <3> QED BY <1>5, <1>9, <2>1, <3>1
  <2>2. CASE text # Broken
    BY <1>1, <1>9, <1>10, <2>2, SyncedIs
  <2> QED BY <2>1, <2>2
<1>12. PICK has : has = S!Has(l, stored)
  OBVIOUS
<1>13. PICK content : content = S!Content(l, stored)
  OBVIOUS
<1>14. /\ has \subseteq Docs
       /\ \A d \in has : /\ content[d] \in S!Contents
                         /\ content[d] = IF stored[d] # None THEN stored[d] ELSE S!Nothing
       /\ \A d \in Docs : stored[d] # None => d \in has
  BY <1>1, <1>5, <1>7, <1>12, <1>13, ContentIs
<1>15. \A d \in Docs : k.staged[d] = None /\ Marks(k, prints, d) = prints[d]
  BY <1>11 DEF Marks, S!Unstaged
<1>16. Sound(k, text, has, content, stored)
  <2>1. S!Covered(k, has) # {} => text = k.spec
    BY <1>11 DEF S!Covered
  <2>2. ASSUME NEW d \in Docs
        PROVE  /\ WellFormed(S!Parsed(Marks(k, prints, d)))
               /\ \/ Right(S!Parsed(Marks(k, prints, d)), k.writer, d, hist.failed)
                  \/ /\ d \in S!Covered(k, has) \ k.spec.bad
                     /\ Right(S!Plan(k.spec, content[d], S!Parsed(Marks(k, prints, d))).prints,
                              k.writer, d, hist.failed)
    <3>1. PICK p : p = S!Parsed(prints[d])
      OBVIOUS
    <3>2. p = S!Parsed(Marks(k, prints, d))
      BY <1>15, <3>1
    <3>3. CASE Right(p, files, d, hist.failed)
      BY <1>11, <3>2, <3>3 DEF Right
    <3>4. CASE PendingAt(text, stored, files, prints, hist.failed, d)
      <4>1. /\ stored[d] # None /\ text \in S!Specs /\ d \in text.covers \ text.bad /\ WellFormed(p)
            /\ Right(S!Plan(text, stored[d], p).prints, files, d, hist.failed)
        BY <3>1, <3>4 DEF PendingAt
      <4>2. text # None /\ text # Broken
        BY <4>1 DEF S!Specs
      <4>3. k.spec = text /\ k.writer = files
        BY <1>11, <4>2
      <4>4. d \in has /\ content[d] = stored[d]
        BY <1>14, <4>1
      <4>5. d \in S!Covered(k, has) \ k.spec.bad
        BY <4>1, <4>2, <4>3, <4>4 DEF S!Covered
      <4> QED BY <3>2, <4>1, <4>3, <4>4, <4>5
    <3> QED BY <1>1, <3>1, <3>3, <3>4 DEF StoredIs
  <2>3. PlannedIs([d \in Docs |-> Marks(k, prints, d)], hist)
    BY <1>2, <1>15 DEF PlannedIs
  <2>4. "crash" \in Faults => \A d \in Docs : stored[d] = None =>
          S!Parsed(prints[d]).of = {} /\ Right(S!Parsed(prints[d]), files, d, hist.failed)
    BY <1>1 DEF StoredIs
  <2>5. "crash" \notin Faults => \A d \in Docs :
          /\ Right(S!Parsed(prints[d]), files, d, hist.failed)
          /\ Right(S!Parsed(Marks(k, prints, d)), k.writer, d, hist.failed)
    BY <1>1, <1>11, <1>15 DEF StoredIs
  <2>6. Unique(files)
    BY <1>1 DEF DiskTypes
  <2> QED BY <1>1, <1>11, <1>14, <1>15, <2>1, <2>2, <2>3, <2>4, <2>5, <2>6 DEF Sound
<1>17. PICK r \in S!Reindex(k, has, content) :
             /\ live' = IF r.alive THEN l ELSE live
             /\ ix' = IF ~r.alive THEN Closed ELSE IF r.ok THEN r.ix ELSE NoIndex
             /\ hist' = IF r.alive /\ ~r.ok THEN S!Forgot(r.hist, r.ix) ELSE r.hist
             /\ files' = r.files
             /\ prints' = r.prints
  BY <1>3, <1>8, <1>10, <1>12, <1>13
<1>18. Outcome(r, text, stored)
  BY <1>1, <1>16, ReindexIs
<1>19. Outcome(r, text', stored')
  BY <1>4, <1>18
<1>20. live' \in [Docs -> S!Contents \cup {None}] /\ Mirrors(live', stored')
  BY <1>1, <1>4, <1>7, <1>17 DEF Mirrors
<1>21. \/ r.alive /\ ix' = r.ix /\ hist' = r.hist
       \/ ~r.alive /\ ix' = Closed /\ hist' = r.hist /\ \A d \in Docs : live'[d] = None
       \/ r.alive /\ ~r.ok /\ ix' = NoIndex /\ hist' = S!Forgot(r.hist, r.ix)
  BY <1>1, <1>17
<1>22. /\ text' \in Texts /\ stored' \in [Docs -> S!Contents \cup {None}] /\ left' \in 0..MaxEdits
       /\ files' = r.files /\ prints' = r.prints
  BY <1>1, <1>4, <1>17
<1> QED BY <1>19, <1>20, <1>21, <1>22, OutcomeInv

LEMMA WriteInv ==
  ASSUME S!SearchIndexConstants, S!Regime, SearchInv, S!Write
  PROVE  SearchInv' /\ RanMoved(hist')
<1>1. PICK d \in Docs, c \in S!Contents :
        live[d] # None /\ live[d] # c /\ S!EndOfMessage(text, [live EXCEPT ![d] = c], stored, {d})
  BY DEF S!Write
<1>2. ix # Closed /\ left > 0 /\ left' = left - 1 /\ text' = text
  BY DEF S!Write, S!IsOpen
<1>3. /\ live \in [Docs -> S!Contents \cup {None}] /\ stored \in [Docs -> S!Contents \cup {None}]
      /\ left \in 0..MaxEdits /\ text \in Texts /\ Mirrors(live, stored) /\ None \notin S!Contents
      /\ MaxEdits \in Nat
  BY DEF SearchInv, Types, Saved, S!SearchIndexConstants
<1>4. PICK l : l = [live EXCEPT ![d] = c]
  OBVIOUS
<1>5. /\ l \in [Docs -> S!Contents \cup {None}] /\ l[d] # None
      /\ \A e \in Docs \ {d} : l[e] = live[e]
  BY <1>3, <1>4
<1>6. \A e \in Docs \ {d} : l[e] # None => l[e] = stored[e] \/ (stored[e] = None /\ l[e] = S!Nothing)
  BY <1>3, <1>5 DEF Mirrors
<1>7. left' \in 0..MaxEdits
  BY <1>2, <1>3
<1>8. S!EndOfMessage(text', l, stored, {d})
  BY <1>1, <1>2, <1>4
<1>9. text' \in Texts /\ {d} \in SUBSET Docs /\ \A e \in {d} : l[e] # None
  BY <1>2, <1>3, <1>5
<1>10. \A e \in Docs : stored[e] = None => stored[e] = None
  OBVIOUS
<1> QED BY <1>2, <1>3, <1>5, <1>6, <1>7, <1>8, <1>9, <1>10, EndOfMessageInv

LEMMA EditSpecInv ==
  ASSUME S!SearchIndexConstants, S!Regime, SearchInv, S!EditSpec
  PROVE  SearchInv' /\ RanMoved(hist')
<1>1. /\ ix # Closed /\ left > 0 /\ left' = left - 1 /\ text' \in Texts
      /\ S!EndOfMessage(text', live, stored, {})
  BY DEF S!EditSpec, S!IsOpen
<1>2. /\ live \in [Docs -> S!Contents \cup {None}] /\ stored \in [Docs -> S!Contents \cup {None}]
      /\ left \in 0..MaxEdits /\ Mirrors(live, stored) /\ MaxEdits \in Nat
  BY DEF SearchInv, Types, Saved, S!SearchIndexConstants
<1>3. left' \in 0..MaxEdits
  BY <1>1, <1>2
<1>4. \A e \in Docs \ {} : live[e] # None => live[e] = stored[e] \/ (stored[e] = None /\ live[e] = S!Nothing)
  BY <1>2 DEF Mirrors
<1>5. PICK wrote : wrote = {}
  OBVIOUS
<1>6. /\ wrote \in SUBSET Docs /\ \A e \in wrote : live[e] # None
      /\ \A e \in Docs \ wrote : live[e] # None =>
           live[e] = stored[e] \/ (stored[e] = None /\ live[e] = S!Nothing)
      /\ S!EndOfMessage(text', live, stored, wrote)
  BY <1>1, <1>4, <1>5
<1>7. \A e \in Docs : stored[e] = None => stored[e] = None
  OBVIOUS
<1> QED BY <1>1, <1>2, <1>3, <1>6, <1>7, EndOfMessageInv

LEMMA OpenDocInv ==
  ASSUME S!SearchIndexConstants, S!Regime, SearchInv, S!OpenDoc
  PROVE  SearchInv' /\ RanMoved(hist')
<1>1. PICK d \in Docs : /\ live[d] = None
                        /\ \E c \in IF stored[d] # None THEN {stored[d]} ELSE S!Contents :
                             S!EndOfMessage(text, [live EXCEPT ![d] = c],
                               [stored EXCEPT ![d] = IF c = S!Nothing THEN stored[d] ELSE c], {})
  BY DEF S!OpenDoc
<1>2. PICK c \in IF stored[d] # None THEN {stored[d]} ELSE S!Contents :
             S!EndOfMessage(text, [live EXCEPT ![d] = c],
               [stored EXCEPT ![d] = IF c = S!Nothing THEN stored[d] ELSE c], {})
  BY <1>1
<1>3. ix # Closed /\ left > 0 /\ left' = left - 1 /\ text' = text
  BY DEF S!OpenDoc, S!IsOpen
<1>4. /\ live \in [Docs -> S!Contents \cup {None}] /\ stored \in [Docs -> S!Contents \cup {None}]
      /\ left \in 0..MaxEdits /\ text \in Texts /\ Mirrors(live, stored) /\ None \notin S!Contents
      /\ MaxEdits \in Nat
  BY DEF SearchInv, Types, Saved, S!SearchIndexConstants
<1>5. c \in S!Contents /\ (stored[d] # None => c = stored[d])
  BY <1>2, <1>4
<1>6. PICK l : l = [live EXCEPT ![d] = c]
  OBVIOUS
<1>7. PICK x : x = IF c = S!Nothing THEN stored[d] ELSE c
  OBVIOUS
<1>8. PICK held : held = [stored EXCEPT ![d] = x]
  OBVIOUS
<1>9. /\ l \in [Docs -> S!Contents \cup {None}] /\ l[d] = c
      /\ \A e \in Docs \ {d} : l[e] = live[e]
  BY <1>4, <1>5, <1>6
<1>10. x \in S!Contents \cup {None}
  BY <1>4, <1>5, <1>7
<1>11. /\ held \in [Docs -> S!Contents \cup {None}] /\ held[d] = x
       /\ \A e \in Docs \ {d} : held[e] = stored[e]
  BY <1>4, <1>8, <1>10
<1>12. c = x \/ (x = None /\ c = S!Nothing)
  BY <1>5, <1>7
<1>13. \A e \in Docs : l[e] # None => l[e] = held[e] \/ (held[e] = None /\ l[e] = S!Nothing)
  BY <1>4, <1>9, <1>11, <1>12 DEF Mirrors
<1>14. \A e \in Docs : held[e] = None => stored[e] = None
  BY <1>4, <1>5, <1>7, <1>11
<1>15. left' \in 0..MaxEdits
  BY <1>3, <1>4
<1>16. PICK wrote : wrote = {}
  OBVIOUS
<1>17. S!EndOfMessage(text', l, held, wrote)
  BY <1>2, <1>3, <1>6, <1>7, <1>8, <1>16
<1>18. /\ wrote \in SUBSET Docs /\ \A e \in wrote : l[e] # None
       /\ \A e \in Docs \ wrote : l[e] # None => l[e] = held[e] \/ (held[e] = None /\ l[e] = S!Nothing)
       /\ text' \in Texts
  BY <1>3, <1>4, <1>13, <1>16
<1> QED BY <1>3, <1>9, <1>11, <1>14, <1>15, <1>17, <1>18, EndOfMessageInv

LEMMA RanIsForgotten ==
  ASSUME NEW h, HistTypes(h), NEW g, g = [h EXCEPT !.ran = {}]
  PROVE  /\ g.planned = h.planned /\ g.upto = h.upto /\ g.failed = h.failed
         /\ g.ran = {} /\ HistTypes(g)
<1>1. g = [planned |-> h.planned, upto |-> h.upto, failed |-> h.failed, ran |-> {}]
  BY DEF HistTypes
<1> QED BY <1>1 DEF HistTypes

LEMMA QueryInv ==
  ASSUME S!SearchIndexConstants, S!Regime, SearchInv, S!Query
  PROVE  SearchInv' /\ RanMoved(hist')
<1>1. /\ HasIndex /\ ix' = [ix EXCEPT !.memo = ix.reader] /\ hist' = [hist EXCEPT !.ran = {}]
      /\ text' = text /\ stored' = stored /\ live' = live /\ files' = files /\ prints' = prints
      /\ left' = left
  BY DEF S!Query, S!IsOpen, HasIndex
<1>2. ix \in S!Index /\ HistTypes(hist) /\ IndexIs(ix, files, prints, hist)
  BY <1>1 DEF HasIndex, SearchInv, Types
<1>3. /\ ix' \in S!Index /\ ix'.src = ix.src /\ ix'.spec = ix.spec /\ ix'.writer = ix.writer
      /\ ix'.staged = ix.staged /\ ix'.dirty = ix.dirty
  <2>1. ix = [src |-> ix.src, spec |-> ix.spec, reader |-> ix.reader, writer |-> ix.writer,
              staged |-> ix.staged, dirty |-> ix.dirty, memo |-> ix.memo]
    BY <1>2 DEF S!Index
  <2>2. ix' = [src |-> ix.src, spec |-> ix.spec, reader |-> ix.reader, writer |-> ix.writer,
               staged |-> ix.staged, dirty |-> ix.dirty, memo |-> ix.reader]
    BY <1>1, <2>1
  <2> QED BY <1>2, <2>2 DEF S!Index
<1>4. hist'.planned = hist.planned /\ hist'.upto = hist.upto /\ hist'.failed = hist.failed
      /\ HistTypes(hist') /\ hist'.ran = {}
  BY <1>1, <1>2, RanIsForgotten
<1>5. HasIndex' /\ ix' # Closed /\ ix # Closed /\ ix' # NoIndex
  BY <1>1, <1>3 DEF HasIndex, S!SearchIndexConstants
<1>6. \A d : Marks(ix', prints', d) = Marks(ix, prints, d)
  BY <1>1, <1>3 DEF Marks
<1>7. \A d : Now(d)' = Now(d)
  BY <1>1, <1>5, <1>6 DEF Now
<1>8. PlannedIs([d \in Docs |-> Now(d)], hist)'
  BY <1>4, <1>7 DEF SearchInv, PlannedIs
<1>9. StoredIs(text', stored', files', prints', hist'.failed, ix' = Closed)
  BY <1>1, <1>4, <1>5 DEF SearchInv, StoredIs
<1>10. IndexIs(ix', files', prints', hist')
  BY <1>1, <1>2, <1>3, <1>4, <1>6 DEF IndexIs
<1>11. UptoIs(files', hist')
  BY <1>1, <1>4 DEF SearchInv, UptoIs
<1>12. Types'
  BY <1>1, <1>3, <1>4 DEF SearchInv, Types
<1>13. Saved'
  BY <1>1, <1>5 DEF SearchInv, Saved
<1>14. RanMoved(hist')
  BY <1>4 DEF RanMoved
<1> QED BY <1>5, <1>8, <1>9, <1>10, <1>11, <1>12, <1>13, <1>14 DEF SearchInv

LEMMA CloseInv ==
  ASSUME S!SearchIndexConstants, S!Regime, SearchInv, S!Close
  PROVE  SearchInv' /\ RanMoved(hist')
<1>1. /\ ix # Closed /\ ix' = Closed /\ live' = [d \in Docs |-> None]
      /\ hist' = IF ix = NoIndex THEN [hist EXCEPT !.ran = {}] ELSE S!Forgot(hist, ix)
      /\ text' = text /\ stored' = stored /\ files' = files /\ prints' = prints /\ left' = left
  BY DEF S!Close, S!IsOpen
<1>2. HistTypes(hist) /\ PlannedIs([d \in Docs |-> Now(d)], hist)
      /\ StoredIs(text, stored, files, prints, hist.failed, ix = Closed)
  BY DEF SearchInv, Types
<1>3. PICK g : g = hist'
  OBVIOUS
<1>4. HistTypes(g) /\ g.failed = hist.failed /\ g.upto = hist.upto /\ g.ran = {}
      /\ PlannedIs([d \in Docs |-> prints[d]], g)
  <2>1. CASE ix = NoIndex
    <3>1. \A d : Now(d) = prints[d]
      BY <2>1 DEF Now, HasIndex
    <3>2. /\ g.planned = hist.planned /\ g.upto = hist.upto /\ g.failed = hist.failed
          /\ g.ran = {} /\ HistTypes(g)
      BY <1>1, <1>2, <1>3, <2>1, RanIsForgotten
    <3> QED BY <1>2, <3>1, <3>2 DEF PlannedIs
  <2>2. CASE ix # NoIndex
    <3>1. \A d : Now(d) = Marks(ix, prints, d)
      BY <1>1, <2>2 DEF Now, HasIndex
    <3>2. PlannedIs([d \in Docs |-> Marks(ix, prints, d)], hist)
      BY <1>2, <3>1 DEF PlannedIs
    <3>3. ix.staged \in [Docs -> S!Fingerprints \cup {None}]
      BY <1>1, <2>2 DEF SearchInv, Types, S!Index
    <3>4. g = S!Forgot(hist, ix)
      BY <1>1, <1>3, <2>2
    <3> QED BY <1>2, <3>2, <3>3, <3>4, ForgotIs
  <2> QED BY <2>1, <2>2
<1>5. ~HasIndex' /\ ix' # NoIndex
  BY <1>1 DEF HasIndex, S!SearchIndexConstants
<1>6. PlannedIs([d \in Docs |-> Now(d)], hist)'
  <2>1. \A d : Now(d)' = prints[d]
    BY <1>1, <1>5 DEF Now
  <2> QED BY <1>3, <1>4, <2>1 DEF PlannedIs
<1>7. StoredIs(text', stored', files', prints', hist'.failed, ix' = Closed)
  BY <1>1, <1>2, <1>3, <1>4 DEF StoredIs
<1>8. UptoIs(files', hist')
  BY <1>1, <1>3, <1>4 DEF SearchInv, UptoIs
<1>9. Types'
  BY <1>1, <1>3, <1>4 DEF SearchInv, Types
<1>10. Saved'
  BY <1>1 DEF Saved, Mirrors
<1>11. RanMoved(hist')
  BY <1>3, <1>4 DEF RanMoved
<1> QED BY <1>5, <1>6, <1>7, <1>8, <1>9, <1>10, <1>11 DEF SearchInv

LEMMA SearchInit ==
  ASSUME S!SearchIndexConstants, S!Regime, S!Init
  PROVE  SearchInv
<1>1. /\ text \in Texts /\ live = [d \in Docs |-> None] /\ stored = [d \in Docs |-> None]
      /\ ix = Closed /\ files = {} /\ prints = [d \in Docs |-> None] /\ left = MaxEdits
      /\ hist = [planned |-> [d \in Docs |-> None], upto |-> [d \in Docs |-> None],
                 failed |-> {}, ran |-> {}]
  BY DEF S!Init
<1>2. MaxEdits \in Nat /\ Closed # NoIndex
  BY DEF S!SearchIndexConstants
<1>3. hist.planned = [d \in Docs |-> None] /\ hist.upto = [d \in Docs |-> None] /\ hist.failed = {}
  BY <1>1
<1>4. HistTypes(hist)
  BY <1>1, <1>3 DEF HistTypes
<1>5. Types
  BY <1>1, <1>2, <1>4 DEF Types, DiskTypes, Unique
<1>6. ~HasIndex /\ ix # NoIndex
  BY <1>1, <1>2 DEF HasIndex
<1>7. \A d \in Docs : S!Parsed(prints[d]) = S!NoPrints
  BY <1>1 DEF S!Parsed
<1>8. \A d : Right(S!NoPrints, files, d, hist.failed) /\ S!NoPrints.of = {}
  BY <1>1 DEF Right, WellFormed, Good, NoOrphans, S!NoPrints
<1>9. StoredIs(text, stored, files, prints, hist.failed, ix = Closed)
  BY <1>7, <1>8 DEF StoredIs
<1> QED BY <1>1, <1>3, <1>5, <1>6, <1>9 DEF SearchInv, Saved, Mirrors, PlannedIs, UptoIs

LEMMA SearchNext ==
  ASSUME S!SearchIndexConstants, S!Regime, SearchInv, [S!Next]_S!vars
  PROVE  SearchInv'
<1>1. CASE UNCHANGED S!vars
  <2>1. /\ text' = text /\ live' = live /\ stored' = stored /\ ix' = ix /\ files' = files
        /\ prints' = prints /\ hist' = hist /\ left' = left
    BY <1>1 DEF S!vars
  <2>2. HasIndex' = HasIndex /\ \A d : Now(d)' = Now(d)
    BY <2>1 DEF HasIndex, Now, Marks
  <2>3. PlannedIs([d \in Docs |-> Now(d)], hist)'
    BY <2>1, <2>2 DEF SearchInv, PlannedIs
  <2>4. StoredIs(text', stored', files', prints', hist'.failed, ix' = Closed)
    BY <2>1 DEF SearchInv
  <2>5. Types' /\ Saved' /\ UptoIs(files', hist')
    BY <2>1 DEF SearchInv, Types, Saved
  <2>6. HasIndex' => IndexIs(ix', files', prints', hist')
    BY <2>1, <2>2 DEF SearchInv
  <2> QED BY <2>1, <2>3, <2>4, <2>5, <2>6 DEF SearchInv
<1>2. CASE S!Next
  BY <1>2, OpenInv, WriteInv, EditSpecInv, OpenDocInv, QueryInv, CloseInv DEF S!Next
<1> QED BY <1>1, <1>2

LEMMA SearchIsInv ==
  ASSUME S!SearchIndexConstants, S!Regime
  PROVE  S!Spec => []SearchInv
<1>1. S!Init => SearchInv
  BY SearchInit
<1>2. SearchInv /\ [S!Next]_S!vars => SearchInv'
  BY SearchNext
<1> QED BY <1>1, <1>2, PTL DEF S!Spec

-----------------------------------------------------------------------------
LEMMA StampsAreWellFormed ==
  ASSUME SearchInv
  PROVE  \A d \in Docs : WellFormed(S!Parsed(prints[d]))
BY DEF SearchInv, StoredIs, PendingAt, Right

\* Every variable has its type, no two records of the files share a document and
\* an id, and no two fingerprints of a document an id (ItemIndex, Fingerprints).
THEOREM SearchTypeCorrect ==
  ASSUME S!SearchIndexConstants, S!Regime
  PROVE  S!Spec => []S!TypeOK
<1>1. SearchInv => S!TypeOK
  <2> SUFFICES ASSUME SearchInv PROVE S!TypeOK
    OBVIOUS
  <2>1. /\ text \in Texts /\ live \in [Docs -> S!Contents \cup {None}]
        /\ stored \in [Docs -> S!Contents \cup {None}] /\ left \in 0..MaxEdits
        /\ files \subseteq S!Record /\ Unique(files) /\ (ix = Closed => \A d \in Docs : live[d] = None)
    BY DEF SearchInv, Types, DiskTypes, Saved
  <2>2. ASSUME NEW d \in Docs, prints[d] # None, NEW p \in prints[d].of, NEW q \in prints[d].of, p[1] = q[1]
        PROVE  p = q
    <3>1. WellFormed(prints[d])
      BY <2>2, StampsAreWellFormed DEF S!Parsed
    <3>2. p[2][1] = q[2][1]
      BY <2>2, <3>1 DEF WellFormed
    <3> QED BY <3>1, <3>2 DEF WellFormed
  <2>3. \A d \in Docs : /\ live[d] = None \/ live[d] \in S!Contents
                        /\ stored[d] = None \/ stored[d] \in S!Contents
    BY <2>1
  <2>4. ~S!IsOpen => live = [d \in Docs |-> None]
    BY <2>1 DEF S!IsOpen
  <2>5. \A r, s \in files : r[1] = s[1] /\ r[2] = s[2] => r = s
    BY <2>1 DEF Unique
  <2> QED BY <2>1, <2>2, <2>3, <2>4, <2>5 DEF S!TypeOK
<1> QED BY <1>1, SearchIsInv, PTL

\* A fingerprint a plan of the document now would skip is kept by that plan.
LEMMA SkippedIsKept ==
  ASSUME NEW spec \in S!Specs, NEW c \in S!Contents, NEW prev, WellFormed(prev),
         prev.rest = S!Rest(spec, c), NEW n \in S!There(c), NEW k, <<k, S!Fp(c, n)>> \in prev.of,
         NEW p, p = S!Plan(spec, c, prev)
  PROVE  <<k, S!Fp(c, n)>> \in p.prints.of /\ p.prints.rest = prev.rest
<1>1. \A m \in S!There(c) : IdsKept(spec, c, prev, m)
  BY IdIs
<1>2. S!Seen(prev, S!Fp(c, n))
  BY DEF S!Seen
<1>3. PICK id : id = IdOf(spec, prev, c, n)
  OBVIOUS
<1>4. PICK fp : fp = S!Fp(c, n)
  OBVIOUS
<1>5. <<id, fp>> \in prev.of /\ <<k, fp>> \in prev.of
  BY <1>1, <1>2, <1>3, <1>4 DEF IdsKept
<1>6. id = k
  BY <1>5 DEF WellFormed
<1>7. n \in Listed(spec, c, prev) /\ n \notin Ran(spec, c, prev)
  BY <1>2, <1>3, <1>4, <1>5 DEF Listed, Ran, S!Full
<1>8. PICK fails : fails = {<<0, x>> : x \in p.failed}
  OBVIOUS
<1>9. MarksMade(spec, c, prev, p, 0, fails)
  <2>1. \A x \in p.failed : <<0, x>> \in fails
    BY <1>8
  <2> QED BY <2>1, MarksAre
<1> QED BY <1>3, <1>6, <1>7, <1>9 DEF MarksMade, Failing

LEMMA InvSkips ==
  ASSUME SearchInv
  PROVE  S!SkipIsSafe
<1> SUFFICES ASSUME NEW d \in Docs, prints[d] # None, stored[d] # None,
                    prints[d].rest = <<stored[d].rest, text>>,
                    NEW n \in S!There(stored[d]), NEW k \in S!Ids(prints[d].of),
                    <<k, S!Fp(stored[d], n)>> \in prints[d].of
             PROVE  IF S!IsText(S!Said(text, stored[d], n))
                    THEN <<d, k, <<S!Said(text, stored[d], n), stored[d].rest>>>> \in files
                    ELSE <<d, k>> \in hist.failed \/ k \notin {y[1] : y \in S!Of(files, d)}
  BY DEF S!SkipIsSafe
<1>1. PICK c \in S!Contents : c = stored[d]
  BY DEF SearchInv, Types
<1>2. PICK prev : prev = prints[d]
  OBVIOUS
<1>3. PICK x : x = <<k, S!Fp(c, n)>>
  OBVIOUS
<1>4. prev = S!Parsed(prints[d]) /\ WellFormed(prev) /\ x \in prev.of /\ prev.rest = S!Rest(text, c)
  BY <1>1, <1>2, <1>3, StampsAreWellFormed DEF S!Parsed, S!Rest
<1>5. x[1] = k /\ x[2] = S!Fp(c, n) /\ x[2][2] = c.els[n]
  BY <1>3 DEF S!Fp
<1>6. PICK p : Right(p, files, d, hist.failed) /\ x \in p.of /\ p.rest = prev.rest
  <2>1. CASE Right(prev, files, d, hist.failed)
    BY <1>4, <2>1
  <2>2. CASE PendingAt(text, stored, files, prints, hist.failed, d)
    <3>1. PICK p : p = S!Plan(text, c, prev)
      OBVIOUS
    <3>2. text \in S!Specs /\ Right(p.prints, files, d, hist.failed)
      BY <1>1, <1>4, <2>2, <3>1 DEF PendingAt
    <3>3. x \in p.prints.of /\ p.prints.rest = prev.rest
      BY <1>1, <1>3, <1>4, <3>1, <3>2, SkippedIsKept
    <3> QED BY <3>2, <3>3
  <2> QED BY <1>4, <2>1, <2>2 DEF SearchInv, StoredIs
<1>7. p.rest[2] = text /\ p.rest[1] = c.rest
  BY <1>4, <1>6 DEF S!Rest
<1>8. p.rest[2].says[x[2][2]] = S!Said(text, c, n)
  BY <1>5, <1>7 DEF S!Said
<1>9. IF S!IsText(S!Said(text, c, n))
      THEN <<d, x[1], <<S!Said(text, c, n), c.rest>>>> \in files
      ELSE <<d, x[1]>> \in hist.failed \/ \A r \in files : r[1] = d => r[2] # x[1]
  BY <1>6, <1>7, <1>8 DEF Right, Good
<1>10. (\A r \in files : r[1] = d => r[2] # k) => k \notin {y[1] : y \in S!Of(files, d)}
  <2> SUFFICES ASSUME \A r \in files : r[1] = d => r[2] # k, NEW y \in S!Of(files, d), y[1] = k
               PROVE  FALSE
    OBVIOUS
  <2>1. PICK r \in files : r[1] = d /\ y = <<r[2], r[3]>>
    BY DEF S!Of
  <2>2. y[1] = r[2]
    BY <2>1
  <2> QED BY <2>1, <2>2
<1> QED BY <1>1, <1>5, <1>9, <1>10

\* What a plan of a document in the vault would skip, going by the fingerprints
\* sealed for it, is in the index files as it would write it, whatever was
\* written, edited, closed, refused or cut short by a crash (indexer::plan,
\* Index::commit).
THEOREM SkipsAreSafe ==
  ASSUME S!SearchIndexConstants, S!Regime
  PROVE  S!Spec => []S!SkipIsSafe
BY InvSkips, SearchIsInv, PTL

LEMMA InvFull ==
  ASSUME SearchInv, S!OneKey
  PROVE  S!IncrementalIsFull
<1> SUFFICES ASSUME NEW d \in Docs, hist.upto[d] # None,
                    NEW ref, ref = S!Reference(hist.upto[d][2], hist.upto[d][1]),
                    NEW fails, fails = {x[2] : x \in {y \in hist.failed : y[1] = d}}
             PROVE  /\ {x \in S!Of(files, d) : x[1] \notin fails} = {x \in ref : x[1] \notin fails}
                    /\ ref \subseteq S!Of(files, d)
  BY DEF S!IncrementalIsFull
<1>1. PICK c \in S!Contents, spec \in S!Specs : hist.upto[d][1] = c /\ hist.upto[d][2] = spec
  BY DEF SearchInv, Types, HistTypes
<1>2. PICK p \in S!Fingerprints : Right(p, files, d, hist.failed) /\ PlanFor(p, d, c, spec, hist.failed)
  BY <1>1 DEF SearchInv, UptoIs
<1>3. Unique(files)
  BY DEF SearchInv, Types, DiskTypes
<1>4. ASSUME NEW x \in p.of
      PROVE  \E n \in S!There(c) :
               /\ x[2] = S!Fp(c, n) /\ x[1] = S!Key(spec, n)
               /\ S!Keyed(spec, c, n) \/ <<d, S!Key(spec, n)>> \in hist.failed
               /\ IF S!IsText(S!Said(spec, c, n))
                  THEN <<d, S!Key(spec, n), <<S!Said(spec, c, n), c.rest>>>> \in files
                  ELSE \/ <<d, S!Key(spec, n)>> \in hist.failed
                       \/ \A r \in files : r[1] = d => r[2] # S!Key(spec, n)
  <2>1. PICK n \in S!There(c) :
          x[2] = S!Fp(c, n) /\ (S!Keyed(spec, c, n) \/ <<d, S!Key(spec, n)>> \in hist.failed)
    BY <1>2 DEF PlanFor
  <2>2. x[2][1] = n /\ x[2][2] = c.els[n]
    BY <2>1 DEF S!Fp
  <2>3. x[1] \in S!IdSet /\ x[1][2] = n
    BY <1>2, <2>2 DEF Right, WellFormed
  <2>4. PICK s \in S!Specs, m \in Names : x[1] = <<s.key, m>>
    BY <2>3 DEF S!IdSet, S!Key
  <2>5. x[1] = S!Key(spec, n)
    BY <2>3, <2>4 DEF S!OneKey, S!Key
  <2>6. p.rest[2] = spec /\ p.rest[1] = c.rest
    BY <1>2 DEF PlanFor, S!Rest
  <2>7. p.rest[2].says[x[2][2]] = S!Said(spec, c, n)
    BY <2>2, <2>6 DEF S!Said
  <2>8. IF S!IsText(S!Said(spec, c, n))
        THEN <<d, x[1], <<S!Said(spec, c, n), c.rest>>>> \in files
        ELSE <<d, x[1]>> \in hist.failed \/ \A r \in files : r[1] = d => r[2] # x[1]
    BY <1>2, <2>6, <2>7 DEF Right, Good
  <2> QED BY <2>1, <2>5, <2>8
<1>5. \A x \in ref : \E n \in S!There(c) :
        /\ S!Keyed(spec, c, n) /\ S!IsText(S!Said(spec, c, n))
        /\ x = <<S!Key(spec, n), <<S!Said(spec, c, n), c.rest>>>>
  BY <1>1 DEF S!Reference
<1>6. \A n \in S!There(c) : S!Keyed(spec, c, n) /\ S!IsText(S!Said(spec, c, n)) =>
        <<S!Key(spec, n), <<S!Said(spec, c, n), c.rest>>>> \in ref
  BY <1>1 DEF S!Reference
<1>7. ASSUME NEW x \in ref PROVE x \in S!Of(files, d)
  <2>1. PICK n \in S!There(c) :
          /\ S!Keyed(spec, c, n) /\ S!IsText(S!Said(spec, c, n))
          /\ x = <<S!Key(spec, n), <<S!Said(spec, c, n), c.rest>>>>
    BY <1>5
  <2>2. S!Seen(p, S!Fp(c, n))
    BY <1>2, <2>1 DEF PlanFor, S!IsText
  <2>3. PICK y \in p.of : y[2] = S!Fp(c, n)
    BY <2>2 DEF S!Seen
  <2>4. PICK m \in S!There(c) :
          /\ y[2] = S!Fp(c, m)
          /\ IF S!IsText(S!Said(spec, c, m))
             THEN <<d, S!Key(spec, m), <<S!Said(spec, c, m), c.rest>>>> \in files
             ELSE TRUE
    BY <1>4
  <2>5. m = n
    BY <2>3, <2>4 DEF S!Fp
  <2>6. PICK r : r = <<d, S!Key(spec, n), <<S!Said(spec, c, n), c.rest>>>>
    OBVIOUS
  <2>7. r \in files /\ r[1] = d /\ x = <<r[2], r[3]>>
    BY <2>1, <2>4, <2>5, <2>6
  <2> QED BY <2>7 DEF S!Of
<1>8. \A k : <<d, k>> \in hist.failed => k \in fails
  <2> SUFFICES ASSUME NEW k, <<d, k>> \in hist.failed PROVE k \in fails
    OBVIOUS
  <2>1. PICK y : y = <<d, k>>
    OBVIOUS
  <2>2. y \in hist.failed /\ y[1] = d /\ y[2] = k
    BY <2>1
  <2> QED BY <2>2
<1>9. ASSUME NEW x \in S!Of(files, d), x[1] \notin fails PROVE x \in ref
  <2>1. PICK r \in files : r[1] = d /\ x = <<r[2], r[3]>>
    BY DEF S!Of
  <2>2. x[1] = r[2] /\ <<d, r[2]>> \notin hist.failed
    BY <1>8, <1>9, <2>1
  <2>3. r[2] \in S!Ids(p.of)
    BY <1>2, <2>1, <2>2 DEF Right, NoOrphans
  <2>4. PICK y \in p.of : y[1] = r[2]
    BY <2>3 DEF S!Ids
  <2>5. PICK n \in S!There(c) :
          /\ y[1] = S!Key(spec, n)
          /\ S!Keyed(spec, c, n) \/ <<d, S!Key(spec, n)>> \in hist.failed
          /\ IF S!IsText(S!Said(spec, c, n))
             THEN <<d, S!Key(spec, n), <<S!Said(spec, c, n), c.rest>>>> \in files
             ELSE \/ <<d, S!Key(spec, n)>> \in hist.failed
                  \/ \A s \in files : s[1] = d => s[2] # S!Key(spec, n)
    BY <1>4
  <2>6. S!Keyed(spec, c, n) /\ S!IsText(S!Said(spec, c, n)) /\ r[2] = S!Key(spec, n)
    BY <2>1, <2>2, <2>4, <2>5
  <2>7. PICK s : s = <<d, S!Key(spec, n), <<S!Said(spec, c, n), c.rest>>>>
    OBVIOUS
  <2>8. s \in files /\ s[1] = r[1] /\ s[2] = r[2]
    BY <2>1, <2>5, <2>6, <2>7
  <2>9. r = s
    BY <1>3, <2>8 DEF Unique
  <2>10. x = <<S!Key(spec, n), <<S!Said(spec, c, n), c.rest>>>>
    BY <2>1, <2>7, <2>9
  <2> QED BY <1>6, <2>6, <2>10
<1> QED BY <1>7, <1>9

\* The records of a document in the index files are those that indexing it from
\* nothing would make, but for ones that failed: planning what moved since the
\* fingerprints, however often, comes to the same (indexer::plan, commit).
THEOREM IncrementsAreFull ==
  ASSUME S!SearchIndexConstants, S!Regime, S!OneKey
  PROVE  S!Spec => []S!IncrementalIsFull
BY InvFull, SearchIsInv, PTL

\* index.lua is run on a record only if its document, its item or index.lua moved
\* since the last plan, or it failed then (indexer::plan).
THEOREM RunsAreOfWhatMoved ==
  ASSUME S!SearchIndexConstants, S!Regime
  PROVE  S!Spec => S!RunsOnlyWhatMoved
<1>1. ASSUME SearchInv, S!Next
      PROVE  \A x \in hist'.ran :
               LET was == hist.planned[x[1]] now == hist'.planned[x[1]] IN
               was # None /\ now # None =>
                 \/ was[2] # now[2] \/ was[1].rest # now[1].rest
                 \/ was[1].els[x[2]] # now[1].els[x[2]]
                 \/ S!Said(now[2], now[1], x[2]) = "error"
  <2>1. RanMoved(hist')
    BY <1>1, OpenInv, WriteInv, EditSpecInv, OpenDocInv, QueryInv, CloseInv DEF S!Next
  <2> QED BY <2>1 DEF RanMoved, Moved
<1> QED BY <1>1, SearchIsInv, PTL DEF S!Spec, S!RunsOnlyWhatMoved
=============================================================================
