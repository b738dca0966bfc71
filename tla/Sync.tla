-------------------------------- MODULE Sync --------------------------------
(***************************************************************************)
(* Document sync between desktops and their node: an app's documents in a  *)
(* desktop's memory, the snapshots in its vault, the layers in the node's, *)
(* and the three messages between them: a hello with the whole history, an *)
(* ack with what the hello lacked, a push of the merged snapshot to others.*)
(*                                                                         *)
(* A document is the set of its edits: importing is union, which is what   *)
(* sync uses of Loro.  An edit is <<document, author, n>>.  One app is     *)
(* modelled; its documents open with it, but for those whose snapshots     *)
(* cannot be read.  The window handles one message at a time, and flushes  *)
(* and syncs after each (AfterMessage).  Every call to the node is on a    *)
(* thread of its own, so calls overtake one another.  Who hears a push is  *)
(* Listen's subject; here it may be anyone with room for it.               *)
(***************************************************************************)
EXTENDS Naturals, FiniteSets

CONSTANTS Desktop, Node,
          Doc,              \* the app's documents
          Edit,             \* the edits there are to make
          Capacity,         \* CHANNEL_CAPACITY, of pushes to a desktop
          Ticking,          \* whether SyncTick runs
          MaxFaults,        \* bound: lost messages, failed writes, crashes
          MaxTabs           \* bound: how often the app is opened or closed

ASSUME SyncAssumption ==
  /\ Node \notin Desktop /\ IsFiniteSet(Doc)
  /\ Edit \subseteq Doc \X Desktop \X Nat
  /\ Capacity \in Nat \ {0} /\ Ticking \in BOOLEAN
  /\ MaxFaults \in Nat /\ MaxTabs \in Nat

VARIABLES open,             \* the documents each desktop has open: its app's cores
          mem,              \* its documents in memory
          dirty,            \* documents whose version is past their watermark
          vault,            \* the desktop's stored snapshots
          index,            \* what the desktop's search index holds
          layers,           \* the node's stored snapshots
          net,              \* messages under way
          made,             \* history: the edits made
          faults, tabs      \* how many so far
vars == <<open, mem, dirty, vault, index, layers, net, made, faults, tabs>>

Init ==
  /\ open = [d \in Desktop |-> {}]
  /\ mem = [d \in Desktop |-> {}] /\ dirty = [d \in Desktop |-> {}]
  /\ vault = [d \in Desktop |-> {}] /\ index = [d \in Desktop |-> {}]
  /\ layers = {} /\ net = {} /\ made = {}
  /\ faults = 0 /\ tabs = 0

\* The part of a set of edits that is of document x, or of the documents xs
Of(edits, x) == {e \in edits : e[1] = x}
Within(edits, xs) == {e \in edits : e[1] \in xs}

\* desktop_start_sync with no `since': the update and the version vector are
\* the whole document.  `live' is the thread that waits for the answer.
Hello(d, x, edits) ==
  [kind |-> "hello", who |-> d, doc |-> x, edits |-> Of(edits, x), live |-> TRUE]
Ack(d, x, edits) == [kind |-> "ack", who |-> d, doc |-> x, edits |-> edits, live |-> TRUE]
Push(d, x, edits) == [kind |-> "push", who |-> d, doc |-> x, edits |-> edits, live |-> TRUE]

PushesTo(o, msgs) == {m \in msgs : m.kind = "push" /\ m.who = o}

\* Mutant: a push waits for room in a queue without a bound
FanOutsUnbounded(d, xs, edits) ==
  SUBSET {Push(o, x, Of(edits, x)) : o \in Desktop \ {d}, x \in xs}

\* fan_out of the documents xs, synced by d: which pushes are queued.  A queue
\* that is full drops them, and not everyone is subscribed or listens.
FanOuts(d, xs, edits) ==
  {ps \in SUBSET {Push(o, x, Of(edits, x)) : o \in Desktop \ {d}, x \in xs} :
     \A o \in Desktop : Cardinality(PushesTo(o, net \cup ps)) <= Capacity}

Message == [kind : {"hello", "ack", "push"}, who : Desktop, doc : Doc,
            edits : SUBSET Edit, live : BOOLEAN]

-----------------------------------------------------------------------------
(* The desktop *)

\* The documents still past their watermark once `saved' have been put
StillDirty(versions, saved) == versions \ saved

\* What follows every message.  LuaApp::flush saves the dirty documents, one
\* put each, in no particular order, and stops at the first put that fails; a
\* document's watermark moves once its put has landed.  Every document it got
\* to, the failed one included, is indexed and synced.
AfterMessage(d, edits, versions, sent) ==
  \E saved \in SUBSET versions, failed \in SUBSET versions :
    /\ failed \cap saved = {} /\ Cardinality(failed) <= 1
    /\ failed = {} => saved = versions
    /\ faults + Cardinality(failed) <= MaxFaults
    /\ faults' = faults + Cardinality(failed)
    /\ mem' = [mem EXCEPT ![d] = edits]
    /\ dirty' = [dirty EXCEPT ![d] = StillDirty(versions, saved)]
    /\ vault' = [vault EXCEPT ![d] = Within(@, Doc \ saved) \cup Within(edits, saved)]
    /\ index' = [index EXCEPT ![d] = Within(@, Doc \ (saved \cup failed))
                                       \cup Within(edits, saved \cup failed)]
    /\ net' = sent \cup {Hello(d, x, edits) : x \in saved \cup failed}

\* resolver_with_node: what the documents open with
Resolved(d, pulled) == vault[d] \cup Within(layers, pulled)

\* Mutant: `.ok().flatten()', so that a snapshot that cannot be read is none
OpenedAll(readable) == Doc

\* resolver: the error of a snapshot that cannot be read is doc.open's, which
\* then makes no core
Opened(readable) == readable

\* The app opens, with the documents whose snapshots can be read.  A document
\* with no snapshot is asked of the node, in line, which serves that like any
\* hello: it pushes to others, too.  The call may fail, and so may the write of
\* what it brought; neither is an error.  The index catches up with the
\* documents before anything else happens, and keeps what it had of the others.
Open(d) ==
  /\ open[d] = {} /\ tabs < MaxTabs
  /\ tabs' = tabs + 1
  /\ \E readable \in SUBSET Doc :
     /\ faults' = faults + (IF readable = Doc THEN 0 ELSE 1) /\ faults' <= MaxFaults
     /\ open' = [open EXCEPT ![d] = Opened(readable)]
     /\ \E pulled \in SUBSET {x \in readable : Of(vault[d], x) = {}} :
        \E cached \in SUBSET {x \in pulled : Of(layers, x) # {}}, ps \in FanOuts(d, pulled, layers) :
          /\ mem' = [mem EXCEPT ![d] = Within(Resolved(d, pulled), readable)]
          /\ index' = [index EXCEPT ![d] = Within(@, Doc \ readable)
                                             \cup Within(Resolved(d, pulled), readable)]
          /\ vault' = [vault EXCEPT ![d] = @ \cup Within(layers, cached)]
          /\ net' = net \cup ps
  /\ dirty' = [dirty EXCEPT ![d] = {}]
  /\ UNCHANGED <<layers, made>>

\* A local write, by the app or over the bridge
MakeEdit(d, e) ==
  /\ e[1] \in open[d] /\ e[2] = d /\ e \notin made
  /\ made' = made \cup {e}
  /\ AfterMessage(d, mem[d] \cup {e}, dirty[d] \cup {e[1]}, net)
  /\ UNCHANGED <<open, layers, tabs>>

\* The documents whose version an import moves: those it brought anything new
Touched(d, x, edits) == IF edits \subseteq mem[d] THEN {} ELSE {x}

\* LuaApp::with_doc, then LoroDoc::import: a document that is not open takes
\* nothing.  The flush comes all the same.
Import(d, m) ==
  LET edits == IF m.doc \in open[d] THEN m.edits ELSE {}
  IN  AfterMessage(d, mem[d] \cup edits, dirty[d] \cup Touched(d, m.doc, edits), net \ {m})

\* SYNC_INTERVAL is longer than a call may take: the last tick's are over.  So,
\* here, are those of flushes since, which in the code may not be: a tick that
\* comes among them adds only calls like theirs.
SyncTick(d) ==
  /\ Ticking /\ open[d] # {}
  /\ \A m \in net : m.who = d /\ m.kind # "push" => ~m.live
  /\ AfterMessage(d, mem[d], dirty[d], net \cup {Hello(d, x, mem[d]) : x \in open[d]})
  /\ UNCHANGED <<open, layers, made, tabs>>

SyncDone(d, m) ==
  /\ m.kind = "ack" /\ m.who = d
  /\ Import(d, m)
  /\ UNCHANGED <<open, layers, made, tabs>>

PushReceived(d, m) ==
  /\ m.kind = "push" /\ m.who = d
  /\ Import(d, m)
  /\ UNCHANGED <<open, layers, made, tabs>>

\* The tab is closed: what was not saved by now will not be
Close(d) ==
  /\ open[d] # {} /\ tabs < MaxTabs
  /\ tabs' = tabs + 1 /\ open' = [open EXCEPT ![d] = {}]
  /\ mem' = [mem EXCEPT ![d] = {}] /\ dirty' = [dirty EXCEPT ![d] = {}]
  /\ UNCHANGED <<vault, index, layers, net, made, faults>>

\* The process dies: its threads, too, but not what they already sent
Crash(d) ==
  /\ faults < MaxFaults /\ faults' = faults + 1
  /\ open[d] # {}
  /\ open' = [open EXCEPT ![d] = {}]
  /\ mem' = [mem EXCEPT ![d] = {}] /\ dirty' = [dirty EXCEPT ![d] = {}]
  /\ net' = {m \in net : m.who # d}
              \cup {[m EXCEPT !.live = FALSE] : m \in {n \in net : n.who = d /\ n.kind = "hello"}}
  /\ UNCHANGED <<vault, index, layers, made, tabs>>

-----------------------------------------------------------------------------
(* The node *)

\* Mutant: the update replaces the stored layer
MergedOver(m) == m.edits

\* node_accept_sync: the stored layer with the update imported
Merged(m) == Of(layers, m.doc) \cup m.edits

\* Mutant: the difference is taken to the merged document's own version vector
DiffOfNothing(m) == {}

\* node_accept_sync: what the hello's version vector does not cover
Diff(m) == Merged(m) \ m.edits

\* accept_sync: merge into the stored layer, store it, push it to subscribers
\* other than the sender, answer with what the hello did not have
AcceptSync(m) ==
  /\ m.kind = "hello"
  /\ layers' = (layers \ Of(layers, m.doc)) \cup Merged(m)
  /\ \E ps \in FanOuts(m.who, {m.doc}, Merged(m)) :
       net' = (net \ {m}) \cup ps
                \cup (IF m.live THEN {Ack(m.who, m.doc, Diff(m))} ELSE {})
  /\ UNCHANGED <<open, mem, dirty, vault, index, made, faults, tabs>>

-----------------------------------------------------------------------------
(* Between them *)

\* A call that never arrives or is answered by an error, a reply or a push
\* that is lost
Lose(m) ==
  /\ faults < MaxFaults /\ faults' = faults + 1
  /\ net' = net \ {m}
  /\ UNCHANGED <<open, mem, dirty, vault, index, layers, made, tabs>>

\* A call times out, and the node still takes it up
GiveUp(m) ==
  /\ faults < MaxFaults /\ faults' = faults + 1
  /\ m.kind = "hello" /\ m.live
  /\ net' = (net \ {m}) \cup {[m EXCEPT !.live = FALSE]}
  /\ UNCHANGED <<open, mem, dirty, vault, index, layers, made, tabs>>

Next ==
  \/ \E d \in Desktop :
       \/ Open(d) \/ Close(d) \/ Crash(d) \/ SyncTick(d)
       \/ \E e \in Edit : MakeEdit(d, e)
       \/ \E m \in net : SyncDone(d, m) \/ PushReceived(d, m)
  \/ \E m \in net : AcceptSync(m) \/ Lose(m) \/ GiveUp(m)

\* The timer, the window's event loop and the node's accept loop run; nobody
\* has to open, close or edit anything
Fairness ==
  \A d \in Desktop :
    /\ WF_vars(SyncTick(d))
    /\ \A x \in Doc :
         /\ WF_vars(\E m \in net : m.doc = x /\ SyncDone(d, m))
         /\ WF_vars(\E m \in net : m.doc = x /\ PushReceived(d, m))
         /\ WF_vars(\E m \in net : m.doc = x /\ m.who = d /\ AcceptSync(m))

Spec == Init /\ [][Next]_vars /\ Fairness

-----------------------------------------------------------------------------
\* Every variable has its type, only open documents are past their watermark, and
\* no queue of pushes outgrows its channel.
TypeOK ==
  /\ open \in [Desktop -> SUBSET Doc] /\ \A d \in Desktop : dirty[d] \subseteq open[d]
  /\ mem \in [Desktop -> SUBSET Edit] /\ dirty \in [Desktop -> SUBSET Doc]
  /\ vault \in [Desktop -> SUBSET Edit] /\ index \in [Desktop -> SUBSET Edit]
  /\ layers \subseteq Edit /\ net \subseteq Message /\ made \subseteq Edit
  /\ \A o \in Desktop : Cardinality(PushesTo(o, net)) <= Capacity
  /\ faults \in 0..MaxFaults /\ tabs \in 0..MaxTabs

\* A put writes a whole snapshot over the last one, and loses nothing by it:
\* an open document has everything its snapshot has (crdt::install, LuaApp::flush).
MemoryHasTheVault == \A d \in Desktop : Within(vault[d], open[d]) \subseteq mem[d]

\* What is not in the vault is in a document the next flush will save, or came
\* from the node: no edit is in memory only with nothing left to save it.
UnsavedIsDirty ==
  \A d \in Desktop : \A e \in mem[d] \ vault[d] : e[1] \in dirty[d] \/ e \in layers

\* No edit of an open document is lost to a put that overwrites it, or to a flush that
\* does not know of it: the two together.
SyncKeeps == MemoryHasTheVault /\ UnsavedIsDirty

\* Vaults and the node's layers are replicas that never forget an edit, and
\* know of none that was not made, whatever is lost, late, repeated or dies.
Durable == [r \in Desktop \cup {Node} |-> IF r = Node THEN layers ELSE vault[r]]
Abstract == INSTANCE Replicas WITH Replica <- Desktop \cup {Node}, durable <- Durable
ImplementsReplicas == Abstract!Spec

\* Once nobody edits, opens or closes anything, the node and every desktop come to
\* agree on what the desktop has open, and stay so, though pushes, calls, replies and
\* saves failed on the way: SyncTick is the backstop it is said to be.
Agreed == \A d \in Desktop : mem[d] = Within(layers, open[d])
Converges == <>[]Agreed

\* A push that is imported dirties its document, which is synced, which pushes
\* to others: but for the timer, this echo dies down.
Quiet == net = {}
EchoDies == <>[]Quiet

\* "So the index never holds a record the vault does not" (Shell::update).
IndexWithinVault == \A d \in Desktop : index[d] \subseteq vault[d]
=============================================================================
