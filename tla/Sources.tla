------------------------------ MODULE Sources -------------------------------
(***************************************************************************)
(* How one item gets from the desktop that made it to the others, through  *)
(* the node: its headers, its source, and the document it seeds on its     *)
(* first run.  A source or document is the set of edits in it; one without *)
(* edits counts as none.  Joining and pushing run on threads of their own.  *)
(***************************************************************************)
EXTENDS Naturals

CONSTANTS Desktop, Maker, None,
          MaxEdits,   \* bound: edits of each desktop
          MaxCalls,   \* bound: threads started
          MaxFaults   \* bound: calls and writes that fail

\* What the constants have to be
SourcesConstants ==
  /\ Maker \in Desktop /\ None \notin Desktop
  /\ MaxEdits \in Nat /\ MaxCalls \in Nat /\ MaxFaults \in Nat

VARIABLES header,  \* desktops whose vault has the item's headers
          src, doc,        \* what the vaults have
          open,            \* the apps: None, or [src, doc]
          nodeSrc, nodeDoc, nodeHeader,
          threads,         \* [who, op, step, has]
          pushed,          \* edits somebody was told are on the node
          edits, calls, faults
vars == <<header, src, doc, open, nodeSrc, nodeDoc, nodeHeader, threads, pushed, edits, calls, faults>>

Edit == Desktop \X (0..MaxEdits)
Thread == [who : Desktop, op : {"push"}, step : {"start", "call"}, has : SUBSET Edit]
          \cup [who : Desktop, op : {"join"}, step : {"start", "item", "call"}, has : {{}}]
          \cup [who : Desktop, op : {"join"}, step : {"put"}, has : SUBSET Edit]

Init ==
  /\ header = {} /\ src = [d \in Desktop |-> {}] /\ doc = [d \in Desktop |-> {}]
  /\ open = [d \in Desktop |-> None] /\ nodeSrc = {} /\ nodeDoc = {} /\ nodeHeader = FALSE
  /\ threads = {} /\ pushed = {} /\ edits = [d \in Desktop |-> 0] /\ calls = 0 /\ faults = 0

Fault == faults < MaxFaults /\ faults' = faults + 1
onNode == <<nodeSrc, nodeDoc, nodeHeader, pushed>>

\* ItemsScreen::upload: the header, then the source, which may fail
Upload ==
  /\ Maker \notin header /\ header' = header \cup {Maker}
  /\ \/ src' = [src EXCEPT ![Maker] = {<<Maker, 0>>}] /\ UNCHANGED faults
     \/ Fault /\ UNCHANGED src
  /\ UNCHANGED <<doc, open, threads, edits, calls>> /\ UNCHANGED onNode

\* EditFile and WriteFile: of the open app's source, or the vault's; the
\* vault then has that, unless the put fails
EditSource(d) ==
  /\ d \in header /\ edits[d] < MaxEdits /\ edits' = [edits EXCEPT ![d] = @ + 1]
  /\ LET base == IF open[d] = None THEN src[d] ELSE open[d].src
         edited == base \cup {<<d, edits[d] + 1>>}
     IN /\ open' = IF open[d] = None THEN open ELSE [open EXCEPT ![d].src = edited]
        /\ \/ src' = [src EXCEPT ![d] = edited] /\ UNCHANGED faults
           \/ Fault /\ UNCHANGED src
  /\ UNCHANGED <<header, doc, threads, calls>> /\ UNCHANGED onNode

\* open_tab: refused without a source.  A document the vault does not have is
\* pulled from the node, and seeded when that has none or cannot be asked.
\* The flush that follows saves it.  Mutant: not asked
NotAsked(d, reached) == {}
Pulled(d, reached) == IF reached THEN nodeDoc ELSE {}
Open(d) ==
  /\ d \in header /\ open[d] = None /\ src[d] # {}
  /\ \E reached \in BOOLEAN :
       LET found == IF doc[d] # {} THEN doc[d] ELSE Pulled(d, reached)
           run == IF found = {} THEN {<<d, 0>>} ELSE found
       IN /\ doc[d] # {} => reached
          /\ IF reached THEN UNCHANGED faults ELSE Fault
          /\ open' = [open EXCEPT ![d] = [src |-> src[d], doc |-> run]]
          /\ doc' = [doc EXCEPT ![d] = run]
  /\ UNCHANGED <<header, src, threads, edits, calls>> /\ UNCHANGED onNode

Close(d) ==
  /\ open[d] # None /\ open' = [open EXCEPT ![d] = None]
  /\ UNCHANGED <<header, src, doc, threads, edits, calls, faults>> /\ UNCHANGED onNode

\* The sync of the open document, both ways and saved (see Sync)
SyncDoc(d) ==
  /\ open[d] # None /\ nodeDoc' = nodeDoc \cup open[d].doc
  /\ open' = [open EXCEPT ![d].doc = nodeDoc'] /\ doc' = [doc EXCEPT ![d] = nodeDoc']
  /\ UNCHANGED <<header, src, nodeSrc, nodeHeader, threads, pushed, edits, calls, faults>>

\* publish_one: the headers, as the node records them
Publish(d) ==
  /\ d \in header /\ ~nodeHeader /\ nodeHeader' = TRUE
  /\ UNCHANGED <<header, src, doc, open, nodeSrc, nodeDoc, threads, pushed, edits, calls, faults>>

\* Request::JoinItem and PushSrc: a thread each
Start(d, op) ==
  /\ calls < MaxCalls /\ calls' = calls + 1
  /\ op = "push" => d \in header
  /\ threads' = threads \cup {[who |-> d, op |-> op, step |-> "start", has |-> {}]}
  /\ UNCHANGED <<header, src, doc, open, edits, faults>> /\ UNCHANGED onNode

Ends(t) == threads' = threads \ {t}
Goes(t, step, has) ==
  threads' = (threads \ {t}) \cup {[t EXCEPT !.step = step, !.has = has]}

\* push_src reads the vault, then calls.  What the node answers is dropped.
PushReads(t) ==
  /\ t \in threads /\ t.op = "push" /\ t.step = "start"
  /\ IF src[t.who] = {} THEN Ends(t) ELSE Goes(t, "call", src[t.who])
  /\ UNCHANGED <<header, src, doc, open, edits, calls, faults>> /\ UNCHANGED onNode
\* Admin::accept_sync merges.
NodeMerges(had, came) == had \cup came
PushCalls(t) ==
  /\ t \in threads /\ t.op = "push" /\ t.step = "call" /\ Ends(t)
  /\ nodeSrc' = NodeMerges(nodeSrc, t.has) /\ pushed' = pushed \cup t.has
  /\ UNCHANGED <<header, src, doc, open, nodeDoc, nodeHeader, edits, calls, faults>>

\* join_item: adopt_workspace and adopt_item, the exchange with an empty
\* document, put_src.  Mutant: only what the node knows is adopted
HeadersIfPublished(t) == IF t.step = "item" /\ nodeHeader THEN header \cup {t.who} ELSE header
HeadersFirst(t) == IF t.step = "item" THEN header \cup {t.who} ELSE header
After(t) == CASE t.step = "start" -> "item" [] t.step = "item" -> "call" [] OTHER -> "put"
JoinStep(t) ==
  /\ t \in threads /\ t.op = "join"
  /\ IF t.step = "put" THEN Ends(t) ELSE Goes(t, After(t), IF t.step = "call" THEN nodeSrc ELSE {})
  /\ header' = HeadersFirst(t)
  /\ src' = IF t.step = "put" THEN [src EXCEPT ![t.who] = t.has] ELSE src
  /\ UNCHANGED <<doc, open, edits, calls, faults>> /\ UNCHANGED onNode

\* A call or a write of a thread fails: it ends with an error
Fails(t) ==
  /\ t \in threads /\ Fault /\ Ends(t)
  /\ UNCHANGED <<header, src, doc, open, edits, calls>> /\ UNCHANGED onNode

\* The desktop's process dies
Crash(d) ==
  /\ Fault /\ open' = [open EXCEPT ![d] = None] /\ threads' = {t \in threads : t.who # d}
  /\ UNCHANGED <<header, src, doc, edits, calls>> /\ UNCHANGED onNode

Next == \/ Upload
        \/ \E d \in Desktop : \/ EditSource(d) \/ Open(d) \/ Close(d) \/ SyncDoc(d) \/ Publish(d)
                              \/ Crash(d) \/ \E op \in {"join", "push"} : Start(d, op)
        \/ \E t \in threads : PushReads(t) \/ PushCalls(t) \/ JoinStep(t) \/ Fails(t)
Spec == Init /\ [][Next]_vars
-----------------------------------------------------------------------------
(* Properties *)

\* Vaults, apps, the node and its threads hold edits, within the bounds.
TypeOK ==
  /\ header \subseteq Desktop /\ src \in [Desktop -> SUBSET Edit] /\ doc \in [Desktop -> SUBSET Edit]
  /\ open \in [Desktop -> {None} \cup [src : SUBSET Edit, doc : SUBSET Edit]]
  /\ nodeSrc \subseteq Edit /\ nodeDoc \subseteq Edit /\ nodeHeader \in BOOLEAN
  /\ threads \subseteq Thread /\ pushed \subseteq Edit
  /\ edits \in [Desktop -> 0..MaxEdits] /\ calls \in 0..MaxCalls /\ faults \in 0..MaxFaults

\* What a desktop was told it has pushed stays on the node, whoever pushes or
\* joins after it and whatever fails.
PushedIsThere == pushed \subseteq nodeSrc

\* No vault has a source of an item it does not know, however far a join got:
\* what is on the device can be found again.
SourceHasHeader == \A d \in Desktop : src[d] # {} => d \in header

\* Sources and headers go together, on the node and in the vaults: both of these.
ItemsAreWhole == PushedIsThere /\ SourceHasHeader

\* A document once seeded on the node is not seeded again by a desktop that
\* reached the node: without failing calls, seeds that meet were planted
\* before either got there.
SeededBefore ==
  [][faults' = faults =>
       \A d \in Desktop : (open[d] = None /\ open'[d] # None /\ nodeDoc # {})
                            => (<<d, 0>> \in doc'[d] => <<d, 0>> \in doc[d] \cup nodeDoc)]_vars

\* An edit that was answered as persisted stays
\* (docs/design/agent-source-editing.md: "the edited source remains durable").
PersistedStays == [][\A d \in Desktop : src[d] \subseteq src'[d]]_vars

\* First-run content is not made again where someone already put it
\* (resolver_with_node).
SeededOnce == \A d, e \in Desktop : <<d, 0>> \in nodeDoc /\ <<e, 0>> \in nodeDoc => d = e
=============================================================================
