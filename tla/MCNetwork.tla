----------------------------- MODULE MCNetwork ------------------------------
(* What desktops, their node and the registry hold of one another's, in    *)
(* parts; a behaviour is of one, and the rest stays as it began.  `names'  *)
(* is the registry and a visitor: texts with a dot, dashes at the ends, a  *)
(* capital, too long a one, none.  `documents' is Sync of two documents on *)
(* two desktops: the second is what a flush that fails half-way leaves     *)
(* unsaved.  `items' is an item made on one desktop and joined on another, *)
(* `faults' the same with edits, calls and writes that fail.  `search' and *)
(* `refused' are the index of a document there: records of two values, and *)
(* index.luas that say texts, nil and errors of them, cannot key some, or  *)
(* cannot be applied at all; with crashes, or with commits of the index    *)
(* that are refused.                                                       *)
EXTENDS Names, TLC

CONSTANTS ann, bob, i1, i2, v1, Broken, Closed, NoIndex,
          Edits, Luas,      \* the edits of `documents', the index.luas of `search'
          Parts             \* which to check

SomeTexts == {<<"letter">>, <<"letter", "digit">>, <<"letter", "dot">>, <<"dash", "letter">>,
              <<"letter", "dash">>, <<"capital">>, <<"letter", "letter", "letter">>, <<>>}

VARIABLES part,
          \* Sync
          open, mem, dirty, vault, index, layers, net, made, faults, opened,
          \* Sources
          header, src, doc, apps, nodeSrc, nodeDoc, nodeHeader, threads, pushed, edits, calls, failed,
          \* SearchIndex
          text, live, stored, ix, files, prints, hist, left
ofSync == <<open, mem, dirty, vault, index, layers, net, made, faults, opened>>
ofSources == <<header, src, doc, apps, nodeSrc, nodeDoc, nodeHeader, threads, pushed, edits,
               calls, failed>>
ofSearch == <<text, live, stored, ix, files, prints, hist, left>>

Documents == INSTANCE Sync WITH
  Desktop <- {"one", "two"}, Node <- "node", Doc <- {"x", "y"},
  Edit <- Edits,
  Capacity <- 1, Ticking <- FALSE, MaxFaults <- 1, MaxTabs <- 3, tabs <- opened

Items == INSTANCE Sources WITH
  Desktop <- {"one", "two"}, Maker <- "one", MaxEdits <- 0, MaxCalls <- 4, MaxFaults <- 0,
  open <- apps, faults <- failed
FaultyItems == INSTANCE Sources WITH
  Desktop <- {"one", "two"}, Maker <- "one", MaxEdits <- 1, MaxCalls <- 2, MaxFaults <- 1,
  open <- apps, faults <- failed
ASSUME Items!SourcesConstants /\ FaultyItems!SourcesConstants

SomeEdits == {<<"x", "one", 1>>, <<"y", "one", 1>>}
Says(a, b, unkeyed, bad) ==
  [covers |-> {"d"}, key |-> "id", says |-> ("x" :> a @@ "y" :> b), unkeyed |-> unkeyed, bad |-> bad]
IndexLuas == {Says("one", "two", {}, {}), Says("one", "nil", {}, {}), Says("one", "error", {}, {}),
              Says("one", "two", {"y"}, {}), Says("one", "two", {}, {"d"}), Broken, None}
Search == INSTANCE SearchIndex WITH
  Docs <- {"d"}, Names <- {"n1", "n2"}, Values <- {"x", "y"}, Texts <- Luas,
  Faults <- {"crash"}, MaxEdits <- 3, vault <- stored
Refused == INSTANCE SearchIndex WITH
  Docs <- {"d"}, Names <- {"n1", "n2"}, Values <- {"x", "y"}, Texts <- Luas,
  Faults <- {"files"}, MaxEdits <- 2, vault <- stored
ASSUME SearchAssumption == Search!SearchIndexConstants /\ Refused!SearchIndexConstants

\* What the theorems about SearchIndex suppose of an instance
ASSUME SearchHypotheses ==
  Search!Regime /\ Search!OneKey /\ Refused!Regime /\ Refused!OneKey

MCInit ==
  /\ part \in Parts
  /\ Init /\ Documents!Init /\ Items!Init
  /\ IF part = "refused" THEN Refused!Init ELSE Search!Init
  /\ part \notin {"search", "refused"} => text = None
MCNext ==
  /\ \/ part = "names" /\ Next /\ UNCHANGED <<ofSync, ofSources, ofSearch>>
     \/ part = "documents" /\ Documents!Next /\ UNCHANGED <<vars, ofSources, ofSearch>>
     \/ /\ UNCHANGED <<vars, ofSync, ofSearch>>
        /\ \/ part = "items" /\ Items!Next
           \/ part = "faults" /\ FaultyItems!Next
     \/ /\ UNCHANGED <<vars, ofSync, ofSources>>
        /\ \/ part = "search" /\ Search!Next
           \/ part = "refused" /\ Refused!Next
  /\ UNCHANGED part
MCSpec == MCInit /\ [][MCNext]_<<part, vars, ofSync, ofSources, ofSearch>>

-----------------------------------------------------------------------------
\* Every part's variables have their types.
Types ==
  /\ part = "names" => TypeOK
  /\ part = "documents" => Documents!TypeOK
  /\ part = "items" => Items!TypeOK
  /\ part = "faults" => FaultyItems!TypeOK
  /\ part \in {"search", "refused"} => Search!TypeOK

\* What is stored is kept, and whole.  Sync: an open app has everything its vault
\* has, and what is not in the vault will be saved, or is on the node.  Sources:
\* what somebody was told is pushed is on the node, and nobody has a source
\* without its header.
StoredIsWhole ==
  /\ part = "documents" => Documents!SyncKeeps
  /\ part \in {"items", "faults"} => Items!ItemsAreWhole

\* SearchIndex: what catching up skips is as the index has it, and indexing
\* what moved is as good as indexing all.
IndexIsCurrent ==
  part \in {"search", "refused"} => Search!SkipIsSafe /\ Search!IncrementalIsFull

\* Nothing is made again that is there: Sources' documents are seeded only where
\* there was none, and SearchIndex's index.lua runs on nothing but what moved.
MadeOnce == Items!SeededBefore /\ Search!RunsOnlyWhatMoved
=============================================================================
