------------------------------- MODULE MCApp --------------------------------
(* An app and what it is made of, each on its own: a behaviour is of one   *)
(* part, the rest stays as it began.  Part `host' is the running app and   *)
(* its vault, over sources that draw, fail, break on their data or have no *)
(* main.lua, `faults' the same with a vault that fails; `tree' a           *)
(* document's list and its Lua mirror; `edit' source edits of one client,  *)
(* in batches of one and two over sources of up to four characters of one  *)
(* and two bytes; `clients' edits of two clients.                          *)
EXTENDS AppHost, TLC

CONSTANTS plain, picky, broken, empty, board, log, title, list,   \* of the host
          a, b, Title, Cards, Null, Bad,                          \* of the tree
          c1, c2, narrow, wide, Absent, Closed,                   \* of edits
          Parts                                                   \* which to check

MCMain == plain :> "view" @@ picky :> "view" @@ broken :> "throws" @@ empty :> "missing"
MCOpens == plain :> {board} @@ picky :> {board, log} @@ broken :> {log} @@ empty :> {}
MCDraws == plain :> {title, list} @@ picky :> {title} @@ broken :> {} @@ empty :> {}
MCBreaks == plain :> {} @@ picky :> {board} @@ broken :> {} @@ empty :> {}

\* The vault fails on two of the sources; on all of them it does not
Some(f) == [s \in {plain, picky} |-> f[s]]
Faulty == INSTANCE AppHost WITH Source <- {plain, picky}, Main <- Some(Main),
  Opens <- Some(Opens), Draws <- Some(Draws), Breaks <- Some(Breaks)
Faultless == INSTANCE AppHost WITH MaxFaults <- 0

VARIABLES part,
          cards, pending, mirror, patched, last, ops,   \* DocTree
          saved, doc, read, blind                       \* SourceEdit
ofTree == <<cards, pending, mirror, patched, last, ops>>
ofEdit == <<saved, doc, read, blind>>

Tree == INSTANCE DocTree WITH Ids <- {a, b}, IdKey <- "id", Scalar <- {a, b, Null},
  MaxLen <- 3, MaxOps <- 2, list <- cards
ASSUME Tree!DocTreeConstants

Old == {<<>>, <<narrow>>, <<wide>>, <<narrow, wide>>, <<wide, narrow>>, <<narrow, narrow>>}
New == {<<>>, <<wide>>, <<narrow, narrow>>}
Edits == [old : Old, new : New]
Edit == INSTANCE SourceEdit WITH
  Clients <- {c1}, Wide <- {wide}, MaxLength <- 4,
  Batches <- {<<e>> : e \in Edits}
             \cup {<<e, f>> : e \in Edits, f \in [old : {<<narrow>>, <<wide>>}, new : New]},
  Writes <- {<<narrow>>, <<wide, narrow>>, <<wide, wide, narrow>>, <<narrow, wide, narrow>>,
             <<wide, narrow, narrow, wide>>, <<narrow, narrow, narrow>>}
TwoClients == INSTANCE SourceEdit WITH
  Clients <- {c1, c2}, Wide <- {wide}, MaxLength <- 3,
  Batches <- {<<[old |-> <<wide>>, new |-> <<>>]>>, <<[old |-> <<narrow>>, new |-> <<wide>>]>>,
              <<[old |-> <<wide>>, new |-> <<wide>>]>>},
  Writes <- {<<narrow>>, <<wide, narrow>>}

MCInit ==
  /\ part \in Parts
  /\ Init /\ Tree!Init
  /\ IF part = "edit" THEN Edit!Init ELSE TwoClients!Init
MCNext ==
  /\ \/ /\ UNCHANGED <<ofTree, ofEdit>>
        /\ \/ part = "host" /\ Faultless!Next
           \/ part = "faults" /\ Faulty!Next
     \/ part = "tree" /\ Tree!Next /\ UNCHANGED <<vars, ofEdit>>
     \/ /\ UNCHANGED <<vars, ofTree>>
        /\ \/ part = "edit" /\ Edit!Next
           \/ part = "clients" /\ TwoClients!Next
  /\ UNCHANGED part
MCSpec == MCInit /\ [][MCNext]_<<part, vars, ofTree, ofEdit>>

-----------------------------------------------------------------------------
\* Every part's variables have their types.
Types == TypeOK /\ Tree!TypeOK

\* What is edited is what is shown.  DocTree: the mirror is what the document says,
\* ids and all.  SourceEdit: the edits of a batch are made to one and the same text,
\* and nobody edits a text other than the one it has seen.
EditsAreSound ==
  /\ Tree!MirrorShowsTheDocument
  /\ part = "edit" => Edit!Simultaneous
  /\ TwoClients!SeenIsEdited

\* A write changes what it names.  AppHost: no unread document is overwritten, no
\* draft dropped by a view that fails.  DocTree: a write by id changes the element
\* of that id and no other, a move loses nothing, an append goes last whatever the
\* mirror showed.
WritesAreKept ==
  /\ NothingOverwritten /\ DraftsSurvive
  /\ Tree!IdHitsItsElement /\ Tree!MoveKeepsAll /\ Tree!AppendsGoLast
=============================================================================
