----------------------------- MODULE MCRuntime ------------------------------
(* What the runtime does with a view, in parts; a behaviour is of one, and *)
(* the rest stays as it began.  Of Gestures: a card that is dragged and    *)
(* hovered, with a drop target and a button (`cards'); a canvas with a     *)
(* camera, a bar, buttons inside and over it and an input, captured now    *)
(* and then (`canvases'); two key owners with an autofocus field           *)
(* (`games').  Of Scroll: a list in a board under a camera, of a few       *)
(* pixels each (`wheels', `thumbs').  Of World: a carrier, a thing with a  *)
(* sensor that is put down and carried, a loose puck whose material        *)
(* changes (`floor'); a lid with clips, and timers (`clock'); a hero whose *)
(* controller stays (`walk').  Of World3D: worlds of a marble and a floor  *)
(* over sources that move the marble, add a world, change a collider,      *)
(* exceed the bodies and fail (`marbles'), or one that is also captured    *)
(* (`filmed').                                                             *)
EXTENDS Gestures, Integers, TLC

CONSTANTS card, target, go, canvas, aside, bar, field, game, dialog, here, there, k1, k2,
          Parts             \* which to check

VARIABLES part,
          \* Scroll
          shown, frame, store, live, pan, under, thumb, inputs, sent,
          \* World
          world, drawn, armed, keyed, repaint, queue, now, down, focus,
          toldLast, zones, dirs, wants, off,
          \* World3D
          worlds, recipes, open, resolved, inFront, due, time, painted, viewed, visible
ofScroll == <<shown, frame, store, live, pan, under, thumb, inputs, sent>>
ofWorld == <<world, drawn, armed, keyed, repaint, queue, now, down, focus,
             toldLast, zones, dirs, wants, off>>
ofWorld3D == <<worlds, recipes, open, resolved, inFront, due, time, painted, viewed, visible>>

-----------------------------------------------------------------------------
(* Gestures *)

\* What is in the tree and where: a card that moves, one that is gone.
CardThere == card :> {here} @@ go :> {here, there} @@ target :> {there}
CardMoved == card :> {there} @@ go :> {here} @@ target :> {there}
CardGone == target :> {there}
CardLayouts == {CardThere, CardMoved, CardGone}

\* A camera with a button inside, a button floating over it, a bar, a field.
Open == canvas :> {here, there} @@ go :> {here} @@ aside :> {there} @@ bar :> {} @@ field :> {}
WithBar == canvas :> {here, there} @@ go :> {here} @@ bar :> {there}
WithField == [Open EXCEPT ![field] = {here}, ![go] = {there}, ![aside] = {}]
CanvasLayouts == {Open, WithBar, WithField}

\* A game that listens to keys, a dialog that listens above it, a field.
Game == game :> {here}
Dialog == game :> {here} @@ dialog :> {here}
Asking == game :> {here} @@ field :> {here}
Clipped == game :> {here} @@ field :> {}
Alone == game :> {} @@ field :> {here}
GameLayouts == {Game, Dialog, Asking, Clipped, Alone}

AllLayouts == CardLayouts \cup CanvasLayouts \cup GameLayouts
InPaintOrder == <<game, dialog, canvas, target, go, card, aside, field, bar>>
GoInside == {<<go, canvas>>}

CardApp == INSTANCE Gestures WITH Layouts <- CardLayouts, Captures <- FALSE, MaxHeld <- 2,
  Keys <- {}, Autofocus <- {}, InCamera <- {}
CanvasApp == INSTANCE Gestures WITH Layouts <- CanvasLayouts, Captures <- TRUE, MaxHeld <- 2,
  Keys <- {}, Autofocus <- {}
GameApp == INSTANCE Gestures WITH Layouts <- GameLayouts, Captures <- FALSE, MaxHeld <- 1,
  Spots <- {here}, InCamera <- {}

-----------------------------------------------------------------------------
(* Scroll *)

XY(x, y) == [a \in {"x", "y"} |-> IF a = "x" THEN x ELSE y]
El(axes, content, size, top, bottom) ==
  [axes |-> axes, content |-> content, inner |-> size, top |-> top, bottom |-> bottom]
Board(axes) == El(axes, XY(3, 6), XY(2, 3), 0, 3)
List(height) == El({"y"}, XY(2, height), XY(2, 2), 0, 2)
View(els, at) == [els |-> els, field |-> at]

\* The list in sight whatever the board's offset; it grows and shrinks.
Both == {View(("board" :> Board({"x", "y"})) @@ ("list" :> [List(h) EXCEPT !.bottom = 9]), None)
         : h \in {2, 3, 4}}
\* The list at the board's top, and the board alone, with a field far down.
Fields == {View(("board" :> Board({"y"})) @@ ("list" :> List(4)), None),
           View("board" :> Board({"y"}), None), View("board" :> Board({"y"}), <<4, 6>>)}

Shortest == shown.els["list"].content["y"] = 2
Wheels == INSTANCE Scroll WITH
  Layouts <- Both, Deltas <- {XY(1, 0), XY(-1, 0), XY(0, 2), XY(0, -3)}, Travels <- {},
  MaxSent <- 2, Handled <- FALSE, Gain <- 2, MIN_THUMB <- 1, Window <- TRUE,
  outer <- "board", inner <- "list", view <- shown, hits <- frame, over <- under
Thumbs == INSTANCE Scroll WITH
  Layouts <- Fields, Deltas <- {XY(0, 2)}, Travels <- {-1, 1},
  MaxSent <- 2, Handled <- TRUE, Gain <- 2, MIN_THUMB <- 1, Window <- TRUE,
  outer <- "board", inner <- "list", view <- shown, hits <- frame, over <- under
ASSUME Wheels!ScrollConstants /\ Wheels!AllDrawn /\ Thumbs!ScrollConstants

-----------------------------------------------------------------------------
(* World *)

Still(id) == [id |-> id, fields |-> TRUE, collider |-> FALSE, sensor |-> FALSE, loose |-> FALSE,
              ctl |-> FALSE, attach |-> None, clip |-> None, groups |-> {}]
Solid(id) == [Still(id) EXCEPT !.collider = TRUE]
Desc(list) == [list |-> list, actions |-> {}, sized |-> TRUE]

Hand == Still("hand")
Zone == [Solid("zone") EXCEPT !.sensor = TRUE]
Carried == [Zone EXCEPT !.attach = "hand"]
Puck == [Solid("puck") EXCEPT !.loose = TRUE]
Hero == [Still("hero") EXCEPT !.ctl = TRUE]
Tree == Still("tree")
WalkWith(list) == {Desc(list), [Desc(list) EXCEPT !.actions = {<<"jump", "space">>}]}

Floor == INSTANCE World WITH
  Descs <- {Desc(<<Hand, Zone, Puck>>), Desc(<<Hand, Carried, [Puck EXCEPT !.groups = {"one"}]>>),
            Desc(<<Zone>>), Desc(<<[Puck EXCEPT !.groups = {"two"}]>>)},
  Length <- [c \in {} |-> 0], Timers <- {}, Secs <- {}, Commands <- {"set"}, MaxGroups <- 1,
  MaxTime <- 0, Neg <- "left", Pos <- "right", Keys <- {"left", "right", "space"}, told <- toldLast
Clock == INSTANCE World WITH
  Descs <- {Desc(<<[Still("lid") EXCEPT !.clip = "opens"]>>), Desc(<<Still("lid")>>)},
  Length <- "opens" :> 1, Timers <- {"t", "u"}, Secs <- {0, 1}, Commands <- {"after", "cancel"},
  MaxGroups <- 2, MaxTime <- 1, Neg <- "left", Pos <- "right",
  Keys <- {"left", "right", "space"}, told <- toldLast
Walk == INSTANCE World WITH
  Descs <- {Desc(<<Hero>>), [Desc(<<Hero, Tree>>) EXCEPT !.actions = {<<"jump", "space">>}]}
           \cup WalkWith(<<Tree>>),
  Length <- [c \in {} |-> 0], Timers <- {}, Secs <- {}, Commands <- {}, MaxGroups <- 2,
  MaxTime <- 0, Neg <- "left", Pos <- "right", Keys <- {"left", "right", "space"}, told <- toldLast
ASSUME Floor!WorldConstants /\ Clock!WorldConstants /\ Walk!WorldConstants

-----------------------------------------------------------------------------
(* World3D *)

Marble(shape, at) == "marble" :> [shape |-> shape, position |-> at, dynamic |-> TRUE]
Ground == "floor" :> [shape |-> "box", position |-> "low", dynamic |-> FALSE]
Src(rs) == [loads |-> TRUE, renders |-> TRUE, recipes |-> rs]
High == Src("game" :> (Marble("ball", "high") @@ Ground))
Low == Src("game" :> Marble("ball", "low"))
Side == "side" :> Marble("ball", "high")

Marbles == INSTANCE World3D WITH
  Sources <- {High, Low, Src(("game" :> Marble("ball", "high")) @@ Side),
              Src("game" :> Marble("box", "high")),
              Src("game" :> (Marble("ball", "high") @@ Ground @@ ("side" :> Ground["floor"]))),
              [Low EXCEPT !.renders = FALSE]},
  MaxWorlds <- 2, MaxBodies <- 2, MaxSteps <- 1, MaxTime <- 3, Captures <- FALSE,
  Elsewhere <- "elsewhere", seen <- resolved, focused <- inFront, asked <- due, now <- time
Filmed == INSTANCE World3D WITH
  Sources <- {High}, MaxWorlds <- 2, MaxBodies <- 2, MaxSteps <- 1, MaxTime <- 3,
  Captures <- TRUE, Elsewhere <- "elsewhere",
  seen <- resolved, focused <- inFront, asked <- due, now <- time
ASSUME Marbles!World3DConstants /\ Filmed!World3DConstants

-----------------------------------------------------------------------------
MCInit ==
  /\ part \in Parts
  /\ CASE part = "cards" -> CardApp!Init [] part = "canvases" -> CanvasApp!Init
       [] OTHER -> GameApp!Init /\ (part # "games" => view = Game)
  /\ IF part = "thumbs" THEN Thumbs!Init ELSE Wheels!Init /\ (part # "wheels" => Shortest)
  /\ Floor!Init /\ Marbles!Init

OfGestures ==
  \/ part = "cards" /\ CardApp!Next
  \/ part = "canvases" /\ CanvasApp!Next
  \/ part = "games" /\ GameApp!Next
OfScroll ==
  \/ part = "wheels" /\ Wheels!Next
  \/ part = "thumbs" /\ Thumbs!Next
OfWorld ==
  \/ part = "floor" /\ Floor!Next
  \/ part = "clock" /\ Clock!Next
  \/ part = "walk" /\ Walk!Next
OfWorld3D ==
  \/ part = "marbles" /\ Marbles!Next
  \/ part = "filmed" /\ Filmed!Next
MCNext ==
  /\ \/ OfGestures /\ UNCHANGED <<ofScroll, ofWorld, ofWorld3D>>
     \/ OfScroll /\ UNCHANGED <<vars, ofWorld, ofWorld3D>>
     \/ OfWorld /\ UNCHANGED <<vars, ofScroll, ofWorld3D>>
     \/ OfWorld3D /\ UNCHANGED <<vars, ofScroll, ofWorld>>
  /\ UNCHANGED part
MCSpec == MCInit /\ [][MCNext]_<<part, vars, ofScroll, ofWorld, ofWorld3D>>

-----------------------------------------------------------------------------
(* The properties, each where it is checked *)

\* Every part's variables have their types.
Types ==
  /\ TypeOK
  /\ part = "floor" => Floor!TypeOK
  /\ part = "clock" => Clock!TypeOK
  /\ part = "walk" => Walk!TypeOK
  /\ part = "marbles" => Marbles!TypeOK
  /\ part = "filmed" => Filmed!TypeOK

\* Scroll: the innermost that can scroll does, what a wheel asks for is scrolled,
\* panned or lost at an end; a thumb follows the pointer that drags it; and a field
\* that takes the focus is scrolled into sight.
ScrollSteps ==
  /\ Wheels!InnermostFirst
  /\ [][part = "wheels" => Wheels!Conserved']_ofScroll
  /\ Thumbs!ThumbFollows /\ Thumbs!FocusedIsSeen

\* Worlds are what they say.  World: solid entities and no others have bodies, zones
\* were told what is in them, what must come of itself has a tick asked for, a clip
\* ends once, held keys are down, and who walked is told to stop.  World3D: the
\* worlds are the accepted source's, were simulated no longer than views resolved
\* them, and while one on the screen moves a frame is asked for, captures or not.
WorldsAreTrue ==
  /\ part = "floor" => Floor!BodiesAreSolids /\ Floor!ZonesAgree
  /\ part = "clock" => Clock!PendingTicks /\ Clock!OneEndPerPlay
  /\ part = "walk" => Walk!HeldKeysAreDown /\ Walk!StopsAreTold
  /\ part = "marbles" => Marbles!AuthoredIsLive /\ Marbles!SimulatedWasViewed
  /\ part = "filmed" => Filmed!AwakeIsAsked

\* World: one touch is one hit, timers fire in time.  World3D: a reload that is
\* accepted moves no body that stays.
WorldSteps == Floor!HitOnce /\ Clock!TimersOnTime /\ Marbles!ReloadKeepsPoses
=============================================================================
