------------------------------ MODULE Gestures ------------------------------
(***************************************************************************)
(* How runtime/src/lib.rs (Runner) turns window events into messages for   *)
(* the elements of an app.  An event is tested against `hits`, what the    *)
(* last painted frame laid out, while `view` is what the app would lay out *)
(* now; a press, a drag, a hover and a held key each last over several     *)
(* events and frames, and the elements they are about may move or vanish   *)
(* in between.                                                             *)
(*                                                                         *)
(* A layout gives each element of the tree the spots it covers ({} when it *)
(* is clipped away).  Spots are more than the 5 points of slop apart, so a *)
(* move to another spot travels and a move within the slop stays.  Shapes  *)
(* inside frames, cursor looks, modifiers and coordinates are left out.    *)
(***************************************************************************)
EXTENDS Naturals, FiniteSets, Functions, SequencesExt

CONSTANTS Hovers, Handles, Drops, Buttons, Inputs, Bars, Cameras, Keyed,
          Autofocus,  \* the inputs declared autofocus
          InCamera,   \* <<button, camera>>: the button's zoom_parent
          Paint,      \* the elements in paint order, last on top
          Spots, Keys,
          Layouts,    \* what the app may show
          MaxHeld,    \* 64 in the code
          Captures,   \* screenshots with a viewport of their own happen
          None

Elements == Hovers \union Handles \union Drops \union Buttons \union Inputs
              \union Bars \union Cameras \union Keyed

ASSUME GesturesAssumption ==
  /\ Paint \in Seq(Elements) /\ Range(Paint) = Elements
  /\ \A l \in Layouts : DOMAIN l \subseteq Elements /\ \A e \in DOMAIN l : l[e] \subseteq Spots
  /\ Autofocus \subseteq Inputs /\ InCamera \subseteq Buttons \X Cameras
  /\ MaxHeld \in Nat \ {0} /\ Captures \in BOOLEAN
  /\ None \notin Elements \union Spots

VARIABLES view, hits, pointer, button, drag, pressed, focused, held, owner,
          hovered, asked,
          heard,                    \* what this step told: <<element, what>>
          over, dragging, keysOn,   \* what the elements were told so far
          gesture, travelled,       \* what came of the press that is down
          unheard,                  \* inputs edited without their on_input
          fields                    \* the inputs of the tree laid out last
runner == <<view, hits, pointer, button, drag, pressed, focused, held, owner, hovered, asked>>
told == <<heard, over, dragging, keysOn, gesture, travelled, unheard, fields>>
vars == <<runner, told>>

-----------------------------------------------------------------------------
Blank == <<>>                        \* Hits::clear
Idle == [kind |-> "none"]
Visible(l, K) == {e \in K \intersect DOMAIN l : l[e] # {}}
\* Mutant: what is clipped away is hit too
AtAny(l, K, p) == {e \in DOMAIN l : p \in l[e]}
At(l, K, p) == {e \in Visible(l, K) : p \in l[e]}
\* The last painted of a set: `iter().rev().find(..)`, `last()`.
Topmost(S) == IF S = {} THEN None ELSE Paint[SelectLastInSeq(Paint, LAMBDA e : e \in S)]
Top(l, K, p) == Topmost(At(l, K, p))
KeyOwner(l) == Topmost(Visible(l, Keyed))

\* Hovered::step: the phase each hover element of the last frame is told.
\* A sample is where the pointer was and whether the button was down.
Phases(l, p, inWindow, down) ==
  LET in == IF inWindow THEN At(l, Hovers, p) ELSE {}
      moved == hovered.sample # <<p, down>>
  IN  [inside |-> in,
       msgs |-> {<<e, "enter">> : e \in in \ hovered.inside}
                  \union {<<e, "move">> : e \in IF moved THEN in \intersect hovered.inside ELSE {}}
                  \union {<<e, "leave">> : e \in (Visible(l, Hovers) \ in) \intersect hovered.inside}]
Hover(l, p, inWindow, down) ==
  hovered' = [inside |-> Phases(l, p, inWindow, down).inside, sample |-> <<p, down>>]

\* The handlers run app.update, so what the app would show may change.
Tell(msgs, K) ==
  /\ heard' = msgs
  /\ view' \in (IF msgs = {} THEN {view} ELSE Layouts)
  /\ over' = ((over \union {e \in Hovers : <<e, "enter">> \in msgs})
                 \ {e \in Hovers : <<e, "leave">> \in msgs}) \intersect K
  /\ dragging' = [h \in Handles |->
                    IF <<h, "start">> \in msgs THEN "started"
                    ELSE IF <<h, "end">> \in msgs THEN "no" ELSE dragging[h]]

Init ==
  /\ view \in Layouts /\ hits = Blank /\ pointer = None /\ button = FALSE
  /\ drag = Idle /\ pressed = None /\ focused = None /\ held = {} /\ owner = None
  /\ hovered = [inside |-> {}, sample |-> None] /\ asked = TRUE
  /\ heard = {} /\ over = {} /\ dragging = [h \in Handles |-> "no"]
  /\ keysOn = [e \in Keyed |-> {}] /\ gesture = {} /\ travelled = FALSE /\ unheard = {} /\ fields = {}

\* A message from outside: Runner::deliver asks for a frame.
Deliver ==
  /\ view' \in Layouts /\ asked' = TRUE /\ heard' = {}
  /\ UNCHANGED <<hits, pointer, button, drag, pressed, focused, held, owner, hovered,
                 over, dragging, keysOn, gesture, travelled, unheard, fields>>

-----------------------------------------------------------------------------
\* on_drag_move: the handle, if this frame has it, then the target beneath.
DragMoves(h, p) ==
  {<<e, "drag">> : e \in Visible(hits, {h})}
    \union {<<t, "over">> : t \in {Top(hits, Drops, p)} \ {None}}

\* Runner::on_cursor_moved.  A press that has not travelled becomes a drag
\* at the first spot away from it, whether or not its handle is still there.
Grabs(p) == drag.kind = "pending" /\ drag.at # p
Pans(p) == drag.kind = "zoom" /\ (drag.click => drag.at # p)
DragAfter(p) ==
  IF Grabs(p) THEN [kind |-> "app", id |-> drag.id]
  ELSE IF Pans(p) THEN [kind |-> "zoom", id |-> drag.id, click |-> FALSE, at |-> p]
  ELSE drag
PressedAfter(p) == IF Grabs(p) \/ (Pans(p) /\ drag.click) THEN None ELSE pressed
MoveMsgs(p) ==
  CASE Grabs(p) -> IF Visible(hits, {drag.id}) = {} THEN {}
                   ELSE {<<drag.id, "start">>} \union DragMoves(drag.id, p)
    [] drag.kind = "app" -> DragMoves(drag.id, p)
    [] OTHER -> {}
Move(p) ==
  /\ pointer' = p
  /\ drag' = DragAfter(p) /\ pressed' = PressedAfter(p)
  /\ Hover(hits, p, TRUE, button)
  /\ Tell(MoveMsgs(p) \union Phases(hits, p, TRUE, button).msgs, Hovers)
  /\ gesture' = gesture \union (IF \E h \in Handles : <<h, "start">> \in heard' THEN {"drag"} ELSE {})
                        \union (IF Pans(p) THEN {"pan"} ELSE {})
  /\ travelled' = (travelled \/ (button /\ pointer # p))
  /\ asked' = TRUE
  /\ UNCHANGED <<hits, button, focused, held, owner, keysOn, unheard, fields>>

\* WindowEvent::CursorLeft.
Leave ==
  /\ pointer # None /\ pointer' = None
  /\ Hover(hits, pointer, FALSE, button)
  /\ Tell(Phases(hits, pointer, FALSE, button).msgs, Hovers)
  /\ asked' = TRUE
  /\ UNCHANGED <<hits, button, drag, pressed, focused, held, owner, keysOn, gesture,
                 travelled, unheard, fields>>

-----------------------------------------------------------------------------
\* cancel_keys: the owner hears it only if it is in the last frame.
Cancels == held # {} /\ owner # None /\ owner = KeyOwner(hits)
CancelKeys(when) ==
  IF when /\ held # {}
  THEN /\ held' = {} /\ owner' = None
       /\ keysOn' = IF Cancels THEN [keysOn EXCEPT ![owner] = {}] ELSE keysOn
  ELSE UNCHANGED <<held, owner, keysOn>>
CancelMsgs(when) == IF when /\ Cancels THEN {<<owner, "cancel">>} ELSE {}

\* What a press leaves captured: a bar takes the press; an input takes it
\* from a handle; a camera pans under nothing, or under a click inside it.
PansUnder(c, b) == b = None \/ b = c \/ <<b, c>> \in InCamera
Captured(p) ==
  LET grip == Top(hits, Bars, p)      handle == Top(hits, Handles, p)
      input == Top(hits, Inputs, p)   camera == Top(hits, Cameras, p)
      btn == Top(hits, Buttons, p)
  IN  CASE grip # None   -> [kind |-> "thumb", id |-> grip]
        [] input # None  -> [kind |-> "text", id |-> input]
        [] handle # None -> [kind |-> "pending", id |-> handle, at |-> p]
        [] camera # None /\ PansUnder(camera, btn) ->
             [kind |-> "zoom", id |-> camera, click |-> btn # None, at |-> p]
        [] OTHER -> Idle

\* Runner::button(true): click(), then the hover listeners.
Press ==
  /\ ~button /\ button' = TRUE
  /\ gesture' = {} /\ travelled' = FALSE
  /\ IF pointer = None
     THEN /\ Tell({}, Hovers)
          /\ UNCHANGED <<drag, pressed, focused, held, owner, hovered, keysOn, asked>>
     ELSE LET onBar == Top(hits, Bars, pointer) # None
              input == Top(hits, Inputs, pointer)
              btn == Top(hits, Buttons, pointer)
              focuses == ~onBar /\ input # None
          IN  /\ drag' = Captured(pointer)
              /\ focused' = IF onBar THEN focused ELSE input
              /\ pressed' = IF onBar \/ btn = None THEN pressed
                            ELSE [id |-> btn, spots |-> hits[btn]]
              /\ CancelKeys(focuses)
              /\ Hover(hits, pointer, TRUE, TRUE)
              /\ Tell(CancelMsgs(focuses) \union Phases(hits, pointer, TRUE, TRUE).msgs, Hovers)
              /\ asked' = TRUE
  /\ UNCHANGED <<hits, pointer, unheard, fields>>

\* Mutant: a drop is all that a drag which ends over a target is told
EndOrDrop ==
  IF drag.kind # "app" \/ pointer = None THEN {}
  ELSE IF Top(hits, Drops, pointer) # None
       THEN {<<Top(hits, Drops, pointer), "release">>}
       ELSE {<<e, "end">> : e \in Visible(hits, {drag.id})}
\* Runner::on_cursor_release: the drop, the end, then a click that comes up
\* inside what it was pressed on, where that was when it was pressed.
EndMsgs ==
  IF drag.kind # "app" \/ pointer = None THEN {}
  ELSE {<<t, "release">> : t \in {Top(hits, Drops, pointer)} \ {None}}
         \union {<<e, "end">> : e \in Visible(hits, {drag.id})}
Clicks == pressed # None /\ pointer # None /\ pointer \in pressed.spots
Release ==
  /\ button /\ button' = FALSE
  /\ drag' = Idle /\ pressed' = None
  /\ gesture' = IF Clicks THEN gesture \union {"click"} ELSE gesture
  /\ LET clicked == IF Clicks THEN {<<pressed.id, "click">>} ELSE {}
     IN IF pointer = None
        THEN Tell(EndMsgs \union clicked, Hovers) /\ UNCHANGED hovered
        ELSE /\ Hover(hits, pointer, TRUE, FALSE)
             /\ Tell(EndMsgs \union clicked \union Phases(hits, pointer, TRUE, FALSE).msgs, Hovers)
  /\ asked' = TRUE
  /\ UNCHANGED <<hits, pointer, focused, held, owner, keysOn, travelled, unheard, fields>>

-----------------------------------------------------------------------------
\* Runner::on_game_key.
KeyDown(k) ==
  /\ focused = None
  /\ IF Cardinality(held) >= MaxHeld /\ k \notin held
     THEN CancelKeys(TRUE) /\ Tell(CancelMsgs(TRUE), Hovers)
     ELSE LET e == KeyOwner(hits) IN
          /\ e # None
          /\ held' = held \union {k} /\ owner' = e
          /\ keysOn' = [keysOn EXCEPT ![e] = @ \union {k}]
          /\ Tell({<<e, "down">>}, Hovers)
  /\ asked' = (asked \/ heard' # {})
  /\ UNCHANGED <<hits, pointer, button, drag, pressed, focused, hovered, gesture,
                 travelled, unheard, fields>>

KeyUp(k) ==
  /\ focused = None /\ k \in held
  /\ LET e == KeyOwner(hits) IN
     IF e = None
     THEN Tell({}, Hovers) /\ UNCHANGED <<held, owner, keysOn, asked>>
     ELSE /\ held' = held \ {k}
          /\ owner' = IF held' = {} THEN None ELSE owner
          /\ keysOn' = [keysOn EXCEPT ![e] = @ \ {k}]
          /\ Tell({<<e, "up">>}, Hovers)
          /\ asked' = TRUE
  /\ UNCHANGED <<hits, pointer, button, drag, pressed, focused, hovered, gesture,
                 travelled, unheard, fields>>

\* WindowEvent::Focused(false).
Blur ==
  /\ held # {}
  /\ CancelKeys(TRUE) /\ Tell(CancelMsgs(TRUE), Hovers)
  /\ asked' = (asked \/ heard' # {})
  /\ UNCHANGED <<hits, pointer, button, drag, pressed, focused, hovered, gesture,
                 travelled, unheard, fields>>

\* handle_input's end: the focused field takes the key, and notify_app_text
\* tells the app if the last frame has the field's on_input.
Mapped(f) == f \in DOMAIN hits
Type ==
  /\ focused # None
  /\ Tell(IF Mapped(focused) THEN {<<focused, "input">>} ELSE {}, Hovers)
  /\ unheard' = IF Mapped(focused) THEN unheard ELSE unheard \union {focused}
  /\ asked' = TRUE
  /\ UNCHANGED <<hits, pointer, button, drag, pressed, focused, held, owner, hovered,
                 keysOn, gesture, travelled, fields>>

-----------------------------------------------------------------------------
\* Runner::frame lays out `l`.  An autofocus input takes the focus when the
\* frame before did not have it; a focused input that is gone loses it.
Takers(l) == {i \in Autofocus \intersect DOMAIN l : i \notin DOMAIN hits}
FocusAfter(l) ==
  LET f == IF Takers(l) = {} THEN focused ELSE Topmost(Takers(l))
  IN  IF f \in DOMAIN l THEN f ELSE None
\* The held keys go when a text field has the focus or their owner is no
\* longer on top; only the last handler of the frame before can be told.
\* Mutant: text focus takes no keys away
LosesToOwner(l) == held # {} /\ KeyOwner(l) # owner
LosesKeys(l) == held # {} /\ (FocusAfter(l) # None \/ KeyOwner(l) # owner)
Dropped(l) == IF LosesKeys(l) /\ owner # None /\ owner = KeyOwner(hits)
              THEN {<<owner, "cancel">>} ELSE {}
Collect(l) ==
  /\ focused' = FocusAfter(l)
  /\ IF LosesKeys(l)
     THEN /\ held' = {} /\ owner' = None
          /\ keysOn' = IF Dropped(l) # {} THEN [keysOn EXCEPT ![owner] = {}] ELSE keysOn
     ELSE UNCHANGED <<held, owner, keysOn>>
  /\ fields' = Inputs \intersect DOMAIN l
  /\ unheard' = {}     \* editor::sync puts the app's value back
  /\ UNCHANGED <<pointer, button, drag, pressed, gesture, travelled>>

\* A frame on the screen; the pointer is sampled against it.
Frame ==
  /\ asked
  /\ Collect(view)
  /\ hits' = view
  /\ LET p == Phases(view, pointer, TRUE, button)
         msgs == Dropped(view) \union (IF pointer = None THEN {} ELSE p.msgs)
     IN  /\ IF pointer = None THEN UNCHANGED hovered ELSE Hover(view, pointer, TRUE, button)
         /\ Tell(msgs, Visible(view, Hovers))
         /\ asked' = (msgs # {})

\* A screenshot with a viewport or a scale of its own lays the same tree out
\* elsewhere, and drops what that would have let the pointer hit.
\* Mutant: nothing is asked for after it
CaptureLast(l) ==
  /\ Captures /\ asked
  /\ DOMAIN l = DOMAIN view
  /\ Collect(l)
  /\ hits' = Blank
  /\ heard' = Dropped(l) /\ view' \in Layouts
  /\ asked' = FALSE
  /\ UNCHANGED <<hovered, over, dragging>>
CaptureFrame(l) ==
  /\ Captures /\ asked
  /\ DOMAIN l = DOMAIN view
  /\ Collect(l)
  /\ hits' = Blank
  /\ heard' = Dropped(l) /\ view' \in Layouts
  /\ asked' = TRUE
  /\ UNCHANGED <<hovered, over, dragging>>

Next ==
  \/ Deliver \/ Leave \/ Press \/ Release \/ Blur \/ Type \/ Frame
  \/ \E p \in Spots : Move(p)
  \/ \E k \in Keys : KeyDown(k) \/ KeyUp(k)
  \/ \E l \in Layouts : CaptureFrame(l)
Spec == Init /\ [][Next]_vars

-----------------------------------------------------------------------------
\* What the runner holds is of elements of its kind, and what was tested against
\* is a frame that was laid out, or a blank one.
TypeOK ==
  /\ view \in Layouts /\ hits \in Layouts \union {Blank}
  /\ pointer \in Spots \union {None} /\ focused \in Inputs \union {None}
  /\ drag.kind \in {"none", "pending", "app", "text", "thumb", "zoom"}
  /\ button \in BOOLEAN /\ asked \in BOOLEAN /\ travelled \in BOOLEAN
  /\ held \subseteq Keys /\ owner \in Keyed \union {None}
  /\ hovered.inside \subseteq Hovers /\ over \subseteq Hovers
  /\ dragging \in [Handles -> {"no", "started"}] /\ keysOn \in [Keyed -> SUBSET Keys]
  /\ unheard \subseteq Inputs

(* Pressing and hovering *)

\* With the pointer in the window, the elements that were told it is over
\* them are the ones it is inside of in the frame on the screen: whatever
\* moved, vanished or came back under a pointer that may have stayed still.
OverIsWhereThePointerIs ==
  pointer # None => over = At(hits, Hovers, pointer)

\* A press comes to one thing: a drag, a click, or a panned camera.
OneOutcome == Cardinality(gesture) <= 1

\* What the app would show and what the screen shows differ only while a
\* frame is asked for: no event that reached a handler forgets the repaint.
StaleIsAsked == hits # view => asked

\* The focus is on a field of the tree, and goes with it (Focus).
FocusHasField == focused # None => focused \in fields

\* Elements believe the pointer over them where it is, a press has one outcome,
\* what changed has a frame asked for, and the focus is on a field.  A capture
\* takes the frame's hover elements away, so the first is for apps without any.
PointerIsTrue ==
  (~Captures => OverIsWhereThePointerIs) /\ OneOutcome /\ StaleIsAsked /\ FocusHasField

(* Keys *)

\* An element believes exactly the keys the runner holds for it, and no
\* other element believes any: blur, text focus, another owner and too many
\* keys all reach whoever was told of the presses.
KeysAgree == \A e \in Keyed : keysOn[e] = IF e = owner THEN held ELSE {}
\* The keys are held for the element a key would reach, and for no text field.
HeldForTheTop == held # {} => owner = KeyOwner(hits) /\ focused = None
\* Every key that changes a field's text reaches the app as its on_input.
EditsAreHeard == unheard = {}

\* Keys are held for whoever is on top, which believes exactly them, and what is
\* typed is heard.  A capture leaves no frame to reach an owner or a field by
\* until the next one, and loses the cancel that comes meanwhile.
KeysAreTrue ==
  /\ ~Captures => KeysAgree
  /\ (Captures => hits # Blank) => HeldForTheTop
  /\ hits # Blank \/ fields = {} => EditsAreHeard

(* Steps *)

\* An element hears that the pointer entered it once until it hears that it
\* left (or is gone from the view): hover.rs's enter, move, leave.
Reenters == \E e \in over : <<e, "enter">> \in heard' /\ e \in DOMAIN hits'
EnterOnce == [][~Reenters]_vars

\* A frame of a view that is already on the screen tells no one anything and
\* asks for no other frame: an app that stands still stops painting.
StillIsQuiet == [][Frame /\ hits = view => heard' = {} /\ ~asked']_vars

\* A handle that was told its drag started is told moves and one end of that
\* drag; it is never left dragging by a release inside the window while it
\* is on the screen.
EndsWithTheButton ==
  [][Release /\ pointer # None /\ drag.kind = "app" /\ drag.id \in Visible(hits, Handles)
       => \A h \in Handles : dragging'[h] = "started" => h # drag.id]_vars

\* An autofocus input takes the focus when it appears in the app's view, and
\* does not take it again while it stays there.
Refocuses == button' = button /\ focused' # focused /\ focused' \in fields
AutofocusOnce == [][~Refocuses]_vars

\* One enter until a leave and an autofocus once, but for what a capture makes the
\* runner forget; silence while nothing moves, and an end with the button.
GestureSteps ==
  /\ [][Reenters => Captures]_vars /\ [][Refocuses => Captures /\ hits = Blank]_vars
  /\ StillIsQuiet /\ EndsWithTheButton

(* What the documentation says and the code does not keep *)

\* lua-apps.md: a gesture accumulates during start and move and commits at
\* the end: once the button is up no handle is left in a drag.
EveryStartEnds == ~button => \A h \in Handles : dragging[h] = "no"

\* lua-apps.md: "A press that travels past 5pt is a drag and fires no click."
TravelledIsNoClick ==
  [][travelled => \A e \in Elements : <<e, "click">> \notin heard']_vars
=============================================================================
