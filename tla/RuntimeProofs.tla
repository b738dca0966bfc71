--------------------------- MODULE RuntimeProofs ----------------------------
(***************************************************************************)
(* What holds of the runtime and the worlds it shows, for any elements,    *)
(* layouts, sources and bounds.  Gestures: what elements were told follows *)
(* the pointer and the keys; with captures, as far as those leave it.      *)
(* World3D: worlds are of their source and their time is viewed.  Scroll:  *)
(* a wheel is spent once and from the inside out.                          *)
(***************************************************************************)
EXTENDS Gestures, Integers, Sequences, SequenceTheorems, FiniteSetTheorems, NaturalsInduction,
        WellFoundedInduction, TLAPS

-----------------------------------------------------------------------------
(* Lemmas on data *)

\* Nat is well-ordered.
LEMMA LeastNumber ==
  ASSUME NEW S \in SUBSET Nat, S # {}
  PROVE  \E x \in S : \A y \in S : x <= y
<1> DEFINE R == OpToRel(<, Nat)
<1>1. IsWellFoundedOn(R, Nat)
  BY NatLessThanWellFounded
<1> HIDE DEF R
<1>2. PICK x \in S : \A y \in S : ~ (<<y, x>> \in R)
  BY <1>1, WFMin
<1>3. \A y \in Nat : y < x => <<y, x>> \in R
  BY DEF R, OpToRel
<1>4. ASSUME NEW y \in S PROVE x <= y
  <2>1. x \in Nat /\ y \in Nat
    OBVIOUS
  <2>2. ~ (y < x)
    BY <1>2, <1>3, <2>1
  <2> QED BY <2>1, <2>2
<1> QED BY <1>4

\* A set of numbers up to n has a greatest one.
LEMMA GreatestNumber ==
  ASSUME NEW n \in Nat, NEW S \in SUBSET (1..n), S # {}
  PROVE  \E x \in S : \A y \in S : x >= y
<1> DEFINE Above == {u \in Nat : \A y \in S : y <= u}
<1>1. Above \in SUBSET Nat /\ n \in Above
  OBVIOUS
<1>2. PICK u \in Above : \A v \in Above : u <= v
  BY <1>1, LeastNumber
<1>3. u \in Nat /\ \A y \in S : y \in Nat /\ 1 <= y /\ y <= u
  BY <1>2
<1>4. u \in S
  <2> SUFFICES ASSUME u \notin S PROVE FALSE
    OBVIOUS
  <2>0. PICK y \in S : y \in Nat /\ 1 <= y /\ y <= u
    BY <1>3
  <2>1. u >= 1 /\ u - 1 \in Nat
    BY <1>3, <2>0
  <2>2. \A z \in S : z <= u - 1
    <3>1. SUFFICES ASSUME NEW z \in S PROVE z <= u - 1
      OBVIOUS
    <3>2. z \in Nat /\ z <= u /\ z # u
      BY <1>3
    <3> QED BY <1>3, <3>2
  <2>3. u - 1 \in Above
    BY <2>1, <2>2
  <2> QED BY <1>2, <1>3, <2>3
<1> QED BY <1>3, <1>4

\* The last painted of some elements is one of them.
LEMMA TopmostIs ==
  ASSUME NEW S \in SUBSET Elements, S # {}
  PROVE  Topmost(S) \in S
<1> DEFINE I == {i \in 1..Len(Paint) : Paint[i] \in S}
<1>1. Paint \in Seq(Elements) /\ Range(Paint) = Elements
  BY GesturesAssumption
<1>2. Len(Paint) \in Nat /\ DOMAIN Paint = 1..Len(Paint)
  BY <1>1
<1>3. I \in SUBSET (1..Len(Paint)) /\ I # {}
  BY <1>1, <1>2 DEF Range
<1>4. \E x \in I : \A y \in I : x >= y
  BY <1>2, <1>3, GreatestNumber
<1>5. Max(I) \in I
  <2> HIDE DEF I
  <2> QED BY <1>4 DEF Max
<1>6. Topmost(S) = Paint[Max(I)]
  BY <1>3 DEF Topmost, SelectLastInSeq
<1> QED BY <1>5, <1>6

LEMMA NoneIsNoElement == None \notin Elements /\ None \notin Spots /\ Topmost({}) = None
  BY GesturesAssumption DEF Topmost

\* What a point hits, of one kind
LEMMA TopIs ==
  ASSUME NEW l, NEW K \in SUBSET Elements, NEW p
  PROVE  /\ Top(l, K, p) \in K \cup {None}
         /\ Top(l, K, p) # None => Top(l, K, p) \in DOMAIN l
         /\ KeyOwner(l) \in Keyed \cup {None}
         /\ KeyOwner(Blank) = None
<1>1. At(l, K, p) \subseteq K \cap DOMAIN l /\ Visible(l, Keyed) \subseteq Keyed
  BY DEF At, Visible
<1>2. At(l, K, p) \in SUBSET Elements /\ Visible(l, Keyed) \in SUBSET Elements
  BY <1>1 DEF Elements
<1>3. Visible(Blank, Keyed) = {}
  BY DEF Visible, Blank
<1>4. Top(l, K, p) \in At(l, K, p) \cup {None}
  BY <1>2, TopmostIs, NoneIsNoElement DEF Top
<1>5. KeyOwner(l) \in Visible(l, Keyed) \cup {None}
  BY <1>2, TopmostIs, NoneIsNoElement DEF KeyOwner
<1> QED BY <1>1, <1>3, <1>4, <1>5, NoneIsNoElement DEF KeyOwner

-----------------------------------------------------------------------------
(* Gestures: the invariant, in four parts *)

\* A press that is still open came to nothing yet: what it holds is let go of
\* before it becomes a drag or a pan, and with the button.
Pressing ==
  /\ gesture \in {{}, {"drag"}, {"pan"}, {"click"}}
  /\ ~button => drag.kind = "none" /\ pressed = None
  /\ pressed # None \/ drag.kind = "pending" => gesture = {}
  /\ drag.kind = "zoom" /\ drag.click => gesture = {}
  /\ drag.kind = "zoom" /\ ~drag.click => gesture \subseteq {"pan"} /\ pressed = None

\* The fields are the last frame's, and the focus is on one of them.
Fields ==
  /\ hits # Blank => fields = Inputs \cap DOMAIN hits
  /\ ~Captures /\ hits = Blank => fields = {}
  /\ FocusHasField /\ (hits # Blank \/ fields = {} => EditsAreHeard)

\* Whoever has keys held for it is known, on top, and believes them.
HeldKeys ==
  /\ held # {} => owner # None
  /\ ~Captures => KeysAgree
  /\ (Captures => hits # Blank) => HeldForTheTop

\* The runner's sample is of the pointer as it is, and what it counts as inside
\* are the elements that were told so.
Hovering ==
  /\ pointer # None => hovered.sample = <<pointer, button>>
  /\ pointer # None /\ hits # Blank => hovered.inside = At(hits, Hovers, pointer)
  /\ ~Captures => /\ over = hovered.inside
                  /\ over = IF pointer = None THEN {} ELSE At(hits, Hovers, pointer)

GesturesInv == TypeOK /\ StaleIsAsked /\ Pressing /\ Fields /\ HeldKeys /\ Hovering

-----------------------------------------------------------------------------
LEMMA InitGestures == Init => GesturesInv
<1> SUFFICES ASSUME Init PROVE GesturesInv
  OBVIOUS
<1>1. TypeOK /\ StaleIsAsked
  BY DEF Init, TypeOK, StaleIsAsked, Idle
<1>2. DOMAIN Blank = {}
  BY DEF Blank
<1>3. Pressing /\ Fields /\ HeldKeys /\ Hovering
  BY <1>2 DEF Init, Pressing, Fields, HeldKeys, Hovering, Idle, FocusHasField, EditsAreHeard,
              KeysAgree, HeldForTheTop
<1> QED BY <1>1, <1>3 DEF GesturesInv

\* Whatever is told, the app and the elements keep their types, and what was told
\* something is asked about.
LEMMA TellIs ==
  ASSUME TypeOK, NEW msgs, NEW K \in SUBSET Hovers, Tell(msgs, K)
  PROVE  /\ view' \in Layouts /\ (msgs = {} => view' = view) /\ heard' = msgs
         /\ over' \subseteq Hovers /\ dragging' \in [Handles -> {"no", "started"}]
BY DEF Tell, TypeOK

LEMMA CancelKeysTypes ==
  ASSUME TypeOK, NEW when \in BOOLEAN, CancelKeys(when)
  PROVE  /\ held' \subseteq Keys /\ owner' \in Keyed \cup {None}
         /\ keysOn' \in [Keyed -> SUBSET Keys]
BY DEF CancelKeys, TypeOK

LEMMA LayoutsAre ==
  /\ \A l \in Layouts : DOMAIN l \subseteq Elements
  /\ DOMAIN Blank = {} /\ (\A K, p : At(Blank, K, p) = {} /\ Visible(Blank, K) = {})
BY GesturesAssumption DEF Blank, At, Visible

\* Who takes the focus of a frame is an input of it.
LEMMA FocusAfterIs ==
  ASSUME TypeOK, NEW l \in Layouts
  PROVE  /\ FocusAfter(l) \in Inputs \cup {None}
         /\ FocusAfter(l) # None => FocusAfter(l) \in Inputs \cap DOMAIN l
         /\ FocusAfter(l) \in {None, focused} \/ FocusAfter(l) \notin DOMAIN hits
<1>1. Takers(l) \in SUBSET Elements /\ Takers(l) \subseteq Inputs
  BY GesturesAssumption DEF Takers, Elements
<1>2. Takers(l) # {} => Topmost(Takers(l)) \in Takers(l)
  BY <1>1, TopmostIs
<1> QED BY <1>1, <1>2 DEF FocusAfter, TypeOK, Takers

LEMMA CollectTypes ==
  ASSUME TypeOK, NEW l \in Layouts, Collect(l)
  PROVE  /\ focused' \in Inputs \cup {None} /\ held' \subseteq Keys /\ owner' \in Keyed \cup {None}
         /\ keysOn' \in [Keyed -> SUBSET Keys] /\ unheard' = {}
         /\ UNCHANGED <<pointer, button, drag, pressed, gesture, travelled>>
BY FocusAfterIs DEF Collect, TypeOK

-----------------------------------------------------------------------------
\* Every step keeps the types.
LEMMA GesturesTypes == ASSUME TypeOK, [Next]_vars PROVE TypeOK'
<1> USE DEF TypeOK
<1>0. Hovers \in SUBSET Hovers /\ \A l, p : At(l, Hovers, p) \subseteq Hovers
  BY DEF At, Visible
<1>h. ASSUME NEW l, NEW p, NEW in, NEW down, Hover(l, p, in, down) PROVE hovered'.inside \subseteq Hovers
  BY <1>0, <1>h DEF Hover, Phases
<1>1. CASE Deliver
  BY <1>1 DEF Deliver
<1>2. CASE Leave
  BY <1>0, <1>2, <1>h, TellIs DEF Leave
<1>3. CASE Press
  <2> DEFINE input == Top(hits, Inputs, pointer)
  <2>1. \A p : Top(hits, Inputs, p) \in Inputs \cup {None}
    BY TopIs DEF Elements
  <2>2. \A p : Captured(p).kind \in {"none", "pending", "text", "thumb", "zoom"}
    BY DEF Captured, Idle
  <2>3. CASE pointer = None
    BY <1>0, <1>3, <2>3, TellIs DEF Press
  <2>4. CASE pointer # None
    <3>1. /\ drag' = Captured(pointer) /\ focused' \in {focused, Top(hits, Inputs, pointer)}
          /\ \E w \in BOOLEAN : CancelKeys(w)
          /\ Hover(hits, pointer, TRUE, TRUE) /\ (\E m : Tell(m, Hovers)) /\ asked' = TRUE
          /\ button' = TRUE /\ travelled' = FALSE /\ UNCHANGED <<hits, pointer, unheard>>
      BY <1>3, <2>4 DEF Press
    <3>2. /\ held' \subseteq Keys /\ owner' \in Keyed \cup {None}
          /\ keysOn' \in [Keyed -> SUBSET Keys]
      BY <3>1, CancelKeysTypes
    <3>3. view' \in Layouts /\ over' \subseteq Hovers /\ dragging' \in [Handles -> {"no", "started"}]
      BY <1>0, <3>1, TellIs
    <3> QED BY <1>h, <2>1, <2>2, <3>1, <3>2, <3>3
  <2> QED BY <2>3, <2>4
<1>4. CASE Release
  BY <1>0, <1>4, <1>h, TellIs DEF Release, Idle
<1>5. CASE Blur
  BY <1>0, <1>5, TellIs, CancelKeysTypes DEF Blur
<1>6. CASE Type
  BY <1>0, <1>6, TellIs DEF Type
<1>7. CASE Frame
  <2>1. /\ Collect(view) /\ hits' = view /\ asked' \in BOOLEAN
        /\ \E m : Tell(m, Visible(view, Hovers))
        /\ hovered' = hovered \/ Hover(view, pointer, TRUE, button)
    BY <1>7 DEF Frame
  <2>2. /\ focused' \in Inputs \cup {None} /\ held' \subseteq Keys /\ owner' \in Keyed \cup {None}
        /\ keysOn' \in [Keyed -> SUBSET Keys] /\ unheard' = {}
        /\ UNCHANGED <<pointer, button, drag, travelled>>
    BY <2>1, CollectTypes
  <2>3. Visible(view, Hovers) \in SUBSET Hovers
    BY DEF Visible
  <2>4. view' \in Layouts /\ over' \subseteq Hovers /\ dragging' \in [Handles -> {"no", "started"}]
    BY <2>1, <2>3, TellIs
  <2> QED BY <1>h, <2>1, <2>2, <2>4
<1>8. ASSUME NEW p \in Spots, Move(p) PROVE TypeOK'
  BY <1>0, <1>8, <1>h, TellIs DEF Move, DragAfter
<1>9. ASSUME NEW k \in Keys, KeyDown(k) PROVE TypeOK'
  <2>1. /\ UNCHANGED <<hits, pointer, button, drag, focused, hovered, travelled, unheard>>
        /\ \E m : Tell(m, Hovers)
        /\ asked' \in BOOLEAN
        /\ \/ CancelKeys(TRUE)
           \/ /\ KeyOwner(hits) \in Keyed /\ held' = held \cup {k} /\ owner' = KeyOwner(hits)
              /\ keysOn' = [keysOn EXCEPT ![KeyOwner(hits)] = @ \cup {k}]
    BY <1>9, TopIs DEF KeyDown
  <2>2. /\ held' \subseteq Keys /\ owner' \in Keyed \cup {None}
        /\ keysOn' \in [Keyed -> SUBSET Keys]
    BY <2>1, CancelKeysTypes
  <2> QED BY <1>0, <2>1, <2>2, TellIs
<1>10. ASSUME NEW k \in Keys, KeyUp(k) PROVE TypeOK'
  BY <1>0, <1>10, TellIs, TopIs DEF KeyUp
<1>11. ASSUME NEW l \in Layouts, CaptureFrame(l) PROVE TypeOK'
  BY <1>11, CollectTypes DEF CaptureFrame
<1>12. CASE UNCHANGED vars
  BY <1>12 DEF vars, runner, told
<1> QED BY <1>1, <1>2, <1>3, <1>4, <1>5, <1>6, <1>7, <1>8, <1>9, <1>10, <1>11, <1>12 DEF Next

-----------------------------------------------------------------------------
\* What the phases of a hover, a cancel and the end of a drag can tell
LEMMA MsgsAre ==
  /\ \A l, p, in, down : \A m \in Phases(l, p, in, down).msgs :
       \E e : m \in {<<e, "enter">>, <<e, "move">>, <<e, "leave">>}
  /\ \A w : \A m \in CancelMsgs(w) : m[2] = "cancel"
  /\ \A l : \A m \in Dropped(l) : m[2] = "cancel"
  /\ \A m \in EndMsgs : m[2] \in {"release", "end"}
BY DEF Phases, CancelMsgs, Dropped, EndMsgs

\* No step but a drag's beginning says so.
LEMMA StartsAre ==
  ASSUME NEW p, NEW h, <<h, "start">> \in MoveMsgs(p) \cup Phases(hits, p, TRUE, button).msgs
  PROVE  Grabs(p)
<1>1. <<h, "start">> \notin Phases(hits, p, TRUE, button).msgs
  <2> SUFFICES ASSUME <<h, "start">> \in Phases(hits, p, TRUE, button).msgs PROVE FALSE
    OBVIOUS
  <2>1. PICK e : <<h, "start">> \in {<<e, "enter">>, <<e, "move">>, <<e, "leave">>}
    BY MsgsAre
  <2> QED BY <2>1
<1> QED BY <1>1 DEF MoveMsgs, DragMoves

\* A step after which the app has what it had, or a frame is asked for
LEMMA StaleStep == ASSUME TypeOK, StaleIsAsked, [Next]_vars PROVE StaleIsAsked'
<1> USE DEF StaleIsAsked
<1>0. \A m, K : Tell(m, K) => (heard' = m /\ (m = {} => view' = view))
  BY DEF Tell
<1>1. CASE Deliver \/ Leave \/ Release \/ Type
  BY <1>1 DEF Deliver, Leave, Release, Type
<1>2. CASE Press
  BY <1>0, <1>2 DEF Press
<1>3. CASE Blur
  BY <1>0, <1>3 DEF Blur, TypeOK
<1>4. CASE Frame
  BY <1>0, <1>4 DEF Frame
<1>5. ASSUME NEW p \in Spots, Move(p) PROVE StaleIsAsked'
  BY <1>5 DEF Move
<1>6. ASSUME NEW k \in Keys, KeyDown(k) PROVE StaleIsAsked'
  <2>1. hits' = hits /\ asked' = (asked \/ heard' # {}) /\ \E m : Tell(m, Hovers)
    BY <1>6 DEF KeyDown
  <2> QED BY <1>0, <2>1
<1>7. ASSUME NEW k \in Keys, KeyUp(k) PROVE StaleIsAsked'
  BY <1>0, <1>7 DEF KeyUp
<1>8. ASSUME NEW l \in Layouts, CaptureFrame(l) PROVE StaleIsAsked'
  BY <1>8 DEF CaptureFrame
<1>9. CASE UNCHANGED vars
  BY <1>9 DEF vars, runner
<1> QED BY <1>1, <1>2, <1>3, <1>4, <1>5, <1>6, <1>7, <1>8, <1>9 DEF Next

\* A press comes to one thing at most, in any step.
LEMMA PressingStep == ASSUME TypeOK, Pressing, [Next]_vars PROVE Pressing'
<1> USE DEF Pressing
<1>1. CASE Press
  <2>1. gesture' = {} /\ button' = TRUE /\ drag.kind = "none" /\ pressed = None
    BY <1>1 DEF Press, TypeOK
  <2>2. CASE pointer = None
    BY <1>1, <2>1, <2>2 DEF Press
  <2>3. CASE pointer # None
    <3>1. /\ drag' = Captured(pointer)
          /\ Top(hits, Bars, pointer) # None \/ Top(hits, Buttons, pointer) = None => pressed' = None
      BY <1>1, <2>1, <2>3 DEF Press
    <3>2. Captured(pointer).kind = "zoom" /\ ~Captured(pointer).click
            => Top(hits, Buttons, pointer) = None
      <4> DEFINE grip == Top(hits, Bars, pointer)      handle == Top(hits, Handles, pointer)
                 input == Top(hits, Inputs, pointer)   camera == Top(hits, Cameras, pointer)
                 btn == Top(hits, Buttons, pointer)
                 pan == [kind |-> "zoom", id |-> camera, click |-> btn # None, at |-> pointer]
      <4>1. Captured(pointer) = pan \/ Captured(pointer).kind \in {"thumb", "text", "pending", "none"}
        BY DEF Captured, Idle
      <4>2. pan.click = (btn # None)
        OBVIOUS
      <4> HIDE DEF pan
      <4> QED BY <4>1, <4>2
    <3> QED BY <2>1, <3>1, <3>2
  <2> QED BY <2>2, <2>3
<1>2. CASE Release
  BY <1>2 DEF Release, Clicks, Idle
<1>3. ASSUME NEW p \in Spots, Move(p) PROVE Pressing'
  <2> DEFINE starts == \E h \in Handles : <<h, "start">> \in heard'
  <2>1. /\ heard' = MoveMsgs(p) \cup Phases(hits, p, TRUE, button).msgs
        /\ drag' = DragAfter(p) /\ pressed' = PressedAfter(p) /\ button' = button
        /\ gesture' = gesture \cup (IF starts THEN {"drag"} ELSE {})
                              \cup (IF Pans(p) THEN {"pan"} ELSE {})
    BY <1>3 DEF Move, Tell
  <2>2. starts => Grabs(p)
    BY <2>1, StartsAre
  <2> HIDE DEF starts
  <2>3. CASE Grabs(p)
    <3>1. gesture = {} /\ ~Pans(p) /\ button /\ gesture' \in {{}, {"drag"}}
      BY <2>1, <2>3 DEF Grabs, Pans, TypeOK
    <3> QED BY <2>1, <2>3, <3>1 DEF DragAfter, PressedAfter
  <2>4. CASE ~Grabs(p) /\ Pans(p)
    <3>0. gesture \subseteq {"pan"} /\ button
      BY <2>4 DEF Pans
    <3>1. gesture' = {"pan"}
      BY <2>1, <2>2, <2>4, <3>0
    <3>2. drag' = [kind |-> "zoom", id |-> drag.id, click |-> FALSE, at |-> p] /\ pressed' = None
      BY <2>1, <2>4 DEF DragAfter, PressedAfter, Pans
    <3> QED BY <2>1, <3>0, <3>1, <3>2
  <2>5. CASE ~Grabs(p) /\ ~Pans(p)
    <3>1. gesture' = gesture /\ drag' = drag /\ pressed' = pressed
      BY <2>1, <2>2, <2>5 DEF DragAfter, PressedAfter
    <3> QED BY <2>1, <3>1
  <2> QED BY <2>3, <2>4, <2>5
<1>4. CASE Deliver \/ Leave \/ Blur \/ Type \/ Frame \/ (\E k \in Keys : KeyDown(k) \/ KeyUp(k))
           \/ (\E l \in Layouts : CaptureFrame(l)) \/ UNCHANGED vars
  <2>1. UNCHANGED <<gesture, button, drag, pressed>>
    BY <1>4 DEF Deliver, Leave, Blur, Type, Frame, Collect, KeyDown, KeyUp, CaptureFrame, vars,
                runner, told
  <2> QED BY <2>1
<1> QED BY <1>1, <1>2, <1>3, <1>4 DEF Next

\* The focus stays on a field that is laid out, and its edits are heard, in any step.
LEMMA FieldsStep == ASSUME TypeOK, Fields, [Next]_vars PROVE Fields'
<1> USE DEF Fields, FocusHasField, EditsAreHeard
<1>1. CASE Press
  <2>1. \A p : Top(hits, Inputs, p) \in (Inputs \cap DOMAIN hits) \cup {None}
    BY TopIs DEF Elements
  <2>2. /\ focused' \in {focused, Top(hits, Inputs, pointer)}
        /\ UNCHANGED <<hits, unheard, fields>>
    BY <1>1 DEF Press
  <2> QED BY <2>1, <2>2, LayoutsAre
<1>2. CASE Type
  <2>1. focused # None /\ UNCHANGED <<hits, focused, fields>>
        /\ unheard' = IF focused \in DOMAIN hits THEN unheard ELSE unheard \cup {focused}
    BY <1>2 DEF Type, Mapped
  <2> QED BY <2>1
<1>3. ASSUME NEW l \in Layouts, Collect(l), \/ hits' = l
                                            \/ Captures /\ hits' = Blank
      PROVE  Fields'
  <2>1. focused' = FocusAfter(l) /\ fields' = Inputs \cap DOMAIN l /\ unheard' = {}
    BY <1>3 DEF Collect
  <2> QED BY <1>3, <2>1, FocusAfterIs, LayoutsAre
<1>4. CASE Frame
  BY <1>3, <1>4 DEF Frame, TypeOK
<1>5. ASSUME NEW l \in Layouts, CaptureFrame(l) PROVE Fields'
  BY <1>3, <1>5 DEF CaptureFrame
<1>6. CASE Deliver \/ Leave \/ Release \/ Blur \/ (\E p \in Spots : Move(p))
           \/ (\E k \in Keys : KeyDown(k) \/ KeyUp(k)) \/ UNCHANGED vars
  <2>1. UNCHANGED <<hits, focused, unheard, fields>>
    BY <1>6 DEF Deliver, Leave, Release, Blur, Move, KeyDown, KeyUp, vars, runner, told
  <2> QED BY <2>1
<1> QED BY <1>1, <1>2, <1>4, <1>5, <1>6 DEF Next

\* Keys go with the focus and the owner, in any step.
LEMMA CancelKeysKeeps ==
  ASSUME TypeOK, HeldKeys, NEW when \in BOOLEAN, CancelKeys(when)
  PROVE  /\ when => held' = {}
         /\ held' # {} => held' = held /\ owner' = owner
         /\ held' # {} => owner' # None
         /\ ~Captures => \A e \in Keyed : keysOn'[e] = IF e = owner' THEN held' ELSE {}
<1> USE DEF HeldKeys, KeysAgree, HeldForTheTop
<1>1. CASE ~(when /\ held # {})
  BY <1>1 DEF CancelKeys
<1>2. CASE when /\ held # {}
  <2>1. /\ held' = {} /\ owner' = None
        /\ keysOn' = IF Cancels THEN [keysOn EXCEPT ![owner] = {}] ELSE keysOn
    BY <1>2 DEF CancelKeys
  <2>2. ~Captures => Cancels
    BY <1>2 DEF Cancels
  <2> QED BY <2>1, <2>2 DEF TypeOK
<1> QED BY <1>1, <1>2

LEMMA HeldKeysStep == ASSUME TypeOK, HeldKeys, [Next]_vars PROVE HeldKeys'
<1> USE DEF HeldKeys, KeysAgree, HeldForTheTop
<1>1. CASE Press
  <2>1. \E w \in BOOLEAN : CancelKeys(w) /\ hits' = hits /\ (focused' # None => w \/ focused' = focused)
    <3>1. CASE pointer = None
      BY <1>1, <3>1 DEF Press, CancelKeys
    <3>2. CASE pointer # None
      BY <1>1, <3>2 DEF Press
    <3> QED BY <3>1, <3>2
  <2>2. PICK w \in BOOLEAN : /\ CancelKeys(w) /\ hits' = hits
                             /\ focused' # None => w \/ focused' = focused
    BY <2>1
  <2> QED BY <2>2, CancelKeysKeeps
<1>2. CASE Blur
  BY <1>2, CancelKeysKeeps DEF Blur
<1>3. ASSUME NEW k \in Keys, KeyDown(k) PROVE HeldKeys'
  <2>1. focused = None /\ UNCHANGED <<hits, focused>>
    BY <1>3 DEF KeyDown
  <2>2. CASE CancelKeys(TRUE)
    BY <2>1, <2>2, CancelKeysKeeps
  <2>3. CASE ~CancelKeys(TRUE)
    <3> DEFINE e == KeyOwner(hits)
    <3>1. /\ e # None /\ held' = held \cup {k} /\ owner' = e
          /\ keysOn' = [keysOn EXCEPT ![e] = @ \cup {k}]
      BY <1>3, <2>3 DEF KeyDown
    <3>2. e \in Keyed /\ e # None
      BY <3>1, TopIs
    <3> HIDE DEF e
    <3>3. ~Captures => \A o \in Keyed : keysOn'[o] = IF o = owner' THEN held' ELSE {}
      BY <3>1, <3>2 DEF TypeOK, e
    <3> QED BY <2>1, <3>1, <3>2, <3>3 DEF e
  <2> QED BY <2>2, <2>3
<1>4. ASSUME NEW k \in Keys, KeyUp(k) PROVE HeldKeys'
  <2> DEFINE e == KeyOwner(hits)
  <2>1. focused = None /\ k \in held /\ UNCHANGED <<hits, focused>>
    BY <1>4 DEF KeyUp
  <2>2. CASE e = None
    BY <1>4, <2>1, <2>2 DEF KeyUp
  <2>3. CASE e # None
    <3>1. /\ held' = held \ {k} /\ owner' = IF held' = {} THEN None ELSE owner
          /\ keysOn' = [keysOn EXCEPT ![e] = @ \ {k}]
      BY <1>4, <2>3 DEF KeyUp
    <3>2. e \in Keyed /\ e # None
      BY <2>3, TopIs
    <3>3. ~Captures => owner = e
      BY <2>1
    <3> HIDE DEF e
    <3>4. ~Captures => \A o \in Keyed : keysOn'[o] = IF o = owner' THEN held' ELSE {}
      BY <3>1, <3>2, <3>3 DEF TypeOK
    <3> QED BY <2>1, <3>1, <3>2, <3>4 DEF e
  <2> QED BY <2>2, <2>3
<1>5. ASSUME NEW l \in Layouts, Collect(l), hits' = l \/ (Captures /\ hits' = Blank)
      PROVE  HeldKeys'
  <2>1. CASE LosesKeys(l)
    <3>1. /\ held' = {} /\ held # {}
          /\ keysOn' = IF Dropped(l) # {} THEN [keysOn EXCEPT ![owner] = {}] ELSE keysOn
          /\ owner' = None
      BY <1>5, <2>1 DEF Collect, LosesKeys
    <3>2. ~Captures => Dropped(l) # {}
      BY <2>1, <3>1 DEF Dropped
    <3> QED BY <3>1, <3>2 DEF TypeOK
  <2>2. CASE ~LosesKeys(l)
    <3>1. UNCHANGED <<held, owner, keysOn>> /\ focused' = FocusAfter(l)
      BY <1>5, <2>2 DEF Collect
    <3>2. held # {} => FocusAfter(l) = None /\ KeyOwner(l) = owner
      BY <2>2 DEF LosesKeys
    <3> QED BY <1>5, <3>1, <3>2
  <2> QED BY <2>1, <2>2
<1>6. CASE Frame
  BY <1>5, <1>6 DEF Frame, TypeOK
<1>7. ASSUME NEW l \in Layouts, CaptureFrame(l) PROVE HeldKeys'
  BY <1>5, <1>7 DEF CaptureFrame
<1>8. CASE Deliver \/ Leave \/ Release \/ Type \/ (\E p \in Spots : Move(p)) \/ UNCHANGED vars
  <2>1. UNCHANGED <<hits, focused, held, owner, keysOn>>
    BY <1>8 DEF Deliver, Leave, Release, Type, Move, vars, runner, told
  <2> QED BY <2>1
<1> QED BY <1>1, <1>2, <1>3, <1>4, <1>6, <1>7, <1>8 DEF Next

-----------------------------------------------------------------------------
\* What a hover over the last frame, or a new one, leaves the elements believing
LEMMA HoverTells ==
  ASSUME TypeOK, NEW l, NEW p, NEW in \in BOOLEAN, NEW down, NEW others, NEW K \in SUBSET Hovers,
         \A m \in others : m[2] \notin {"enter", "leave"},
         Hover(l, p, in, down), Tell(others \cup Phases(l, p, in, down).msgs, K),
         over = hovered.inside, over \cap K \subseteq Visible(l, Hovers), At(l, Hovers, p) \subseteq K
  PROVE  over' = IF in THEN At(l, Hovers, p) ELSE {}
<1> DEFINE now == IF in THEN At(l, Hovers, p) ELSE {}
           msgs == others \cup Phases(l, p, in, down).msgs
<1>1. \A e : <<e, "enter">> \in msgs <=> e \in now \ hovered.inside
  <2> TAKE e
  <2>1. <<e, "enter">> \notin others
    BY Zenon
  <2> QED BY <2>1 DEF Phases
<1>2. \A e : <<e, "leave">> \in msgs <=> e \in (Visible(l, Hovers) \ now) \cap hovered.inside
  <2> TAKE e
  <2>1. <<e, "leave">> \notin others
    OBVIOUS
  <2> QED BY <2>1 DEF Phases
<1>3. now \subseteq Hovers /\ now \subseteq K
  BY DEF At, Visible
<1>4. over' = ((over \cup {e \in Hovers : <<e, "enter">> \in msgs})
                 \ {e \in Hovers : <<e, "leave">> \in msgs}) \cap K
  BY DEF Tell
<1> HIDE DEF now, msgs
<1>5. over' = now
  BY <1>1, <1>2, <1>3, <1>4 DEF TypeOK
<1> QED BY <1>5 DEF now

\* Whoever is told nothing of the pointer believes what it did.
LEMMA OthersTell ==
  ASSUME TypeOK, NEW others, NEW K \in SUBSET Hovers, \A m \in others : m[2] \notin {"enter", "leave"},
         Tell(others, K)
  PROVE  over' = over \cap K
<1>1. \A e : <<e, "enter">> \notin others /\ <<e, "leave">> \notin others
  <2> TAKE e
  <2> QED BY <<e, "enter">>[2] = "enter", <<e, "leave">>[2] = "leave"
<1> QED BY <1>1 DEF Tell

LEMMA HoverIs ==
  ASSUME NEW l, NEW p, NEW in \in BOOLEAN, NEW down, Hover(l, p, in, down)
  PROVE  hovered'.sample = <<p, down>> /\ hovered'.inside = IF in THEN At(l, Hovers, p) ELSE {}
BY DEF Hover, Phases

\* What elements believe of the pointer follows it, in any step.
LEMMA HoveringStep == ASSUME TypeOK, Hovering, [Next]_vars PROVE Hovering'
<1> USE DEF Hovering
<1>0. /\ Hovers \in SUBSET Hovers /\ Visible(view, Hovers) \in SUBSET Hovers
      /\ \A l, p : At(l, Hovers, p) \subseteq Hovers /\ At(l, Hovers, p) \subseteq Visible(l, Hovers)
  BY DEF At, Visible
<1>1. ~Captures => over \subseteq Visible(hits, Hovers) /\ over = hovered.inside
  BY <1>0
<1>3. ASSUME NEW p, NEW in \in BOOLEAN, NEW down, NEW others, in => p # None,
             \A m \in others : m[2] \notin {"enter", "leave"}, Hover(hits, p, in, down),
             Tell(others \cup Phases(hits, p, in, down).msgs, Hovers),
             hits' = hits, button' = down, pointer' = IF in THEN p ELSE None
      PROVE  Hovering'
  <2>1. ~Captures => over' = IF in THEN At(hits, Hovers, p) ELSE {}
    BY <1>0, <1>1, <1>3, HoverTells
  <2>2. hovered'.sample = <<p, down>> /\ hovered'.inside = IF in THEN At(hits, Hovers, p) ELSE {}
    BY <1>3, HoverIs
  <2>3. CASE in
    <3>1. pointer' = p /\ button' = down /\ hits' = hits /\ p # None
      BY <1>3, <2>3
    <3>2. At(hits', Hovers, pointer') = At(hits, Hovers, p)
      BY <3>1
    <3> QED BY <2>1, <2>2, <2>3, <3>1, <3>2
  <2>4. CASE ~in
    BY <1>3, <2>1, <2>2, <2>4
  <2> QED BY <2>3, <2>4
<1>4. ASSUME NEW others, \A m \in others : m[2] \notin {"enter", "leave"}, Tell(others, Hovers),
             UNCHANGED <<hits, pointer, hovered>>, button' = button \/ pointer = None
      PROVE  Hovering'
  <2>1. over' = over \cap Hovers
    BY <1>0, <1>4, OthersTell
  <2>2. over' = over
    BY <2>1 DEF TypeOK
  <2> QED BY <1>4, <2>2
<1>5. CASE Deliver
  BY <1>5 DEF Deliver
<1>6. CASE Leave
  <2> DEFINE none == {}
  <2>1. none \cup Phases(hits, pointer, FALSE, button).msgs = Phases(hits, pointer, FALSE, button).msgs
    OBVIOUS
  <2>2. /\ Hover(hits, pointer, FALSE, button)
        /\ Tell(none \cup Phases(hits, pointer, FALSE, button).msgs, Hovers)
        /\ hits' = hits /\ button' = button /\ pointer' = None
    BY <1>6, <2>1 DEF Leave
  <2>3. \A m \in none : m[2] \notin {"enter", "leave"}
    OBVIOUS
  <2> HIDE DEF none
  <2> QED BY <1>3, <2>2, <2>3
<1>7. CASE Press
  <2>1. CASE pointer = None
    BY <1>4, <1>7, <2>1 DEF Press
  <2>2. CASE pointer # None
    <3>1. \E w : /\ Hover(hits, pointer, TRUE, TRUE) /\ hits' = hits /\ button' = TRUE
                 /\ Tell(CancelMsgs(w) \cup Phases(hits, pointer, TRUE, TRUE).msgs, Hovers)
                 /\ pointer' = pointer
      BY <1>7, <2>2 DEF Press
    <3> QED BY <1>3, <2>2, <3>1, MsgsAre
  <2> QED BY <2>1, <2>2
<1>8. CASE Release
  <2> DEFINE clicked == IF Clicks THEN {<<pressed.id, "click">>} ELSE {}
  <2>1. \A m \in EndMsgs \cup clicked : m[2] \notin {"enter", "leave"}
    BY MsgsAre
  <2>2. CASE pointer = None
    <3>1. Tell(EndMsgs \cup clicked, Hovers) /\ UNCHANGED <<hits, pointer, hovered>>
      BY <1>8, <2>2 DEF Release
    <3> QED BY <1>4, <2>1, <2>2, <3>1
  <2>3. CASE pointer # None
    <3>1. /\ Hover(hits, pointer, TRUE, FALSE) /\ hits' = hits /\ button' = FALSE
          /\ Tell(EndMsgs \cup clicked \cup Phases(hits, pointer, TRUE, FALSE).msgs, Hovers)
          /\ pointer' = pointer
      BY <1>8, <2>3 DEF Release
    <3> QED BY <1>3, <2>1, <2>3, <3>1
  <2> QED BY <2>2, <2>3
<1>9. CASE Blur
  BY <1>4, <1>9, MsgsAre DEF Blur
<1>10. CASE Type
  <2>1. \E ms : (\A m \in ms : m[2] = "input") /\ Tell(ms, Hovers)
                /\ UNCHANGED <<hits, pointer, hovered, button>>
    BY <1>10 DEF Type
  <2> QED BY <1>4, <2>1
<1>11. CASE Frame
  <2>1. hits' = view /\ UNCHANGED <<pointer, button>>
    BY <1>11 DEF Frame, Collect
  <2>2. CASE pointer = None
    <3>1. hovered' = hovered /\ Tell(Dropped(view) \cup {}, Visible(view, Hovers))
      BY <1>11, <2>2 DEF Frame
    <3>2. over' = over \cap Visible(view, Hovers)
      BY <1>0, <3>1, OthersTell, MsgsAre
    <3> QED BY <2>1, <2>2, <3>1, <3>2
  <2>3. CASE pointer # None
    <3>1. /\ Hover(view, pointer, TRUE, button)
          /\ Tell(Dropped(view) \cup Phases(view, pointer, TRUE, button).msgs, Visible(view, Hovers))
      BY <1>11, <2>3 DEF Frame
    <3>2. \A m \in Dropped(view) : m[2] \notin {"enter", "leave"}
      BY MsgsAre
    <3>3. ~Captures => over' = At(view, Hovers, pointer)
      BY <1>0, <1>1, <3>1, <3>2, HoverTells
    <3>4. /\ hovered'.sample = <<pointer, button>>
          /\ hovered'.inside = At(view, Hovers, pointer)
      BY <3>1, HoverIs
    <3> QED BY <2>1, <2>3, <3>3, <3>4 DEF At, Visible
  <2> QED BY <2>2, <2>3
<1>12. ASSUME NEW p \in Spots, Move(p) PROVE Hovering'
  <2>1. /\ Hover(hits, p, TRUE, button) /\ hits' = hits /\ button' = button /\ pointer' = p
        /\ Tell(MoveMsgs(p) \cup Phases(hits, p, TRUE, button).msgs, Hovers)
    BY <1>12 DEF Move
  <2>2. \A m \in MoveMsgs(p) : m[2] \in {"start", "drag", "over"}
    BY DEF MoveMsgs, DragMoves
  <2> QED BY <1>3, <2>1, <2>2, NoneIsNoElement
<1>13. ASSUME NEW k \in Keys, KeyDown(k) \/ KeyUp(k) PROVE Hovering'
  <2>1. /\ UNCHANGED <<hits, pointer, hovered, button>>
        /\ \/ Tell({}, Hovers) \/ Tell(CancelMsgs(TRUE), Hovers)
           \/ \E e : Tell({<<e, "down">>}, Hovers) \/ Tell({<<e, "up">>}, Hovers)
    BY <1>13 DEF KeyDown, KeyUp
  <2>2. CASE Tell({}, Hovers) \/ Tell(CancelMsgs(TRUE), Hovers)
    <3>1. \A m \in {} : m[2] \notin {"enter", "leave"}
      OBVIOUS
    <3> QED BY <1>4, <2>1, <2>2, <3>1, MsgsAre
  <2>3. ASSUME NEW e, NEW what \in {"down", "up"}, Tell({<<e, what>>}, Hovers) PROVE Hovering'
    <3> DEFINE ms == {<<e, what>>}
    <3>1. \A m \in ms : m[2] \notin {"enter", "leave"}
      OBVIOUS
    <3>2. Tell(ms, Hovers)
      BY <2>3
    <3> HIDE DEF ms
    <3> QED BY <1>4, <2>1, <3>1, <3>2
  <2> QED BY <2>1, <2>2, <2>3
<1>14. ASSUME NEW l \in Layouts, CaptureFrame(l) PROVE Hovering'
  BY <1>14 DEF CaptureFrame, Collect
<1>15. CASE UNCHANGED vars
  BY <1>15 DEF vars, runner, told, At, Visible
<1> QED BY <1>5, <1>6, <1>7, <1>8, <1>9, <1>10, <1>11, <1>12, <1>13, <1>14, <1>15 DEF Next

LEMMA GesturesInvariant == Spec => []GesturesInv
<1>1. GesturesInv /\ [Next]_vars => GesturesInv'
  BY GesturesTypes, StaleStep, PressingStep, FieldsStep, HeldKeysStep, HoveringStep DEF GesturesInv
<1> QED BY <1>1, InitGestures, PTL DEF Spec

\* What the runner holds is of elements of its kind.
THEOREM GesturesTypeCorrect == Spec => []TypeOK
<1>1. GesturesInv => TypeOK
  BY DEF GesturesInv
<1> QED BY <1>1, GesturesInvariant, PTL

\* Whatever moves or vanishes between a frame and an event, the elements that were
\* told the pointer is over them are the ones it is inside of, a press is a drag, a
\* click or a pan, no change goes without a frame, and the focus is on a field
\* (Runner::on_cursor_moved, button, frame).
THEOREM PointerCorrect == Spec => []PointerIsTrue
<1>1. GesturesInv => PointerIsTrue
  <2> SUFFICES ASSUME GesturesInv PROVE PointerIsTrue
    OBVIOUS
  <2>1. ~Captures => OverIsWhereThePointerIs
    BY DEF GesturesInv, Hovering, OverIsWhereThePointerIs
  <2>2. OneOutcome
    <3>1. gesture \in {{}, {"drag"}, {"pan"}, {"click"}}
      BY DEF GesturesInv, Pressing
    <3>2. Cardinality({}) = 0
      BY FS_EmptySet
    <3>3. Cardinality({"drag"}) = 1 /\ Cardinality({"pan"}) = 1 /\ Cardinality({"click"}) = 1
      BY FS_Singleton
    <3>4. 0 <= 1 /\ 1 <= 1
      OBVIOUS
    <3> QED BY <3>1, <3>2, <3>3, <3>4 DEF OneOutcome
  <2>3. StaleIsAsked /\ FocusHasField
    BY DEF GesturesInv, Fields
  <2> QED BY <2>1, <2>2, <2>3 DEF PointerIsTrue
<1> QED BY <1>1, GesturesInvariant, PTL

\* Blur, text focus, another owner and too many keys reach whoever believes in a
\* held key, and what is typed into a field reaches the app (on_game_key,
\* cancel_keys, notify_app_text).
THEOREM KeysCorrect == Spec => []KeysAreTrue
<1>1. GesturesInv => KeysAreTrue
  BY DEF GesturesInv, HeldKeys, Fields, KeysAreTrue
<1> QED BY <1>1, GesturesInvariant, PTL

\* Without captures, what is typed is heard with no condition at all.
THEOREM TypedIsHeard == ASSUME ~Captures PROVE Spec => []EditsAreHeard
<1>1. GesturesInv => EditsAreHeard
  BY DEF GesturesInv, Fields
<1> QED BY <1>1, GesturesInvariant, PTL

-----------------------------------------------------------------------------
\* An element is entered that was not, or a capture came between.
LEMMA EntersOnce == ASSUME GesturesInv, Next PROVE Reenters => Captures
<1> SUFFICES ASSUME ~Captures, NEW e \in over, <<e, "enter">> \in heard' PROVE FALSE
  BY DEF Reenters
<1>1. over = hovered.inside
  BY DEF GesturesInv, Hovering
<1>2. \A l, p, in, down : <<e, "enter">> \notin Phases(l, p, in, down).msgs
  BY <1>1 DEF Phases
<1>3. /\ \A w : <<e, "enter">> \notin CancelMsgs(w)
      /\ \A l : <<e, "enter">> \notin Dropped(l)
      /\ <<e, "enter">> \notin EndMsgs /\ \A p : <<e, "enter">> \notin MoveMsgs(p)
  BY DEF CancelMsgs, Dropped, EndMsgs, MoveMsgs, DragMoves
<1>4. \A f, what : what # "enter" => <<e, "enter">> \notin {<<f, what>>}
  OBVIOUS
<1>5. CASE Deliver \/ Leave \/ Blur
  BY <1>2, <1>3, <1>5 DEF Deliver, Leave, Blur, Tell
<1>6. CASE Press
  <2>1. heard' = {} \/ \E w : heard' = CancelMsgs(w) \cup Phases(hits, pointer, TRUE, TRUE).msgs
    BY <1>6 DEF Press, Tell
  <2> QED BY <1>2, <1>3, <2>1
<1>7. CASE Release
  <2>1. \E c : /\ c \in {{}, {<<pressed.id, "click">>}}
               /\ heard' \in {EndMsgs \cup c, EndMsgs \cup c \cup Phases(hits, pointer, TRUE, FALSE).msgs}
    BY <1>7 DEF Release, Tell
  <2> QED BY <1>2, <1>3, <1>4, <2>1
<1>8. CASE Type
  BY <1>4, <1>8 DEF Type, Tell
<1>9. CASE Frame
  BY <1>2, <1>3, <1>9 DEF Frame, Tell
<1>10. ASSUME NEW p \in Spots, Move(p) PROVE FALSE
  BY <1>2, <1>3, <1>10 DEF Move, Tell
<1>11. ASSUME NEW k \in Keys, KeyDown(k) \/ KeyUp(k) PROVE FALSE
  <2>1. \/ heard' = {} \/ heard' = CancelMsgs(TRUE)
        \/ \E f : heard' = {<<f, "down">>} \/ heard' = {<<f, "up">>}
    BY <1>11 DEF KeyDown, KeyUp, Tell
  <2> QED BY <1>3, <1>4, <2>1
<1>12. ASSUME NEW l \in Layouts, CaptureFrame(l) PROVE FALSE
  BY <1>12 DEF CaptureFrame
<1> QED BY <1>5, <1>6, <1>7, <1>8, <1>9, <1>10, <1>11, <1>12 DEF Next

\* A field takes the focus of a frame that was not in the frame before.
LEMMA FocusesOnce == ASSUME GesturesInv, Next PROVE Refocuses => Captures /\ hits = Blank
<1> SUFFICES ASSUME Refocuses, hits # Blank \/ ~Captures PROVE FALSE
  OBVIOUS
<1> USE DEF Refocuses
<1>1. /\ TypeOK /\ focused' \in fields
      /\ fields = IF hits = Blank THEN {} ELSE Inputs \cap DOMAIN hits
  BY DEF GesturesInv, Fields
<1>2. \A l \in Layouts : ~Collect(l)
  BY <1>1, FocusAfterIs, NoneIsNoElement DEF Collect, Elements
<1>3. ~Frame /\ \A l \in Layouts : ~CaptureFrame(l)
  BY <1>1, <1>2 DEF Frame, CaptureFrame, TypeOK
<1>4. ~Press
  BY <1>1 DEF Press, TypeOK
<1>5. UNCHANGED focused
  BY <1>3, <1>4 DEF Next, Deliver, Leave, Release, Blur, Type, Move, KeyDown, KeyUp
<1> QED BY <1>5

\* The same frame again tells nothing.
LEMMA SameIsQuiet == ASSUME GesturesInv, Frame, hits = view PROVE heard' = {} /\ ~asked'
<1> USE DEF GesturesInv
<1>1. Dropped(view) = {}
  <2> SUFFICES ASSUME LosesKeys(view), owner # None, owner = KeyOwner(hits) PROVE FALSE
    BY DEF Dropped
  <2>1. hits # Blank
    BY TopIs, Elements \in SUBSET Elements
  <2>2. focused = None /\ held # {}
    BY <2>1 DEF HeldKeys, HeldForTheTop, LosesKeys
  <2>3. Takers(view) = {}
    BY DEF Takers
  <2>4. FocusAfter(view) = None
    BY <2>2, <2>3 DEF FocusAfter
  <2> QED BY <2>4 DEF LosesKeys
<1>2. pointer # None => Phases(view, pointer, TRUE, button).msgs = {}
  <2> SUFFICES ASSUME pointer # None PROVE Phases(view, pointer, TRUE, button).msgs = {}
    OBVIOUS
  <2>1. hovered.sample = <<pointer, button>>
    BY DEF Hovering
  <2>2. CASE hits = Blank
    <3>1. At(view, Hovers, pointer) = {} /\ Visible(view, Hovers) = {}
      BY <2>2, LayoutsAre
    <3> QED BY <2>1, <3>1 DEF Phases
  <2>3. CASE hits # Blank
    <3>1. hovered.inside = At(view, Hovers, pointer)
      BY <2>3 DEF Hovering
    <3> QED BY <2>1, <3>1 DEF Phases
  <2> QED BY <2>2, <2>3
<1> QED BY <1>1, <1>2 DEF Frame, Tell

\* A drag whose handle is on screen hears its end.
LEMMA DragIsEnded ==
  ASSUME TypeOK, Release, pointer # None, drag.kind = "app", drag.id \in Visible(hits, Handles),
         NEW h \in Handles, dragging'[h] = "started"
  PROVE  h # drag.id
<1> SUFFICES ASSUME h = drag.id PROVE FALSE
  OBVIOUS
<1> DEFINE clicked == IF Clicks THEN {<<pressed.id, "click">>} ELSE {}
           msgs == EndMsgs \cup clicked \cup Phases(hits, pointer, TRUE, FALSE).msgs
<1>1. Tell(msgs, Hovers)
  BY DEF Release
<1>2. drag.id \in Visible(hits, {drag.id})
  BY DEF Visible
<1>3. <<h, "end">> \in msgs
  BY <1>2 DEF EndMsgs
<1>4. <<h, "start">> \notin msgs
  BY DEF EndMsgs, Phases
<1> HIDE DEF msgs
<1> QED BY <1>1, <1>3, <1>4 DEF Tell

\* An element is told once that the pointer came in, a field takes the focus once,
\* what stands still is left alone, and a release ends the drag: in every step, but
\* for what a capture makes the runner forget (Hovered::step, Focus, frame,
\* on_cursor_release).
THEOREM GestureStepsCorrect == Spec => GestureSteps
<1> DEFINE Quiet == Frame /\ hits = view => heard' = {} /\ ~asked'
           Ended == Release /\ pointer # None /\ drag.kind = "app" /\ drag.id \in Visible(hits, Handles)
                      => \A h \in Handles : dragging'[h] = "started" => h # drag.id
<1>1. GesturesInv /\ [Next]_vars => [Reenters => Captures]_vars
  BY EntersOnce
<1>2. GesturesInv /\ [Next]_vars => [Refocuses => Captures /\ hits = Blank]_vars
  BY FocusesOnce
<1>3. GesturesInv /\ [Next]_vars => [Quiet]_vars
  BY SameIsQuiet
<1>4. GesturesInv /\ [Next]_vars => [Ended]_vars
  BY DragIsEnded DEF GesturesInv
<1>5. Spec => [][Reenters => Captures]_vars
  BY <1>1, GesturesInvariant, PTL DEF Spec
<1>6. Spec => [][Refocuses => Captures /\ hits = Blank]_vars
  BY <1>2, GesturesInvariant, PTL DEF Spec
<1>7. Spec => [][Quiet]_vars
  BY <1>3, GesturesInvariant, PTL DEF Spec
<1>8. Spec => [][Ended]_vars
  BY <1>4, GesturesInvariant, PTL DEF Spec
<1> QED BY <1>5, <1>6, <1>7, <1>8 DEF GestureSteps, StillIsQuiet, EndsWithTheButton

-----------------------------------------------------------------------------
(***************************************************************************)
(* World3D: the worlds are those of the source, whatever was reloaded and  *)
(* stepped; without captures none runs for longer than views resolved it.  *)
(***************************************************************************)
CONSTANTS Sources, MaxWorlds, MaxBodies, MaxSteps, MaxTime, Elsewhere
VARIABLES worlds, recipes, open, resolved, inFront, due, time, painted, viewed, visible
W == INSTANCE World3D WITH seen <- resolved, focused <- inFront, asked <- due, now <- time

\* Records of the model's fields: bodies and worlds
IsBody(x) == x = [shape |-> x.shape, dynamic |-> x.dynamic, position |-> x.position,
                  at |-> x.at, awake |-> x.awake]
AreBodies(bs) == bs = [b \in DOMAIN bs |-> bs[b]] /\ \A b \in DOMAIN bs : IsBody(bs[b])
IsWorld(w) ==
  /\ w = [bodies |-> w.bodies, last |-> w.last, running |-> w.running, carry |-> w.carry,
          dropped |-> w.dropped, tick |-> w.tick]
  /\ w.last \in Nat /\ w.running \in BOOLEAN /\ w.carry \in 0..1 /\ w.tick \in Nat
  /\ ~w.running => w.carry = 0
  /\ AreBodies(w.bodies)

\* A body is as its source says.
SameBody(x, spec) == x.shape = spec.shape /\ x.dynamic = spec.dynamic /\ x.position = spec.position
Authored(ws, rs) ==
  /\ DOMAIN ws = DOMAIN rs
  /\ \A id \in DOMAIN ws :
       /\ DOMAIN ws[id].bodies = DOMAIN rs[id]
       /\ \A b \in DOMAIN rs[id] : SameBody(ws[id].bodies[b], rs[id][b])

\* A world within its budget whose clock is not ahead
Sound(w) == IsWorld(w) /\ w.last <= time /\ W!Cardinality(DOMAIN w.bodies) <= MaxBodies

\* The time a world was simulated, or will be at its next step
Owed(w, counts) == 2 * w.tick + w.carry + (IF w.running /\ counts THEN time - w.last ELSE 0)

WorldsInv ==
  /\ time \in Nat /\ time <= MaxTime /\ {open, inFront, due} \subseteq BOOLEAN
  /\ inFront => open
  /\ worlds = [id \in DOMAIN worlds |-> worlds[id]] /\ W!Cardinality(DOMAIN worlds) <= MaxWorlds
  /\ \A id \in DOMAIN worlds : Sound(worlds[id])
  /\ Authored(worlds, recipes)

\* A world that runs and that its app's last view resolved was resolved by the last
\* frame's, and it owes no more than the time for which it was among those.
ShownInv ==
  /\ DOMAIN visible = DOMAIN worlds /\ \A id \in DOMAIN visible : visible[id] \in Nat
  /\ \A id \in DOMAIN worlds :
       /\ worlds[id].running /\ id \in resolved => id \in viewed
       /\ Owed(worlds[id], id \in resolved) <= visible[id]

-----------------------------------------------------------------------------
LEMMA Halves ==
  ASSUME NEW n \in Nat
  PROVE  \E q \in Nat, r \in 0..1 : q = n \div 2 /\ r = n % 2 /\ n = 2 * q + r
<1>1. n \div 2 \in Int /\ n \div 2 >= 0
  BY SMT
<1>2. n % 2 \in 0..1
  BY SMT
<1>3. n = 2 * (n \div 2) + (n % 2)
  BY SMT
<1> QED BY <1>1, <1>2, <1>3

\* A clock that is advanced is as far as now, never goes back, and makes of the
\* time since its last step no more than that was.
LEMMA PlanIs ==
  ASSUME W!World3DConstants, NEW w, IsWorld(w), NEW t \in Nat, w.last <= t, NEW running \in BOOLEAN,
         NEW p, p = W!Plan(w, t, running)
  PROVE  /\ IsWorld(p) /\ p.bodies = w.bodies /\ p.last = t /\ p.running = running
         /\ p.tick >= w.tick
         /\ 2 * p.tick + p.carry
              <= 2 * w.tick + w.carry + (IF w.running /\ running THEN t - w.last ELSE 0)
<1>0. w.tick \in Nat /\ w.carry \in 0..1 /\ w.last \in Nat /\ w.running \in BOOLEAN /\ AreBodies(w.bodies)
  BY DEF IsWorld
<1>1. CASE ~(running /\ w.running)
  <2>1. p = [bodies |-> w.bodies, last |-> t, running |-> running, carry |-> 0,
             dropped |-> w.dropped, tick |-> w.tick]
    BY <1>1 DEF IsWorld, W!Plan, W!Off
  <2>2. p.carry = 0 /\ p.tick = w.tick /\ p.last = t /\ p.running = running /\ p.bodies = w.bodies
    BY <2>1
  <2>3. IsWorld(p)
    BY <1>0, <2>1, <2>2 DEF IsWorld
  <2>4. 2 * p.tick + p.carry <= 2 * w.tick + w.carry
    BY <1>0, <2>2
  <2> QED BY <1>0, <1>1, <2>2, <2>3, <2>4
<1>2. CASE running /\ w.running
  <2> DEFINE available == w.carry + (t - w.last)
             window == W!Least(available, W!STEP * MaxSteps)
  <2>1. p = [bodies |-> w.bodies, last |-> t, running |-> w.running, carry |-> window % W!STEP,
             dropped |-> w.dropped + (available - window), tick |-> w.tick + window \div W!STEP]
    BY <1>2 DEF IsWorld, W!Plan
  <2>2. available \in Nat
    BY <1>0
  <2>3. window \in Nat /\ window <= available
    BY <2>2 DEF W!Least, W!STEP, W!World3DConstants
  <2>4. PICK n : n = window
    OBVIOUS
  <2>5. n \in Nat /\ n <= available
    BY <2>3, <2>4
  <2>8. PICK q \in Nat : \E s \in 0..1 : q = n \div 2 /\ s = n % 2 /\ n = 2 * q + s
    BY <2>5, Halves
  <2>7. PICK s \in 0..1 : q = n \div 2 /\ s = n % 2 /\ n = 2 * q + s
    BY <2>8
  <2>6. window % W!STEP = s /\ window \div W!STEP = q
    BY <2>4, <2>7 DEF W!STEP
  <2> HIDE DEF window
  <2>9. p.tick = w.tick + q /\ p.carry = s /\ p.last = t /\ p.bodies = w.bodies
    BY <2>1, <2>6
  <2>14. p.running = running
    <3>1. p.running = w.running
      BY <2>1
    <3> QED BY <1>0, <1>2, <3>1
  <2>10. p.tick \in Nat /\ p.tick >= w.tick /\ p.carry \in 0..1 /\ 2 * p.tick + p.carry = 2 * w.tick + n
    <3>1. w.tick \in Nat /\ q \in Nat /\ s \in 0..1 /\ n = 2 * q + s /\ p.tick = w.tick + q /\ p.carry = s
      BY <1>0, <2>7, <2>9
    <3>2. 2 * p.tick + p.carry = 2 * w.tick + n
      BY <3>1
    <3> QED BY <3>1, <3>2
  <2>11. p = [bodies |-> p.bodies, last |-> p.last, running |-> p.running, carry |-> p.carry,
              dropped |-> p.dropped, tick |-> p.tick]
    BY <2>1
  <2>12. IsWorld(p)
    BY <1>0, <1>2, <2>9, <2>10, <2>11, <2>14 DEF IsWorld
  <2>13. 2 * p.tick + p.carry <= 2 * w.tick + w.carry + (t - w.last)
    BY <1>0, <2>5, <2>10
  <2> QED BY <1>2, <2>9, <2>10, <2>12, <2>13, <2>14
<1> QED BY <1>1, <1>2

\* A world whose clock is suspended
LEMMA OffIs ==
  ASSUME NEW bs, NEW l, NEW r, NEW c, NEW d, NEW k, NEW w,
         w = [bodies |-> bs, last |-> l, running |-> r, carry |-> c, dropped |-> d, tick |-> k]
  PROVE  W!Off(w) = [bodies |-> bs, last |-> l, running |-> FALSE, carry |-> 0,
                     dropped |-> d, tick |-> k]
<1>1. PICK w1 : w1 = [w EXCEPT !.running = FALSE]
  OBVIOUS
<1>2. PICK no : no = FALSE
  OBVIOUS
<1>3. w1 = [bodies |-> bs, last |-> l, running |-> FALSE, carry |-> c, dropped |-> d, tick |-> k]
  BY <1>1
<1>4. w1 = [bodies |-> bs, last |-> l, running |-> no, carry |-> c, dropped |-> d, tick |-> k]
  BY <1>2, <1>3
<1>5. W!Off(w) = [w1 EXCEPT !.carry = 0]
  BY <1>1 DEF W!Off
<1>6. W!Off(w) = [bodies |-> bs, last |-> l, running |-> no, carry |-> 0, dropped |-> d, tick |-> k]
  BY <1>4, <1>5
<1> QED BY <1>2, <1>6

\* Stepping moves bodies and puts them to sleep; it makes none and forgets none.
LEMMA AdvanceIs ==
  ASSUME W!World3DConstants, NEW w, IsWorld(w), NEW t \in Nat, w.last <= t, NEW running \in BOOLEAN,
         NEW rest, NEW a, a = W!Advance(w, t, running, rest)
  PROVE  /\ IsWorld(a) /\ a.last = t /\ (a.running => running) /\ a.tick >= w.tick
         /\ 2 * a.tick + a.carry
              <= 2 * w.tick + w.carry + (IF w.running /\ running THEN t - w.last ELSE 0)
         /\ DOMAIN a.bodies = DOMAIN w.bodies
         /\ \A b \in DOMAIN w.bodies : SameBody(a.bodies[b], w.bodies[b])
<1>0. PICK p : p = W!Plan(w, t, running)
  OBVIOUS
<1> DEFINE moved == [b \in DOMAIN p.bodies |->
                       IF p.bodies[b].dynamic /\ p.bodies[b].awake
                       THEN [p.bodies[b] EXCEPT !.at = Elsewhere, !.awake = b \notin rest]
                       ELSE p.bodies[b]]
           stepped == IF p.tick = w.tick THEN p ELSE [p EXCEPT !.bodies = moved]
<1>1. /\ IsWorld(p) /\ p.bodies = w.bodies /\ p.last = t /\ p.running = running
      /\ p.tick >= w.tick
      /\ 2 * p.tick + p.carry
           <= 2 * w.tick + w.carry + (IF w.running /\ running THEN t - w.last ELSE 0)
  BY <1>0, PlanIs
<1>2. a = stepped \/ a = W!Off(stepped)
  BY <1>0 DEF W!Advance
<1>3. /\ AreBodies(moved) /\ DOMAIN moved = DOMAIN p.bodies
      /\ \A b \in DOMAIN p.bodies : SameBody(moved[b], p.bodies[b])
  <2> SUFFICES ASSUME NEW b \in DOMAIN p.bodies
               PROVE  IsBody(moved[b]) /\ SameBody(moved[b], p.bodies[b])
    BY DEF AreBodies
  <2>1. IsBody(p.bodies[b])
    BY <1>1 DEF IsWorld, AreBodies
  <2> QED BY <2>1 DEF IsBody, SameBody
<1> HIDE DEF moved
<1>4. /\ stepped = [bodies |-> stepped.bodies, last |-> p.last, running |-> p.running,
                    carry |-> p.carry, dropped |-> p.dropped, tick |-> p.tick]
      /\ stepped.bodies \in {p.bodies, moved}
  BY <1>1 DEF IsWorld
<1> HIDE DEF stepped
<1>5. /\ AreBodies(stepped.bodies) /\ DOMAIN stepped.bodies = DOMAIN p.bodies
      /\ \A b \in DOMAIN p.bodies : SameBody(stepped.bodies[b], p.bodies[b])
  BY <1>1, <1>3, <1>4 DEF IsWorld, SameBody
<1>6. /\ a.bodies = stepped.bodies /\ a.last = p.last /\ a.tick = p.tick
      /\ \/ a.running = p.running /\ a.carry = p.carry
         \/ a.running = FALSE /\ a.carry = 0
      /\ a = [bodies |-> a.bodies, last |-> a.last, running |-> a.running, carry |-> a.carry,
              dropped |-> a.dropped, tick |-> a.tick]
  <2>1. CASE a = stepped
    BY <1>4, <2>1
  <2>2. CASE a = W!Off(stepped)
    <3>1. a = [bodies |-> stepped.bodies, last |-> p.last, running |-> FALSE,
               carry |-> 0, dropped |-> p.dropped, tick |-> p.tick]
      BY <1>4, <2>2, OffIs
    <3> QED BY <1>4, <3>1
  <2> QED BY <1>2, <2>1, <2>2
<1>7. /\ p.tick \in Nat /\ p.carry \in 0..1 /\ (~p.running => p.carry = 0) /\ p.last \in Nat
      /\ p.running \in BOOLEAN /\ w.tick \in Nat /\ w.carry \in 0..1 /\ w.last \in Nat
  BY <1>1 DEF IsWorld
<1>8. IsWorld(a)
  <2>1. AreBodies(a.bodies)
    BY <1>5, <1>6
  <2>2. a.last \in Nat /\ a.carry \in 0..1 /\ a.tick \in Nat
    BY <1>6, <1>7
  <2>4. a.running \in BOOLEAN
    BY <1>6, <1>7
  <2>3. ~a.running => a.carry = 0
    BY <1>6, <1>7
  <2> QED BY <1>6, <2>1, <2>2, <2>3, <2>4 DEF IsWorld
<1>9. 2 * a.tick + a.carry <= 2 * p.tick + p.carry
  BY <1>6, <1>7
<1>10. 2 * a.tick + a.carry
         <= 2 * w.tick + w.carry + (IF w.running /\ running THEN t - w.last ELSE 0)
  <2>1. a.carry \in Nat /\ a.tick \in Nat
    BY <1>6, <1>7
  <2> QED BY <1>1, <1>7, <1>9, <2>1
<1> QED BY <1>1, <1>5, <1>6, <1>8, <1>10

\* The instance counts sets as the library does.
LEMMA NoneAreNoElements ==
  W!Cardinality({}) = 0
<1>1. \A S : W!Cardinality(S) = Cardinality(S)
  BY Zenon DEF W!Cardinality, Cardinality
<1> QED BY <1>1, FS_EmptySet

\* A world a source makes anew
LEMMA NewIsWorld ==
  ASSUME NEW w, w = W!NewWorld
  PROVE  /\ IsWorld(w) /\ w.last = 0 /\ w.running = FALSE /\ w.carry = 0 /\ w.tick = 0
         /\ DOMAIN w.bodies = {}
<1>1. PICK bs : bs = W!NoWorlds
  OBVIOUS
<1>2. DOMAIN bs = {} /\ bs = [b \in {} |-> bs[b]]
  BY <1>1 DEF W!NoWorlds
<1>3. w = [bodies |-> bs, last |-> 0, running |-> FALSE, carry |-> 0, dropped |-> 0, tick |-> 0]
  BY <1>1 DEF W!NewWorld
<1>4. AreBodies(bs)
  BY <1>2 DEF AreBodies
<1>5. w.bodies = bs /\ w.last = 0 /\ w.running = FALSE /\ w.carry = 0 /\ w.dropped = 0 /\ w.tick = 0
  BY <1>3
<1> QED BY <1>2, <1>3, <1>4, <1>5 DEF IsWorld

\* A reload leaves a world its clock and the poses of the bodies that stay, and
\* has it hold the bodies its source lists.
LEMMA ReconcileIs ==
  ASSUME NEW w, IsWorld(w), NEW r, W!Fits(w, r), NEW n, n = W!Reconcile(w, r)
  PROVE  /\ IsWorld(n) /\ n.last = w.last /\ n.running = w.running /\ n.carry = w.carry
         /\ n.tick = w.tick
         /\ DOMAIN n.bodies = DOMAIN r /\ W!Cardinality(DOMAIN n.bodies) <= MaxBodies
         /\ \A b \in DOMAIN r : SameBody(n.bodies[b], r[b])
         /\ \A b \in DOMAIN r \intersect DOMAIN w.bodies :
              n.bodies[b].at = w.bodies[b].at /\ n.bodies[b].awake = w.bodies[b].awake
<1> DEFINE B(b) == IF b \in DOMAIN w.bodies THEN [w.bodies[b] EXCEPT !.position = r[b].position]
                   ELSE W!Body(r[b])
<1>1. PICK bs : bs = [b \in DOMAIN r |-> B(b)]
  OBVIOUS
<1>2. n = [w EXCEPT !.bodies = bs]
  BY <1>1 DEF W!Reconcile
<1>3. ASSUME NEW b \in DOMAIN r
      PROVE  /\ IsBody(bs[b]) /\ SameBody(bs[b], r[b])
             /\ b \in DOMAIN w.bodies =>
                  bs[b].at = w.bodies[b].at /\ bs[b].awake = w.bodies[b].awake
  <2>1. bs[b] = B(b)
    BY <1>1
  <2>2. CASE b \in DOMAIN w.bodies
    <3>1. PICK x : x = w.bodies[b]
      OBVIOUS
    <3>2. IsBody(x) /\ x.shape = r[b].shape /\ x.dynamic = r[b].dynamic
      BY <2>2, <3>1 DEF IsWorld, AreBodies, W!Fits
    <3>3. bs[b] = [x EXCEPT !.position = r[b].position]
      BY <2>1, <2>2, <3>1
    <3>4. bs[b] = [shape |-> x.shape, dynamic |-> x.dynamic, position |-> r[b].position,
                   at |-> x.at, awake |-> x.awake]
      BY <3>2, <3>3 DEF IsBody
    <3> QED BY <3>1, <3>2, <3>4 DEF IsBody, SameBody
  <2>3. CASE b \notin DOMAIN w.bodies
    <3>1. bs[b] = [shape |-> r[b].shape, dynamic |-> r[b].dynamic, position |-> r[b].position,
                   at |-> r[b].position, awake |-> r[b].dynamic]
      BY <2>1, <2>3 DEF W!Body
    <3> QED BY <2>3, <3>1 DEF IsBody, SameBody
  <2> QED BY <2>2, <2>3
<1>4. AreBodies(bs) /\ DOMAIN bs = DOMAIN r
  BY <1>1, <1>3 DEF AreBodies
<1>5. n = [bodies |-> bs, last |-> w.last, running |-> w.running, carry |-> w.carry,
           dropped |-> w.dropped, tick |-> w.tick]
  BY <1>2 DEF IsWorld
<1>6. /\ n.bodies = bs /\ n.last = w.last /\ n.running = w.running /\ n.carry = w.carry
      /\ n.dropped = w.dropped /\ n.tick = w.tick
  BY <1>5
<1>7. IsWorld(n)
  BY <1>4, <1>5, <1>6 DEF IsWorld
<1>8. W!Cardinality(DOMAIN n.bodies) <= MaxBodies
  <2>1. DOMAIN n.bodies = DOMAIN r
    BY <1>4, <1>6
  <2>2. W!Cardinality(DOMAIN r) <= MaxBodies
    BY DEF W!Fits
  <2> QED BY <2>1, <2>2, Zenon
<1> QED BY <1>3, <1>4, <1>6, <1>7, <1>8

\* What a source makes of the worlds there are: their clocks and the poses of the
\* bodies that stay are theirs, the rest is the source's.
Remade(ws, rs, n) ==
  /\ n = [id \in DOMAIN n |-> n[id]] /\ W!Cardinality(DOMAIN n) <= MaxWorlds
  /\ Authored(n, rs)
  /\ \A id \in DOMAIN n :
       /\ IsWorld(n[id]) /\ W!Cardinality(DOMAIN n[id].bodies) <= MaxBodies
       /\ id \notin DOMAIN ws =>
            n[id].last = 0 /\ n[id].running = FALSE /\ n[id].carry = 0 /\ n[id].tick = 0
       /\ id \in DOMAIN ws =>
            /\ n[id].last = ws[id].last /\ n[id].running = ws[id].running
            /\ n[id].carry = ws[id].carry /\ n[id].tick = ws[id].tick
            /\ \A b \in DOMAIN n[id].bodies \intersect DOMAIN ws[id].bodies :
                 /\ n[id].bodies[b].at = ws[id].bodies[b].at
                 /\ n[id].bodies[b].awake = ws[id].bodies[b].awake

\* All worlds of a source at once
LEMMA ReconcileAllIs ==
  ASSUME NEW ws, \A id \in DOMAIN ws : IsWorld(ws[id]), NEW rs, W!FitAll(ws, rs),
         NEW n, n = W!ReconcileAll(ws, rs)
  PROVE  Remade(ws, rs, n)
<1>1. DOMAIN n = DOMAIN rs /\ n = [id \in DOMAIN n |-> n[id]] /\ W!Cardinality(DOMAIN n) <= MaxWorlds
  <2>1. DOMAIN n = DOMAIN rs /\ n = [id \in DOMAIN n |-> n[id]]
    BY DEF W!ReconcileAll
  <2>2. W!Cardinality(DOMAIN rs) <= MaxWorlds
    BY DEF W!FitAll
  <2>3. W!Cardinality(DOMAIN n) <= MaxWorlds
    BY <2>1, <2>2, Zenon
  <2> QED BY <2>1, <2>3
<1>2. ASSUME NEW id \in DOMAIN n
      PROVE  /\ IsWorld(n[id]) /\ W!Cardinality(DOMAIN n[id].bodies) <= MaxBodies
             /\ DOMAIN n[id].bodies = DOMAIN rs[id]
             /\ \A b \in DOMAIN rs[id] : SameBody(n[id].bodies[b], rs[id][b])
             /\ id \notin DOMAIN ws =>
                  n[id].last = 0 /\ n[id].running = FALSE /\ n[id].carry = 0 /\ n[id].tick = 0
             /\ id \in DOMAIN ws =>
                  /\ n[id].last = ws[id].last /\ n[id].running = ws[id].running
                  /\ n[id].carry = ws[id].carry /\ n[id].tick = ws[id].tick
                  /\ \A b \in DOMAIN n[id].bodies \intersect DOMAIN ws[id].bodies :
                       /\ n[id].bodies[b].at = ws[id].bodies[b].at
                       /\ n[id].bodies[b].awake = ws[id].bodies[b].awake
  <2>1. PICK w : w = IF id \in DOMAIN ws THEN ws[id] ELSE W!NewWorld
    OBVIOUS
  <2>2. IsWorld(w)
    BY <2>1, NewIsWorld
  <2>3. W!Fits(w, rs[id]) /\ n[id] = W!Reconcile(w, rs[id])
    BY <1>1, <2>1 DEF W!FitAll, W!ReconcileAll
  <2>4. /\ IsWorld(n[id]) /\ n[id].last = w.last /\ n[id].running = w.running
        /\ n[id].carry = w.carry /\ n[id].tick = w.tick
        /\ DOMAIN n[id].bodies = DOMAIN rs[id] /\ W!Cardinality(DOMAIN n[id].bodies) <= MaxBodies
        /\ \A b \in DOMAIN rs[id] : SameBody(n[id].bodies[b], rs[id][b])
        /\ \A b \in DOMAIN rs[id] \intersect DOMAIN w.bodies :
             n[id].bodies[b].at = w.bodies[b].at /\ n[id].bodies[b].awake = w.bodies[b].awake
    BY <2>2, <2>3, ReconcileIs
  <2>5. CASE id \in DOMAIN ws
    BY <2>1, <2>4, <2>5
  <2>6. CASE id \notin DOMAIN ws
    <3>1. w = W!NewWorld
      BY <2>1, <2>6
    <3>2. w.last = 0 /\ w.running = FALSE /\ w.carry = 0 /\ w.tick = 0
      BY <3>1, NewIsWorld
    <3> QED BY <2>4, <2>6, <3>2
  <2> QED BY <2>5, <2>6
<1>3. Authored(n, rs)
  BY <1>1, <1>2 DEF Authored
<1> QED BY <1>1, <1>2, <1>3 DEF Remade

-----------------------------------------------------------------------------
LEMMA WorldsTypes ==
  ASSUME W!World3DConstants, WorldsInv
  PROVE  W!TypeOK
<1>1. ASSUME NEW id \in DOMAIN worlds
      PROVE  /\ worlds[id].carry \in 0 .. W!STEP - 1 /\ worlds[id].last <= time
             /\ {worlds[id].running} \subseteq BOOLEAN
             /\ ~worlds[id].running => worlds[id].carry = 0
             /\ W!Cardinality(DOMAIN worlds[id].bodies) <= MaxBodies
  <2>1. PICK w : w = worlds[id]
    OBVIOUS
  <2>2. Sound(w)
    BY <2>1 DEF WorldsInv
  <2>3. w.carry \in 0 .. W!STEP - 1 /\ w.last <= time
    BY <2>2 DEF Sound, IsWorld, W!STEP
  <2>4. {w.running} \subseteq BOOLEAN /\ (~w.running => w.carry = 0)
    BY <2>2 DEF Sound, IsWorld
  <2>5. W!Cardinality(DOMAIN w.bodies) <= MaxBodies
    BY <2>2 DEF Sound
  <2> QED BY <2>1, <2>3, <2>4, <2>5
<1>2. time \in 0 .. MaxTime
  BY DEF WorldsInv, W!World3DConstants
<1> QED BY <1>1, <1>2 DEF WorldsInv, W!TypeOK

LEMMA InitWorlds ==
  ASSUME W!World3DConstants, W!Init
  PROVE  WorldsInv /\ ShownInv
<1>1. /\ DOMAIN worlds = {} /\ DOMAIN recipes = {} /\ DOMAIN visible = {}
      /\ worlds = [id \in DOMAIN worlds |-> worlds[id]]
  BY DEF W!Init, W!NoWorlds
<1>2. time \in Nat /\ time <= MaxTime /\ {open, inFront, due} \subseteq BOOLEAN /\ (inFront => open)
  <2>1. time \in Nat /\ time <= MaxTime
    BY DEF W!Init, W!World3DConstants
  <2>2. open = FALSE /\ inFront = FALSE /\ due = TRUE
    BY DEF W!Init
  <2> QED BY <2>1, <2>2
<1>3. W!Cardinality(DOMAIN worlds) <= MaxWorlds
  <2>1. W!Cardinality(DOMAIN worlds) = 0
    BY <1>1, NoneAreNoElements, Zenon
  <2> QED BY <2>1 DEF W!World3DConstants
<1>4. WorldsInv
  BY <1>1, <1>2, <1>3 DEF WorldsInv, Authored
<1>5. ShownInv
  BY <1>1 DEF ShownInv
<1> QED BY <1>4, <1>5

\* What a normal frame does to a world
LEMMA HookIs ==
  ASSUME W!World3DConstants, WorldsInv, NEW rest,
         worlds' = [id \in DOMAIN worlds |->
                      W!Advance(worlds[id], time, W!Running(id, inFront), rest)]
  PROVE  /\ DOMAIN worlds' = DOMAIN worlds
         /\ \A id \in DOMAIN worlds :
              /\ Sound(worlds'[id]) /\ worlds'[id].last = time
              /\ worlds'[id].running => inFront /\ id \in resolved
              /\ worlds'[id].tick >= worlds[id].tick
              /\ 2 * worlds'[id].tick + worlds'[id].carry <= Owed(worlds[id], id \in resolved)
              /\ DOMAIN worlds'[id].bodies = DOMAIN worlds[id].bodies
              /\ \A b \in DOMAIN worlds[id].bodies :
                   SameBody(worlds'[id].bodies[b], worlds[id].bodies[b])
<1>1. DOMAIN worlds' = DOMAIN worlds
  OBVIOUS
<1>2. ASSUME NEW id \in DOMAIN worlds
      PROVE  /\ Sound(worlds'[id]) /\ worlds'[id].last = time
             /\ worlds'[id].running => inFront /\ id \in resolved
             /\ worlds'[id].tick >= worlds[id].tick
             /\ 2 * worlds'[id].tick + worlds'[id].carry <= Owed(worlds[id], id \in resolved)
             /\ DOMAIN worlds'[id].bodies = DOMAIN worlds[id].bodies
             /\ \A b \in DOMAIN worlds[id].bodies :
                  SameBody(worlds'[id].bodies[b], worlds[id].bodies[b])
  <2>1. PICK running \in BOOLEAN : running = W!Running(id, inFront)
    BY DEF W!Running
  <2>2. running => inFront /\ id \in resolved
    BY <2>1 DEF W!Running, WorldsInv
  <2>3. PICK w : w = worlds[id]
    OBVIOUS
  <2>4. PICK a : a = W!Advance(w, time, running, rest)
    OBVIOUS
  <2>5. worlds'[id] = a
    BY <2>1, <2>3, <2>4
  <2>6. IsWorld(w) /\ w.last <= time /\ time \in Nat /\ W!Cardinality(DOMAIN w.bodies) <= MaxBodies
    BY <2>3 DEF WorldsInv, Sound
  <2>7. /\ IsWorld(a) /\ a.last = time /\ (a.running => running) /\ a.tick >= w.tick
        /\ 2 * a.tick + a.carry
             <= 2 * w.tick + w.carry + (IF w.running /\ running THEN time - w.last ELSE 0)
        /\ DOMAIN a.bodies = DOMAIN w.bodies
        /\ \A b \in DOMAIN w.bodies : SameBody(a.bodies[b], w.bodies[b])
    BY <2>4, <2>6, AdvanceIs
  <2>8. /\ a.tick \in Nat /\ a.carry \in 0..1 /\ a.last \in Nat /\ w.tick \in Nat /\ w.carry \in 0..1
        /\ w.last \in Nat /\ w.running \in BOOLEAN
    BY <2>6, <2>7 DEF IsWorld
  <2>9. 2 * a.tick + a.carry <= Owed(w, id \in resolved)
    <3>1. CASE w.running /\ running
      BY <2>2, <2>7, <2>8, <3>1 DEF Owed
    <3>2. CASE ~(w.running /\ running)
      <4>1. Owed(w, id \in resolved) >= 2 * w.tick + w.carry
        BY <2>6, <2>8 DEF Owed
      <4>2. Owed(w, id \in resolved) \in Int
        BY <2>6, <2>8 DEF Owed
      <4> QED BY <2>7, <2>8, <3>2, <4>1, <4>2
    <3> QED BY <3>1, <3>2
  <2>10. Sound(a)
    <3>1. a.last <= time
      BY <2>6, <2>7
    <3>2. W!Cardinality(DOMAIN a.bodies) <= MaxBodies
      BY <2>6, <2>7, Zenon
    <3> QED BY <2>7, <3>1, <3>2 DEF Sound
  <2> QED BY <2>2, <2>3, <2>5, <2>7, <2>9, <2>10
<1> QED BY <1>1, <1>2

\* A view resolves what it draws and shows it.
LEMMA DrawIs ==
  ASSUME NEW ws, NEW wanted \in BOOLEAN, W!Draw(ws, wanted)
  PROVE  /\ due' \in BOOLEAN
         /\ inFront /\ open => resolved' = viewed'
         /\ ~(inFront /\ open) => resolved' = resolved /\ viewed' = {}
<1>1. CASE inFront /\ open
  BY <1>1 DEF W!Draw
<1>2. CASE ~(inFront /\ open)
  BY <1>2 DEF W!Draw
<1> QED BY <1>1, <1>2

\* A normal frame
LEMMA HookStep ==
  ASSUME W!World3DConstants, WorldsInv, W!Hook
  PROVE  WorldsInv' /\ (ShownInv => ShownInv')
<1>1. PICK rest : worlds' = [id \in DOMAIN worlds |->
                               W!Advance(worlds[id], time, W!Running(id, inFront), rest)]
  BY DEF W!Hook
<1>0. W!Ticking(worlds') \in BOOLEAN
  BY DEF W!Ticking
<1>2. W!Draw(worlds', W!Ticking(worlds')) /\ recipes' = recipes /\ open' = open /\ inFront' = inFront /\ time' = time
      /\ visible' = visible
  BY DEF W!Hook
<1>3. /\ DOMAIN worlds' = DOMAIN worlds
      /\ \A id \in DOMAIN worlds :
           /\ Sound(worlds'[id]) /\ worlds'[id].last = time
           /\ worlds'[id].running => inFront /\ id \in resolved
           /\ 2 * worlds'[id].tick + worlds'[id].carry <= Owed(worlds[id], id \in resolved)
           /\ DOMAIN worlds'[id].bodies = DOMAIN worlds[id].bodies
           /\ \A b \in DOMAIN worlds[id].bodies :
                SameBody(worlds'[id].bodies[b], worlds[id].bodies[b])
  BY <1>1, HookIs
<1>4. due' \in BOOLEAN
  BY <1>0, <1>2, DrawIs
<1>5. WorldsInv'
  <2>1. W!Cardinality(DOMAIN worlds') <= MaxWorlds
    BY <1>3, Zenon DEF WorldsInv
  <2>2. Authored(worlds', recipes')
    BY <1>2, <1>3 DEF WorldsInv, Authored, SameBody
  <2>3. \A id \in DOMAIN worlds' : (Sound(worlds[id]))'
    BY <1>2, <1>3 DEF Sound
  <2>4. worlds' = [id \in DOMAIN worlds' |-> worlds'[id]]
    BY <1>1
  <2>5. time' \in Nat /\ time' <= MaxTime /\ {open, inFront, due}' \subseteq BOOLEAN
        /\ (inFront' => open')
    BY <1>2, <1>4 DEF WorldsInv
  <2> QED BY <2>1, <2>2, <2>3, <2>4, <2>5 DEF WorldsInv
<1>6. ASSUME ShownInv PROVE ShownInv'
  <2>1. DOMAIN visible' = DOMAIN worlds' /\ \A id \in DOMAIN visible' : visible'[id] \in Nat
    BY <1>2, <1>3, <1>6 DEF ShownInv
  <2>2. ASSUME NEW id \in DOMAIN worlds'
        PROVE  /\ worlds'[id].running /\ id \in resolved' => id \in viewed'
               /\ (Owed(worlds[id], id \in resolved))' <= visible'[id]
    <3>1. PICK a : a = worlds'[id]
      OBVIOUS
    <3>2. /\ a.tick \in Nat /\ a.carry \in 0..1 /\ a.last = time /\ time \in Nat
          /\ (a.running => inFront)
      BY <1>3, <2>2, <3>1 DEF Sound, IsWorld, WorldsInv
    <3>3. a.running /\ id \in resolved' => id \in viewed'
      BY <1>0, <1>2, <3>2, DrawIs DEF WorldsInv
    <3>4. (Owed(worlds[id], id \in resolved))' = 2 * a.tick + a.carry
      BY <1>2, <3>1, <3>2 DEF Owed
    <3>5. 2 * a.tick + a.carry <= Owed(worlds[id], id \in resolved)
      BY <1>3, <2>2, <3>1
    <3>6. Owed(worlds[id], id \in resolved) <= visible[id] /\ visible[id] \in Nat
      BY <1>3, <1>6, <2>2 DEF ShownInv
    <3>7. Owed(worlds[id], id \in resolved) \in Int
      <4>1. Sound(worlds[id])
        BY <1>3, <2>2 DEF WorldsInv
      <4> QED BY <3>2, <4>1 DEF Owed, Sound, IsWorld
    <3>8. 2 * a.tick + a.carry <= visible[id]
      BY <3>2, <3>5, <3>6, <3>7
    <3> QED BY <1>2, <3>1, <3>3, <3>4, <3>8
  <2> QED BY <2>1, <2>2 DEF ShownInv
<1> QED BY <1>5, <1>6

\* Neither a screenshot, nor the tabs, nor time changes a world.
LEMMA QuietSteps ==
  ASSUME W!World3DConstants, WorldsInv, W!Capture \/ W!Switch \/ W!Elapse \/ UNCHANGED W!vars
  PROVE  WorldsInv' /\ (ShownInv /\ ~W!Capture => ShownInv')
<1>1. worlds' = worlds /\ recipes' = recipes /\ open' = open
  BY DEF W!Capture, W!Switch, W!Elapse, W!vars
<1>2. due' \in BOOLEAN
  <2>1. CASE W!Capture
    BY <2>1, DrawIs DEF W!Capture
  <2>2. CASE W!Switch
    BY <2>2 DEF W!Switch, W!onScreen
  <2>3. CASE W!Elapse \/ UNCHANGED W!vars
    BY <2>3 DEF W!Elapse, W!onScreen, W!vars, WorldsInv
  <2> QED BY <2>1, <2>2, <2>3
<1>3. inFront' \in BOOLEAN /\ (inFront' => open')
  <2>1. CASE W!Switch
    BY <2>1, Zenon DEF W!Switch, W!onScreen
  <2>2. CASE inFront' = inFront
    BY <1>1, <2>2 DEF WorldsInv
  <2>3. W!Switch \/ inFront' = inFront
    BY DEF W!Capture, W!Elapse, W!vars
  <2> QED BY <2>1, <2>2, <2>3
<1>4. time' \in Nat /\ time' <= MaxTime /\ time <= time'
  <2>1. time' = time \/ (time < MaxTime /\ time' = time + 1)
    BY DEF W!Capture, W!Switch, W!Elapse, W!vars
  <2> QED BY <2>1 DEF WorldsInv, W!World3DConstants
<1>5. \A id \in DOMAIN worlds' : (Sound(worlds[id]))'
  <2> SUFFICES ASSUME NEW id \in DOMAIN worlds'
               PROVE  (Sound(worlds[id]))'
    OBVIOUS
  <2>1. PICK w : w = worlds[id]
    OBVIOUS
  <2>2. IsWorld(w) /\ w.last <= time /\ W!Cardinality(DOMAIN w.bodies) <= MaxBodies
    BY <1>1, <2>1 DEF WorldsInv, Sound
  <2>3. w.last <= time'
    BY <1>4, <2>2 DEF IsWorld, WorldsInv
  <2> QED BY <1>1, <2>1, <2>2, <2>3 DEF Sound
<1>6. Authored(worlds', recipes')
  BY <1>1 DEF WorldsInv
<1>7. WorldsInv'
  BY <1>1, <1>2, <1>3, <1>4, <1>5, <1>6 DEF WorldsInv
<1>8. CASE ShownInv /\ (W!Switch \/ UNCHANGED W!vars)
  <2>1. UNCHANGED <<worlds, visible, viewed, resolved, time>>
    BY <1>8 DEF W!Switch, W!onScreen, W!vars
  <2> QED BY <1>7, <1>8, <2>1 DEF ShownInv, Owed, W!Capture
<1>9. CASE ShownInv /\ W!Elapse
  <2>1. /\ time' = time + 1 /\ resolved' = resolved /\ viewed' = viewed
        /\ visible' = [id \in DOMAIN visible |-> visible[id] + (IF id \in viewed THEN 1 ELSE 0)]
    BY <1>9 DEF W!Elapse, W!onScreen
  <2>2. DOMAIN visible' = DOMAIN worlds' /\ \A id \in DOMAIN visible' : visible'[id] \in Nat
    BY <1>1, <1>9, <2>1 DEF ShownInv
  <2>3. ASSUME NEW id \in DOMAIN worlds'
        PROVE  /\ worlds'[id].running /\ id \in resolved' => id \in viewed'
               /\ (Owed(worlds[id], id \in resolved))' <= visible'[id]
    <3>1. PICK w : w = worlds[id]
      OBVIOUS
    <3>2. /\ w.tick \in Nat /\ w.carry \in 0..1 /\ w.last \in Nat /\ w.last <= time /\ time \in Nat
          /\ w.running \in BOOLEAN
      BY <1>1, <3>1 DEF WorldsInv, Sound, IsWorld
    <3>3. w.running /\ id \in resolved => id \in viewed
      BY <1>1, <1>9, <3>1 DEF ShownInv
    <3>4. Owed(w, id \in resolved) <= visible[id] /\ visible[id] \in Nat
      BY <1>1, <1>9, <3>1 DEF ShownInv
    <3>5. (Owed(worlds[id], id \in resolved))'
            = 2 * w.tick + w.carry + (IF w.running /\ id \in resolved THEN time' - w.last ELSE 0)
      BY <1>1, <2>1, <3>1 DEF Owed
    <3>6. visible'[id] = visible[id] + (IF id \in viewed THEN 1 ELSE 0)
      BY <1>1, <1>9, <2>1 DEF ShownInv
    <3>7. CASE w.running /\ id \in resolved
      <4>1. 2 * w.tick + w.carry + (time - w.last) <= visible[id]
        BY <3>4, <3>7 DEF Owed
      <4>2. visible'[id] = visible[id] + 1
        BY <3>3, <3>6, <3>7
      <4>3. 2 * w.tick + w.carry + (time' - w.last) <= visible'[id]
        BY <2>1, <3>2, <3>4, <4>1, <4>2
      <4> QED BY <1>1, <2>1, <3>1, <3>3, <3>5, <3>7, <4>3
    <3>8. CASE ~(w.running /\ id \in resolved)
      <4>1. 2 * w.tick + w.carry + 0 <= visible[id]
        BY <3>4, <3>8 DEF Owed
      <4>2. visible'[id] >= visible[id] /\ visible'[id] \in Nat
        BY <3>4, <3>6
      <4>3. 2 * w.tick + w.carry + 0 <= visible'[id]
        BY <3>2, <3>4, <4>1, <4>2
      <4> QED BY <1>1, <2>1, <3>1, <3>5, <3>8, <4>3
    <3> QED BY <3>7, <3>8
  <2> QED BY <1>7, <2>2, <2>3 DEF ShownInv
<1> QED BY <1>7, <1>8, <1>9

\* An app that is closed has no worlds.
LEMMA CloseStep ==
  ASSUME W!World3DConstants, WorldsInv, W!Close
  PROVE  WorldsInv' /\ ShownInv'
<1>1. /\ open' = FALSE /\ inFront' = FALSE /\ due' = TRUE /\ time' = time
      /\ worlds' = W!NoWorlds /\ recipes' = W!NoWorlds /\ visible' = W!NoWorlds
  BY DEF W!Close, W!onScreen
<1>2. /\ DOMAIN worlds' = {} /\ DOMAIN recipes' = {} /\ DOMAIN visible' = {}
      /\ worlds' = [id \in DOMAIN worlds' |-> worlds'[id]]
  BY <1>1 DEF W!NoWorlds
<1>3. W!Cardinality(DOMAIN worlds') <= MaxWorlds
  <2>1. W!Cardinality(DOMAIN worlds') = 0
    BY <1>2, NoneAreNoElements, Zenon
  <2> QED BY <2>1 DEF W!World3DConstants
<1>4. {open, inFront, due}' \subseteq BOOLEAN /\ (inFront' => open')
  BY <1>1
<1>5. time' \in Nat /\ time' <= MaxTime
  BY <1>1 DEF WorldsInv
<1> QED BY <1>2, <1>3, <1>4, <1>5 DEF WorldsInv, ShownInv, Authored

\* An app that is opened has the worlds of its source, none of them run yet.
LEMMA OpenStep ==
  ASSUME W!World3DConstants, WorldsInv, NEW s, W!Open(s)
  PROVE  WorldsInv' /\ ShownInv'
<1>1. /\ open' = TRUE /\ inFront' = TRUE /\ due' = TRUE /\ time' = time
      /\ recipes' = IF s.loads /\ W!FitAll(W!NoWorlds, s.recipes) THEN s.recipes ELSE W!NoWorlds
      /\ worlds' = W!ReconcileAll(W!NoWorlds, recipes')
      /\ visible' = [id \in DOMAIN worlds' |-> 0]
  BY DEF W!Open, W!onScreen
<1>2. DOMAIN W!NoWorlds = {}
  BY DEF W!NoWorlds
<1>3. W!FitAll(W!NoWorlds, recipes')
  <2>1. W!FitAll(W!NoWorlds, W!NoWorlds)
    <3>1. W!Cardinality(DOMAIN W!NoWorlds) = 0
      BY <1>2, NoneAreNoElements, Zenon
    <3> QED BY <1>2, <3>1 DEF W!FitAll, W!World3DConstants
  <2> QED BY <1>1, <2>1
<1>4. /\ worlds' = [id \in DOMAIN worlds' |-> worlds'[id]]
      /\ W!Cardinality(DOMAIN worlds') <= MaxWorlds /\ Authored(worlds', recipes')
      /\ \A id \in DOMAIN worlds' :
           /\ IsWorld(worlds'[id]) /\ W!Cardinality(DOMAIN worlds'[id].bodies) <= MaxBodies
           /\ worlds'[id].last = 0 /\ worlds'[id].running = FALSE /\ worlds'[id].carry = 0
           /\ worlds'[id].tick = 0
  <2>1. PICK none : none = W!NoWorlds
    OBVIOUS
  <2>2. PICK rs : rs = recipes'
    OBVIOUS
  <2>3. PICK n : n = worlds'
    OBVIOUS
  <2>4. (\A id \in DOMAIN none : IsWorld(none[id])) /\ W!FitAll(none, rs) /\ n = W!ReconcileAll(none, rs)
    BY <1>1, <1>2, <1>3, <2>1, <2>2, <2>3
  <2>5. /\ n = [id \in DOMAIN n |-> n[id]] /\ W!Cardinality(DOMAIN n) <= MaxWorlds
        /\ Authored(n, rs)
        /\ \A id \in DOMAIN n :
             /\ IsWorld(n[id]) /\ W!Cardinality(DOMAIN n[id].bodies) <= MaxBodies
             /\ id \notin DOMAIN none =>
                  n[id].last = 0 /\ n[id].running = FALSE /\ n[id].carry = 0 /\ n[id].tick = 0
    <3>1. Remade(none, rs, n)
      BY <2>4, ReconcileAllIs
    <3> QED BY <3>1 DEF Remade
  <2> QED BY <1>2, <2>1, <2>2, <2>3, <2>5
<1>5. time' \in Nat /\ time' <= MaxTime /\ \A id \in DOMAIN worlds' : worlds'[id].last <= time'
  BY <1>1, <1>4 DEF WorldsInv
<1>6. {open, inFront, due}' \subseteq BOOLEAN /\ (inFront' => open')
  BY <1>1
<1>7. WorldsInv'
  <2>1. \A id \in DOMAIN worlds' : (Sound(worlds[id]))'
    BY <1>4, <1>5 DEF Sound
  <2> QED BY <1>4, <1>5, <1>6, <2>1 DEF WorldsInv
<1>8. ShownInv'
  <2>1. DOMAIN visible' = DOMAIN worlds' /\ \A id \in DOMAIN visible' : visible'[id] = 0
    BY <1>1
  <2>2. \A id \in DOMAIN worlds' : ~worlds'[id].running /\ (Owed(worlds[id], id \in resolved))' = 0
    BY <1>4, <1>5 DEF Owed
  <2> QED BY <2>1, <2>2 DEF ShownInv
<1> QED BY <1>7, <1>8

\* A reload that is accepted makes the worlds those of the new source and takes
\* back what the last view resolved; a refused one leaves them alone.
LEMMA ReloadStep ==
  ASSUME W!World3DConstants, WorldsInv, NEW s, W!Reload(s)
  PROVE  WorldsInv' /\ (ShownInv => ShownInv')
<1>1. /\ open' = open /\ inFront' = inFront /\ due' = TRUE /\ time' = time /\ viewed' = viewed
      /\ visible' = [id \in DOMAIN worlds' |-> IF id \in DOMAIN visible THEN visible[id] ELSE 0]
  BY DEF W!Reload, W!onScreen
<1>2. {open, inFront, due}' \subseteq BOOLEAN /\ (inFront' => open')
  BY <1>1 DEF WorldsInv
<1>3. time' \in Nat /\ time' <= MaxTime
  BY <1>1 DEF WorldsInv
<1>4. CASE W!Accepts(s)
  <2>1. recipes' = s.recipes /\ worlds' = W!ReconcileAll(worlds, s.recipes) /\ resolved' = {}
    BY <1>4 DEF W!Reload, W!onScreen
  <2>2. PICK rs : rs = s.recipes
    OBVIOUS
  <2>3. PICK n : n = worlds'
    OBVIOUS
  <2>4. /\ \A id \in DOMAIN worlds : IsWorld(worlds[id])
        /\ W!FitAll(worlds, rs) /\ n = W!ReconcileAll(worlds, rs)
    BY <1>4, <2>1, <2>2, <2>3 DEF W!Accepts, WorldsInv, Sound
  <2>5. /\ n = [id \in DOMAIN n |-> n[id]] /\ W!Cardinality(DOMAIN n) <= MaxWorlds
        /\ Authored(n, rs)
        /\ \A id \in DOMAIN n :
             /\ IsWorld(n[id]) /\ W!Cardinality(DOMAIN n[id].bodies) <= MaxBodies
             /\ id \notin DOMAIN worlds =>
                  n[id].last = 0 /\ n[id].running = FALSE /\ n[id].carry = 0 /\ n[id].tick = 0
             /\ id \in DOMAIN worlds =>
                  /\ n[id].last = worlds[id].last /\ n[id].running = worlds[id].running
                  /\ n[id].carry = worlds[id].carry /\ n[id].tick = worlds[id].tick
    <3>1. Remade(worlds, rs, n)
      BY <2>4, ReconcileAllIs
    <3> QED BY <3>1 DEF Remade
  <2>6. \A id \in DOMAIN n : n[id].last <= time
    BY <2>5 DEF WorldsInv, Sound
  <2>7. \A id \in DOMAIN worlds' : (Sound(worlds[id]))'
    BY <1>1, <2>3, <2>5, <2>6 DEF Sound
  <2>8. WorldsInv'
    BY <1>2, <1>3, <2>1, <2>2, <2>3, <2>5, <2>7 DEF WorldsInv
  <2>9. ASSUME ShownInv PROVE ShownInv'
    <3>1. DOMAIN visible' = DOMAIN worlds' /\ \A id \in DOMAIN visible' : visible'[id] \in Nat
      BY <1>1, <2>9 DEF ShownInv
    <3>2. ASSUME NEW id \in DOMAIN worlds'
          PROVE  (Owed(worlds[id], id \in resolved))' <= visible'[id]
      <4>1. (Owed(worlds[id], id \in resolved))' = 2 * n[id].tick + n[id].carry + 0
        BY <2>1, <2>3 DEF Owed
      <4>2. n[id].tick \in Nat /\ n[id].carry \in 0..1
        BY <2>3, <2>5 DEF IsWorld
      <4>3. CASE id \in DOMAIN worlds
        <5>1. PICK w : w = worlds[id]
          OBVIOUS
        <5>2. n[id].tick = w.tick /\ n[id].carry = w.carry
          BY <2>3, <2>5, <4>3, <5>1
        <5>3. /\ w.tick \in Nat /\ w.carry \in 0..1 /\ w.last \in Nat /\ w.last <= time
              /\ time \in Nat
          BY <4>3, <5>1 DEF WorldsInv, Sound, IsWorld
        <5>4. Owed(w, id \in resolved) <= visible[id] /\ visible[id] \in Nat
          BY <2>9, <4>3, <5>1 DEF ShownInv
        <5>5. 2 * w.tick + w.carry + 0 <= visible[id]
          BY <5>3, <5>4 DEF Owed
        <5>6. visible'[id] = visible[id]
          BY <1>1, <2>9, <4>3 DEF ShownInv
        <5> QED BY <4>1, <5>2, <5>5, <5>6
      <4>4. CASE id \notin DOMAIN worlds
        <5>1. n[id].tick = 0 /\ n[id].carry = 0
          BY <2>3, <2>5, <4>4
        <5>2. visible'[id] = 0
          BY <1>1, <2>9, <4>4 DEF ShownInv
        <5> QED BY <4>1, <5>1, <5>2
      <4> QED BY <4>3, <4>4
    <3> QED BY <2>1, <3>1, <3>2 DEF ShownInv
  <2> QED BY <2>8, <2>9
<1>5. CASE ~W!Accepts(s)
  <2>1. recipes' = recipes /\ worlds' = worlds /\ resolved' = resolved
    BY <1>5 DEF W!Reload, W!onScreen
  <2>2. WorldsInv'
    BY <1>1, <1>2, <1>3, <2>1 DEF WorldsInv, Sound
  <2>3. ASSUME ShownInv PROVE ShownInv'
    <3>1. DOMAIN visible' = DOMAIN worlds /\ \A id \in DOMAIN worlds : visible'[id] = visible[id]
      BY <1>1, <2>1, <2>3 DEF ShownInv
    <3> QED BY <1>1, <2>1, <2>3, <3>1 DEF ShownInv, Owed
  <2> QED BY <2>2, <2>3
<1> QED BY <1>4, <1>5

\* game:reset puts a body back; the world's clock runs on.
LEMMA ResetStep ==
  ASSUME W!World3DConstants, WorldsInv, NEW it \in DOMAIN worlds, NEW x \in DOMAIN worlds[it].bodies,
         W!Reset(it, x)
  PROVE  WorldsInv' /\ (ShownInv => ShownInv')
<1>1. PICK w : w = worlds[it]
  OBVIOUS
<1>2. PICK old : old = w.bodies[x]
  OBVIOUS
<1>3. PICK new : new = [old EXCEPT !.at = old.position, !.awake = old.awake \/ old.dynamic]
  OBVIOUS
<1>4. worlds' = [worlds EXCEPT ![it].bodies[x] = new]
  BY <1>1, <1>2, <1>3 DEF W!Reset, W!onScreen
<1>5. PICK bs : bs = [w.bodies EXCEPT ![x] = new]
  OBVIOUS
<1>6. PICK n : n = [w EXCEPT !.bodies = bs]
  OBVIOUS
<1>7. worlds' = [worlds EXCEPT ![it] = n]
  BY <1>1, <1>4, <1>5, <1>6
<1>8. /\ recipes' = recipes /\ open' = open /\ inFront' = inFront /\ due' = TRUE /\ time' = time
      /\ resolved' = resolved /\ viewed' = viewed /\ visible' = visible
  BY DEF W!Reset, W!onScreen
<1>9. Sound(w)
  BY <1>1 DEF WorldsInv
<1>10. IsBody(new) /\ SameBody(new, old)
  <2>1. IsBody(old)
    BY <1>1, <1>2, <1>9 DEF Sound, IsWorld, AreBodies
  <2> QED BY <1>3, <2>1 DEF IsBody, SameBody
<1>11. AreBodies(bs) /\ DOMAIN bs = DOMAIN w.bodies
       /\ \A b \in DOMAIN w.bodies : SameBody(bs[b], w.bodies[b])
  <2>1. DOMAIN bs = DOMAIN w.bodies /\ bs = [b \in DOMAIN bs |-> bs[b]]
    BY <1>5
  <2>2. \A b \in DOMAIN bs : bs[b] = IF b = x THEN new ELSE w.bodies[b]
    BY <1>5
  <2> QED BY <1>2, <1>9, <1>10, <2>1, <2>2 DEF Sound, IsWorld, AreBodies, SameBody
<1>12. n = [bodies |-> bs, last |-> w.last, running |-> w.running, carry |-> w.carry,
            dropped |-> w.dropped, tick |-> w.tick]
  BY <1>6, <1>9 DEF Sound, IsWorld
<1>13. /\ n.bodies = bs /\ n.last = w.last /\ n.running = w.running /\ n.carry = w.carry
       /\ n.dropped = w.dropped /\ n.tick = w.tick
  BY <1>12
<1>14. IsWorld(n)
  BY <1>9, <1>11, <1>12, <1>13 DEF Sound, IsWorld
<1>15. Sound(n)
  <2>1. n.last <= time
    BY <1>9, <1>13 DEF Sound
  <2>2. W!Cardinality(DOMAIN n.bodies) <= MaxBodies
    <3>1. DOMAIN n.bodies = DOMAIN w.bodies
      BY <1>11, <1>13
    <3> QED BY <1>9, <3>1, Zenon DEF Sound
  <2> QED BY <1>14, <2>1, <2>2 DEF Sound
<1>16. /\ DOMAIN worlds' = DOMAIN worlds /\ worlds' = [id \in DOMAIN worlds' |-> worlds'[id]]
       /\ \A id \in DOMAIN worlds : worlds'[id] = IF id = it THEN n ELSE worlds[id]
  BY <1>7 DEF WorldsInv
<1>17. WorldsInv'
  <2>1. \A id \in DOMAIN worlds' : (Sound(worlds[id]))'
    BY <1>8, <1>15, <1>16 DEF WorldsInv, Sound
  <2>2. Authored(worlds', recipes')
    BY <1>1, <1>8, <1>11, <1>13, <1>16 DEF WorldsInv, Authored, SameBody
  <2>3. W!Cardinality(DOMAIN worlds') <= MaxWorlds
    BY <1>16, Zenon DEF WorldsInv
  <2>4. {open, inFront, due}' \subseteq BOOLEAN /\ (inFront' => open')
    BY <1>8 DEF WorldsInv
  <2>5. time' \in Nat /\ time' <= MaxTime
    BY <1>8 DEF WorldsInv
  <2> QED BY <1>16, <2>1, <2>2, <2>3, <2>4, <2>5 DEF WorldsInv
<1>18. ASSUME ShownInv PROVE ShownInv'
  <2>1. \A id \in DOMAIN worlds :
          /\ worlds'[id].running = worlds[id].running
          /\ (Owed(worlds[id], id \in resolved))' = Owed(worlds[id], id \in resolved)
    BY <1>1, <1>8, <1>13, <1>16 DEF Owed
  <2> QED BY <1>8, <1>16, <1>18, <2>1 DEF ShownInv
<1> QED BY <1>17, <1>18

\* Every step keeps the worlds; every step but a capture keeps what they owe.
LEMMA WorldsStep ==
  ASSUME W!World3DConstants, WorldsInv, [W!Next]_W!vars
  PROVE  WorldsInv' /\ (ShownInv /\ ~Captures => ShownInv')
<1>1. CASE W!Hook
  BY <1>1, HookStep
<1>2. CASE W!Capture \/ W!Switch \/ W!Elapse \/ UNCHANGED W!vars
  <2>1. WorldsInv' /\ (ShownInv /\ ~W!Capture => ShownInv')
    BY <1>2, QuietSteps
  <2>2. W!Capture => Captures
    BY DEF W!Capture
  <2> QED BY <2>1, <2>2
<1>3. CASE W!Close
  BY <1>3, CloseStep
<1>4. CASE \E s \in Sources : W!Open(s) \/ W!Reload(s)
  <2>1. PICK s \in Sources : W!Open(s) \/ W!Reload(s)
    BY <1>4
  <2> QED BY <2>1, OpenStep, ReloadStep
<1>5. CASE \E id \in DOMAIN worlds : \E b \in DOMAIN worlds[id].bodies : W!Reset(id, b)
  <2>1. PICK id \in DOMAIN worlds : \E b \in DOMAIN worlds[id].bodies : W!Reset(id, b)
    BY <1>5
  <2>2. PICK b \in DOMAIN worlds[id].bodies : W!Reset(id, b)
    BY <2>1
  <2> QED BY <2>2, ResetStep
<1> QED BY <1>1, <1>2, <1>3, <1>4, <1>5 DEF W!Next

LEMMA WorldsInvariant ==
  ASSUME W!World3DConstants
  PROVE  W!Spec => [](WorldsInv /\ (~Captures => ShownInv))
<1>1. W!Init => WorldsInv /\ (~Captures => ShownInv)
  BY InitWorlds
<1>2. WorldsInv /\ (~Captures => ShownInv) /\ [W!Next]_W!vars
        => (WorldsInv /\ (~Captures => ShownInv))'
  BY WorldsStep
<1> QED BY <1>1, <1>2, PTL DEF W!Spec

\* No clock is ahead of the time or keeps a step it could make, a clock that is
\* suspended keeps nothing, and worlds and bodies stay within their budgets
\* (World3d, FixedClock), whatever sources are loaded and reloaded.
THEOREM World3DTypeCorrect ==
  ASSUME W!World3DConstants
  PROVE  W!Spec => []W!TypeOK
<1>1. WorldsInv => W!TypeOK
  BY WorldsTypes
<1> QED BY <1>1, WorldsInvariant, PTL

\* The live worlds are those of the accepted source and hold its bodies, each with
\* the collider, kind and reset position the source gives it now (Host::reload,
\* World3d::reconcile): a refused source leaves the old ones, entirely.
THEOREM WorldsAreAuthored ==
  ASSUME W!World3DConstants
  PROVE  W!Spec => []W!AuthoredIsLive
<1>1. WorldsInv => W!AuthoredIsLive
  <2> SUFFICES ASSUME WorldsInv PROVE W!AuthoredIsLive
    OBVIOUS
  <2>1. DOMAIN worlds = DOMAIN recipes
    BY DEF WorldsInv, Authored
  <2>2. ASSUME NEW id \in DOMAIN worlds
        PROVE  /\ DOMAIN worlds[id].bodies = DOMAIN recipes[id]
               /\ \A b \in DOMAIN recipes[id] : SameBody(worlds[id].bodies[b], recipes[id][b])
    BY DEF WorldsInv, Authored
  <2>3. ASSUME NEW x, NEW spec, SameBody(x, spec)
        PROVE  [k \in {"shape", "dynamic", "position"} |-> x[k]]
                 = [k \in {"shape", "dynamic", "position"} |-> spec[k]]
    <3>1. \A k \in {"shape", "dynamic", "position"} : x[k] = spec[k]
      BY <2>3 DEF SameBody
    <3> QED BY <3>1
  <2> QED BY <2>1, <2>2, <2>3 DEF W!AuthoredIsLive
<1> QED BY <1>1, WorldsInvariant, PTL

\* No world is simulated for longer than the views of the frames resolved it (not:
\* than it was on the screen, which a card or another scene may have kept it from),
\* however frames, views, tabs, reloads and failures fall (Host::advance, FixedClock,
\* SceneHandle::resolve).  Screenshots are left out: their views resolve worlds for
\* the next frame's hook, too.
THEOREM OnlyViewedTime ==
  ASSUME W!World3DConstants, ~Captures
  PROVE  W!Spec => []W!SimulatedWasViewed
<1>1. WorldsInv /\ ShownInv => W!SimulatedWasViewed
  <2> SUFFICES ASSUME WorldsInv, ShownInv, NEW id \in DOMAIN worlds
               PROVE  W!STEP * worlds[id].tick <= visible[id]
    BY DEF W!SimulatedWasViewed
  <2>1. PICK w : w = worlds[id]
    OBVIOUS
  <2>2. /\ w.tick \in Nat /\ w.carry \in 0..1 /\ w.last \in Nat /\ w.last <= time /\ time \in Nat
    BY <2>1 DEF WorldsInv, Sound, IsWorld
  <2>3. Owed(w, id \in resolved) <= visible[id] /\ visible[id] \in Nat
    BY <2>1 DEF ShownInv
  <2>4. 2 * w.tick <= visible[id]
    BY <2>2, <2>3 DEF Owed
  <2> QED BY <2>1, <2>4 DEF W!STEP
<1> QED BY <1>1, WorldsInvariant, PTL

\* A world that was drawn and in which a body moves has a frame asked for (Host::next),
\* captures or not: nothing that moves stops to be drawn.
THEOREM MotionIsAsked ==
  W!Spec => []W!AwakeIsAsked
<1>1. W!Init => W!AwakeIsAsked
  BY DEF W!Init, W!AwakeIsAsked
<1>2. W!AwakeIsAsked /\ [W!Next]_W!vars => W!AwakeIsAsked'
  <2> SUFFICES ASSUME W!AwakeIsAsked, [W!Next]_W!vars, open', inFront',
                      NEW id \in painted' \intersect DOMAIN worlds', (W!NeedsTicks(worlds[id]))'
               PROVE  due'
    BY DEF W!AwakeIsAsked
  <2>1. ASSUME NEW ws, ws = worlds', NEW wanted, W!Draw(ws, wanted), open' = open, inFront' = inFront
        PROVE  due'
    <3>1. PICK left : /\ painted' \in {{}} \cup {{it} : it \in left}
                      /\ due' = (wanted \/ \E it \in left : W!NeedsTicks(ws[it]))
      BY <2>1 DEF W!Draw
    <3>2. W!NeedsTicks(ws[id]) /\ id \in left
      BY <2>1, <3>1 DEF W!NeedsTicks
    <3> QED BY <3>1, <3>2
  <2>2. CASE W!Hook \/ W!Capture
    BY <2>1, <2>2 DEF W!Hook, W!Capture
  <2>3. CASE due' = TRUE
    BY <2>3
  <2>4. CASE W!Elapse \/ UNCHANGED W!vars
    BY <2>4 DEF W!Elapse, W!onScreen, W!vars, W!AwakeIsAsked, W!NeedsTicks
  <2>5. W!Hook \/ W!Capture \/ due' = TRUE \/ W!Elapse \/ UNCHANGED W!vars
    BY DEF W!Next, W!Close, W!Switch, W!Open, W!Reload, W!Reset
  <2> QED BY <2>2, <2>3, <2>4, <2>5
<1> QED BY <1>1, <1>2, PTL DEF W!Spec

\* An accepted reload moves no body that stays and wakes or puts to sleep none, and
\* no step while the app is open turns a world's clock back (World3d::reconcile).
THEOREM PosesAreKept ==
  ASSUME W!World3DConstants
  PROVE  W!Spec => W!ReloadKeepsPoses
<1> DEFINE Keeps == (open /\ open' /\ (recipes' # recipes \/ time' = time)) =>
                      \A id \in DOMAIN worlds \intersect DOMAIN worlds' :
                        /\ worlds'[id].tick >= worlds[id].tick
                        /\ recipes' # recipes =>
                             \A b \in DOMAIN worlds[id].bodies \intersect DOMAIN worlds'[id].bodies :
                               /\ worlds'[id].bodies[b].at = worlds[id].bodies[b].at
                               /\ worlds'[id].bodies[b].awake = worlds[id].bodies[b].awake
<1>1. WorldsInv /\ [W!Next]_W!vars => Keeps
  <2> SUFFICES ASSUME WorldsInv, [W!Next]_W!vars, open, open',
                      NEW it \in DOMAIN worlds \intersect DOMAIN worlds'
               PROVE  /\ worlds'[it].tick >= worlds[it].tick
                      /\ recipes' # recipes =>
                           \A b \in DOMAIN worlds[it].bodies \intersect DOMAIN worlds'[it].bodies :
                             /\ worlds'[it].bodies[b].at = worlds[it].bodies[b].at
                             /\ worlds'[it].bodies[b].awake = worlds[it].bodies[b].awake
    OBVIOUS
  <2>1. worlds[it].tick \in Nat
    BY DEF WorldsInv, Sound, IsWorld
  <2>2. CASE W!Hook
    <3>1. recipes' = recipes
      BY <2>2 DEF W!Hook
    <3>2. PICK rest : worlds' = [id \in DOMAIN worlds |->
                                   W!Advance(worlds[id], time, W!Running(id, inFront), rest)]
      BY <2>2 DEF W!Hook
    <3> QED BY <3>1, <3>2, HookIs
  <2>3. CASE worlds' = worlds /\ recipes' = recipes
    BY <2>1, <2>3
  <2>4. CASE \E s \in Sources : W!Reload(s)
    <3>1. PICK s \in Sources : W!Reload(s)
      BY <2>4
    <3>2. CASE W!Accepts(s)
      <4>1. PICK rs : rs = s.recipes
        OBVIOUS
      <4>2. PICK n : n = worlds'
        OBVIOUS
      <4>3. /\ \A id \in DOMAIN worlds : IsWorld(worlds[id])
            /\ W!FitAll(worlds, rs) /\ n = W!ReconcileAll(worlds, rs)
        BY <3>1, <3>2, <4>1, <4>2 DEF W!Reload, W!onScreen, W!Accepts, WorldsInv, Sound
      <4>4. Remade(worlds, rs, n)
        BY <4>3, ReconcileAllIs
      <4> QED BY <2>1, <4>2, <4>4 DEF Remade
    <3>3. CASE ~W!Accepts(s)
      BY <2>1, <3>1, <3>3 DEF W!Reload, W!onScreen
    <3> QED BY <3>2, <3>3
  <2>5. CASE \E id \in DOMAIN worlds : \E b \in DOMAIN worlds[id].bodies : W!Reset(id, b)
    <3>1. PICK id \in DOMAIN worlds : \E b \in DOMAIN worlds[id].bodies : W!Reset(id, b)
      BY <2>5
    <3>2. PICK b \in DOMAIN worlds[id].bodies : W!Reset(id, b)
      BY <3>1
    <3>3. recipes' = recipes
      BY <3>2 DEF W!Reset, W!onScreen
    <3>4. PICK n : worlds' = [worlds EXCEPT ![id].bodies[b] = n]
      BY <3>2 DEF W!Reset, W!onScreen
    <3>5. PICK bs : bs = [worlds[id].bodies EXCEPT ![b] = n]
      OBVIOUS
    <3>6. worlds' = [worlds EXCEPT ![id] = [worlds[id] EXCEPT !.bodies = bs]]
      BY <3>4, <3>5
    <3>7. IsWorld(worlds[id])
      BY DEF WorldsInv, Sound
    <3>8. worlds'[it].tick = worlds[it].tick
      BY <3>6, <3>7 DEF IsWorld
    <3> QED BY <2>1, <3>3, <3>8
  <2>6. ~ \E s \in Sources : W!Open(s)
    BY DEF W!Open, W!onScreen
  <2>7. ~ W!Close
    BY DEF W!Close, W!onScreen
  <2>8. W!Capture \/ W!Switch \/ W!Elapse \/ UNCHANGED W!vars => worlds' = worlds /\ recipes' = recipes
    BY DEF W!Capture, W!Switch, W!Elapse, W!vars
  <2> QED BY <2>2, <2>3, <2>4, <2>5, <2>6, <2>7, <2>8 DEF W!Next
<1>2. W!Spec => []WorldsInv
  BY WorldsInvariant, PTL
<1> QED BY <1>1, <1>2, PTL DEF W!Spec, W!ReloadKeepsPoses
-----------------------------------------------------------------------------
(* Scroll: its layouts are not Gestures' *)

CONSTANTS Views, outer, inner, Deltas, Travels, Gain, MIN_THUMB, Window, Handled, MaxSent
VARIABLES shown, regions, store, live, pan, under, thumb, inputs, sent
Sc == INSTANCE Scroll WITH Layouts <- Views, view <- shown, hits <- regions, over <- under

\* Offsets are of the two scrollers, and hits of one frame's layout.
Ids == {outer, inner}
Sizes == [Sc!Axes -> Nat]
StoreIs(st) == DOMAIN st \subseteq Ids /\ \A id \in DOMAIN st : st[id] \in Sizes
IsHit(h) == h.id \in Ids /\ h.content \in Sizes /\ h.inner \in Sizes
HitsAre(hs) ==
  \E v \in Views :
    \/ hs = <<>>
    \/ hs = <<Sc!Hit(v, outer)>>
    \/ inner \in DOMAIN v.els /\ hs = <<Sc!Hit(v, outer), Sc!Hit(v, inner)>>
Thumb == [id : Ids, axis : Sc!Axes, from : Nat, content : Sizes, inner : Sizes, travel : Int]

ScrollInv ==
  /\ shown \in Views /\ StoreIs(store) /\ HitsAre(regions)
  /\ pan \in [Sc!Axes -> Int] /\ sent \in [Sc!Axes -> Int]
  /\ under \in Ids \cup {"camera", "handler", None} /\ (under \in Ids => regions # <<>>)
  /\ thumb # None => thumb \in Thumb

LEMMA ClampIs ==
  ASSUME NEW v \in Int, NEW hi \in Nat
  PROVE  /\ Sc!Clamp(v, hi) \in Nat /\ Sc!Clamp(v, hi) <= hi
         /\ v < 0 => Sc!Clamp(v, hi) = 0
         /\ v > hi => Sc!Clamp(v, hi) = hi
         /\ 0 <= v /\ v <= hi => Sc!Clamp(v, hi) = v
BY DEF Sc!Clamp

LEMMA ReachIs ==
  ASSUME NEW h, h.content \in Sizes, h.inner \in Sizes, NEW a \in Sc!Axes
  PROVE  Sc!Reach(h, a) \in Nat
<1>1. h.content[a] \in Nat /\ h.inner[a] \in Nat
  BY DEF Sizes
<1> QED BY <1>1 DEF Sc!Reach

LEMMA OffsetIs ==
  ASSUME NEW st, StoreIs(st), NEW id
  PROVE  Sc!Offset(st, id) \in Sizes
<1>1. Sc!Zero \in Sizes
  BY DEF Sc!Zero, Sizes
<1> QED BY <1>1 DEF StoreIs, Sc!Offset

LEMMA WithIs ==
  ASSUME NEW st, StoreIs(st), NEW id \in Ids, NEW o \in Sizes
  PROVE  /\ StoreIs(Sc!With(st, id, o)) /\ Sc!Offset(Sc!With(st, id, o), id) = o
         /\ \A k : k # id => Sc!Offset(Sc!With(st, id, o), k) = Sc!Offset(st, k)
<1> DEFINE w == [k \in DOMAIN st \cup {id} |-> IF k = id THEN o ELSE st[k]]
<1>1. Sc!With(st, id, o) = w
  BY DEF Sc!With
<1>2. DOMAIN w = DOMAIN st \cup {id}
  OBVIOUS
<1>3. w[id] = o /\ \A k \in DOMAIN st : k # id => w[k] = st[k]
  OBVIOUS
<1> HIDE DEF w
<1>4. StoreIs(w)
  BY <1>2, <1>3 DEF StoreIs
<1>5. ASSUME NEW k, k # id PROVE Sc!Offset(w, k) = Sc!Offset(st, k)
  BY <1>2, <1>3, <1>5 DEF Sc!Offset
<1> QED BY <1>1, <1>2, <1>3, <1>4, <1>5 DEF Sc!Offset

\* What one scroller takes of a wheel
Taken(acc, h, out) ==
  /\ StoreIs(out.store) /\ out.rem \in [Sc!Axes -> Int]
  /\ \A k : k # h.id => Sc!Offset(out.store, k) = Sc!Offset(acc.store, k)
  /\ \A a \in Sc!Axes :
       /\ acc.rem[a] = 0 => Sc!Offset(out.store, h.id)[a] = Sc!Offset(acc.store, h.id)[a]
       /\ acc.rem[a] # 0 =>
            Sc!Offset(out.store, h.id)[a]
              = Sc!Clamp(Sc!Offset(acc.store, h.id)[a] + acc.rem[a], Sc!Reach(h, a))
       /\ out.rem[a] = acc.rem[a] - (Sc!Offset(out.store, h.id)[a] - Sc!Offset(acc.store, h.id)[a])

LEMMA ByIs ==
  ASSUME NEW o \in Sizes, NEW a \in Sc!Axes, NEW d \in Int, NEW h,
         h.content \in Sizes, h.inner \in Sizes
  PROVE  /\ Sc!By(o, a, d, h).offset \in Sizes
         /\ Sc!By(o, a, d, h).offset[a] = Sc!Clamp(o[a] + d, Sc!Reach(h, a))
         /\ \A b \in Sc!Axes : b # a => Sc!By(o, a, d, h).offset[b] = o[b]
         /\ Sc!By(o, a, d, h).rem = d - (Sc!Clamp(o[a] + d, Sc!Reach(h, a)) - o[a])
<1>1. o[a] \in Nat /\ o[a] + d \in Int
  BY DEF Sizes
<1>2. PICK n \in Nat : n = Sc!Clamp(o[a] + d, Sc!Reach(h, a))
  BY <1>1, ReachIs, ClampIs
<1>3. Sc!By(o, a, d, h) = [offset |-> [o EXCEPT ![a] = n], rem |-> d - (n - o[a])]
  BY <1>2 DEF Sc!By
<1>4. [o EXCEPT ![a] = n] \in Sizes /\ [o EXCEPT ![a] = n][a] = n
      /\ \A b \in Sc!Axes : b # a => [o EXCEPT ![a] = n][b] = o[b]
  BY DEF Sizes
<1> QED BY <1>2, <1>3, <1>4

LEMMA TakeIs ==
  ASSUME NEW acc, StoreIs(acc.store), acc.rem \in [Sc!Axes -> Int], NEW h, IsHit(h)
  PROVE  Taken(acc, h, Sc!Take(acc, h))
<1>1. PICK st, rem, o : st = acc.store /\ rem = acc.rem /\ o = Sc!Offset(acc.store, h.id)
  OBVIOUS
<1>2. StoreIs(st) /\ rem \in [Sc!Axes -> Int] /\ o \in Sizes /\ h.id \in Ids
  BY <1>1, OffsetIs DEF IsHit
<1> DEFINE next == [a \in Sc!Axes |-> IF rem[a] = 0 THEN o[a] ELSE Sc!By(o, a, rem[a], h).offset[a]]
           left == [a \in Sc!Axes |-> IF rem[a] = 0 THEN 0 ELSE Sc!By(o, a, rem[a], h).rem]
           moved == \E a \in Sc!Axes : rem[a] # 0
           out == Sc!Take(acc, h)
<1>3. /\ out.store = (IF moved THEN Sc!With(st, h.id, next) ELSE st)
      /\ out.rem = left
  <2> DEFINE took == [a \in Sc!Axes |-> Sc!By(Sc!Offset(st, h.id), a, rem[a], h)]
  <2>1. out = [store |-> IF \E a \in Sc!Axes : rem[a] # 0
                         THEN Sc!With(st, h.id, [a \in Sc!Axes |-> IF rem[a] = 0 THEN Sc!Offset(st, h.id)[a]
                                                                   ELSE took[a].offset[a]])
                         ELSE st,
               live |-> IF \E a \in Sc!Axes : rem[a] # 0 THEN acc.live \cup {h.id} ELSE acc.live,
               rem |-> [a \in Sc!Axes |-> IF rem[a] = 0 THEN 0 ELSE took[a].rem]]
    BY <1>1, Zenon DEF Sc!Take
  <2>2. \A a \in Sc!Axes : took[a] = Sc!By(o, a, rem[a], h)
    BY <1>1
  <2> HIDE DEF took, out
  <2>3. /\ out.store = (IF moved THEN Sc!With(st, h.id, [a \in Sc!Axes |-> IF rem[a] = 0 THEN Sc!Offset(st, h.id)[a]
                                                                   ELSE took[a].offset[a]]) ELSE st)
        /\ out.rem = [a \in Sc!Axes |-> IF rem[a] = 0 THEN 0 ELSE took[a].rem]
    BY <2>1
  <2>4. [a \in Sc!Axes |-> IF rem[a] = 0 THEN Sc!Offset(st, h.id)[a] ELSE took[a].offset[a]] = next
    BY <1>1, <2>2
  <2>5. [a \in Sc!Axes |-> IF rem[a] = 0 THEN 0 ELSE took[a].rem] = left
    BY <2>2
  <2> QED BY <2>3, <2>4, <2>5
<1>4. ASSUME NEW a \in Sc!Axes
      PROVE  /\ next[a] \in Nat /\ left[a] \in Int /\ left[a] = rem[a] - (next[a] - o[a])
             /\ rem[a] = 0 => next[a] = o[a]
             /\ rem[a] # 0 => next[a] = Sc!Clamp(o[a] + rem[a], Sc!Reach(h, a))
  <2>1. rem[a] \in Int /\ o[a] \in Nat
    BY <1>2 DEF Sizes
  <2>2. CASE rem[a] = 0
    BY <2>1, <2>2
  <2>3. CASE rem[a] # 0
    <3>1. /\ Sc!By(o, a, rem[a], h).offset \in Sizes
          /\ Sc!By(o, a, rem[a], h).offset[a] = Sc!Clamp(o[a] + rem[a], Sc!Reach(h, a))
          /\ Sc!By(o, a, rem[a], h).rem = rem[a] - (Sc!Clamp(o[a] + rem[a], Sc!Reach(h, a)) - o[a])
      BY <1>2, <2>1, ByIs DEF IsHit
    <3>2. next[a] = Sc!By(o, a, rem[a], h).offset[a] /\ left[a] = Sc!By(o, a, rem[a], h).rem
      BY <2>3
    <3>3. next[a] \in Nat
      BY <3>1, <3>2 DEF Sizes
    <3> QED BY <2>1, <2>3, <3>1, <3>2, <3>3
  <2> QED BY <2>2, <2>3
<1>5. next \in Sizes /\ left \in [Sc!Axes -> Int]
  BY <1>4 DEF Sizes
<1> HIDE DEF next, left, out
<1>6. CASE moved
  <2>1. StoreIs(out.store) /\ Sc!Offset(out.store, h.id) = next
        /\ \A k : k # h.id => Sc!Offset(out.store, k) = Sc!Offset(st, k)
    BY <1>2, <1>3, <1>5, <1>6, WithIs
  <2> QED BY <1>1, <1>3, <1>4, <1>5, <2>1 DEF Taken, out
<1>7. CASE ~moved
  <2>1. out.store = st /\ \A a \in Sc!Axes : rem[a] = 0
    BY <1>3, <1>7
  <2>2. \A a \in Sc!Axes : left[a] = 0 - (o[a] - o[a]) /\ o[a] \in Nat
    BY <1>2, <1>4, <2>1 DEF Sizes
  <2> QED BY <1>1, <1>2, <1>3, <1>5, <2>1, <2>2 DEF Taken, out
<1> QED BY <1>6, <1>7

LEMMA HitIs ==
  ASSUME Sc!ScrollConstants, NEW v \in Views, NEW id \in DOMAIN v.els
  PROVE  IsHit(Sc!Hit(v, id)) /\ Sc!Hit(v, id).id = id
<1>1. v.els[id] \in Sc!Element /\ id \in Ids
  BY DEF Sc!ScrollConstants, Ids
<1> QED BY <1>1 DEF Sc!Hit, Sc!Element, IsHit, Sizes

LEMMA OuterIsDrawn ==
  ASSUME Sc!ScrollConstants, NEW v \in Views
  PROVE  /\ outer \in DOMAIN v.els /\ DOMAIN v.els \subseteq Ids
         /\ \A id \in DOMAIN v.els : v.els[id] \in Sc!Element
BY DEF Sc!ScrollConstants, Ids

OuterHits == {Sc!Hit(v, outer) : v \in Views}

\* The chain passes the inner one, if the pointer is over it, and then the outer one
InnerIsAway == under = inner => \A i \in DOMAIN regions : regions[i].id # inner
Passed(acc, out) ==
  \/ out = acc /\ InnerIsAway
  \/ InnerIsAway /\ \E h \in OuterHits : IsHit(h) /\ h.id = outer /\ Taken(acc, h, out)
  \/ \E h, mid : \E g \in OuterHits :
       /\ IsHit(h) /\ IsHit(g) /\ h.id = inner /\ g.id = outer
       /\ \A i \in DOMAIN regions : regions[i].id = inner => regions[i] = h
       /\ Taken(acc, h, mid) /\ Taken(mid, g, out)

LEMMA ChainIs ==
  ASSUME Sc!ScrollConstants, ScrollInv, NEW acc,
         StoreIs(acc.store), acc.rem \in [Sc!Axes -> Int]
  PROVE  Passed(acc, Sc!Chain(acc))
<1>1. PICK v \in Views :
        \/ regions = <<>>
        \/ regions = <<Sc!Hit(v, outer)>>
        \/ inner \in DOMAIN v.els /\ regions = <<Sc!Hit(v, outer), Sc!Hit(v, inner)>>
  BY DEF ScrollInv, HitsAre
<1>2. outer # inner
  BY DEF Sc!ScrollConstants
<1>3. PICK g : g = Sc!Hit(v, outer) /\ IsHit(g) /\ g.id = outer /\ g \in OuterHits
  BY OuterIsDrawn, HitIs DEF OuterHits
<1>4. CASE Sc!Under = <<>>
  <2>1. Sc!Chain(acc) = acc
    BY <1>4 DEF Sc!Chain, Sc!Through
  <2>2. InnerIsAway
    BY <1>2, <1>4 DEF Sc!Under, InnerIsAway
  <2> QED BY <2>1, <2>2 DEF Passed
<1>5. CASE Sc!Under = <<g>>
  <2>1. Sc!Chain(acc) = Sc!Take(acc, g)
    <3>1. DOMAIN Sc!Under = {1} /\ Sc!Under[1] = g
      BY <1>5
    <3> QED BY <3>1 DEF Sc!Chain, Sc!Through
  <2>2. ASSUME under = inner, NEW i \in DOMAIN regions PROVE regions[i].id # inner
    <3>1. regions = <<g>>
      BY <1>5, <2>2 DEF Sc!Under
    <3> QED BY <1>2, <1>3, <2>2, <3>1
  <2> QED BY <1>3, <2>1, <2>2, TakeIs DEF Passed, InnerIsAway
<1>6. CASE inner \in DOMAIN v.els /\ Sc!Under = <<g, Sc!Hit(v, inner)>>
  <2>1. PICK h : h = Sc!Hit(v, inner) /\ IsHit(h) /\ h.id = inner
    BY <1>6, HitIs
  <2>2. DOMAIN Sc!Under = {1, 2} /\ Sc!Under[1] = g /\ Sc!Under[2] = h
    BY <1>6, <2>1
  <2>3. PICK mid : mid = Sc!Take(acc, h)
    OBVIOUS
  <2>4. Taken(acc, h, mid)
    BY <2>1, <2>3, TakeIs
  <2>5. Sc!Chain(acc) = Sc!Take(mid, g)
    BY <2>2, <2>3 DEF Sc!Chain, Sc!Through
  <2>6. Taken(mid, g, Sc!Chain(acc))
    <3>1. StoreIs(mid.store) /\ mid.rem \in [Sc!Axes -> Int]
      BY <2>4 DEF Taken
    <3> QED BY <1>3, <2>5, <3>1, TakeIs
  <2>7. ASSUME NEW i \in DOMAIN regions, regions[i].id = inner PROVE regions[i] = h
    <3>1. regions = <<g>> \/ regions = <<g, h>> \/ regions = <<>>
      BY <1>1, <1>3, <2>1
    <3> QED BY <1>2, <1>3, <2>7, <3>1
  <2> QED BY <1>3, <2>1, <2>4, <2>6, <2>7 DEF Passed
<1>7. \/ Sc!Under = <<>>
      \/ Sc!Under = <<g>>
      \/ inner \in DOMAIN v.els /\ Sc!Under = <<g, Sc!Hit(v, inner)>>
  <2>1. CASE under \notin Ids
    <3>1. under # inner /\ under # outer
      BY <2>1 DEF Ids
    <3> QED BY <3>1, Zenon DEF Sc!Under
  <2>2. CASE under = inner
    <3>1. Sc!Under = regions /\ regions # <<>>
      BY <2>2 DEF Sc!Under, ScrollInv, Ids
    <3> QED BY <1>1, <1>3, <3>1
  <2>3. CASE under = outer
    <3>1. regions[1] = g
      BY <1>1, <1>3, <2>3 DEF ScrollInv, Ids
    <3>2. SubSeq(regions, 1, 1) \in Seq({g}) /\ Len(SubSeq(regions, 1, 1)) = 1
          /\ SubSeq(regions, 1, 1)[1] = g
      <4>1. \A i \in 1..1 : regions[i] \in {g}
        BY <3>1
      <4> QED BY <3>1, <4>1, SubSeqProperties
    <3>3. SubSeq(regions, 1, 1) = <<g>>
      <4>1. <<g>> \in Seq({g}) /\ Len(<<g>>) = 1 /\ <<g>>[1] = g
        OBVIOUS
      <4>2. \A i \in 1..1 : SubSeq(regions, 1, 1)[i] = <<g>>[i]
        BY <3>2, <4>1
      <4>3. PICK s \in Seq({g}), t \in Seq({g}) : s = SubSeq(regions, 1, 1) /\ t = <<g>>
        BY <3>2, <4>1
      <4> QED BY <3>2, <4>1, <4>2, <4>3, SeqEqual
    <3>4. Sc!Under = SubSeq(regions, 1, 1)
      BY <1>2, <2>3, Zenon DEF Sc!Under
    <3> QED BY <3>3, <3>4
  <2> QED BY <2>1, <2>2, <2>3 DEF Ids
<1> QED BY <1>4, <1>5, <1>6, <1>7

LEMMA TwoInARow ==
  ASSUME NEW S, NEW s \in Seq(S), NEW t \in Seq(S), NEW u \in Seq(S), NEW w, w = s \o t,
         Len(s) = 1, Len(t) = 1, Len(u) = 2, u[1] = s[1], u[2] = t[1]
  PROVE  w = u
<1>1. w \in Seq(S) /\ Len(w) = Len(s) + Len(t)
      /\ \A i \in 1..(Len(s) + Len(t)) : w[i] = IF i <= Len(s) THEN s[i] ELSE t[i - Len(s)]
  BY ConcatProperties
<1>2. Len(w) = 2 /\ \A i \in 1..2 : w[i] = IF i <= 1 THEN s[i] ELSE t[i - 1]
  BY <1>1
<1>3. \A i \in 1..2 : w[i] = u[i]
  BY <1>2
<1> QED BY <1>1, <1>2, <1>3, SeqEqual

LEMMA BothDrawn == <<outer>> \o <<inner>> = <<outer, inner>>
<1>1. <<outer>> \in Seq(Ids) /\ <<inner>> \in Seq(Ids) /\ <<outer, inner>> \in Seq(Ids)
  BY DEF Ids
<1>2. PICK s \in Seq(Ids), t \in Seq(Ids), u \in Seq(Ids) :
        s = <<outer>> /\ t = <<inner>> /\ u = <<outer, inner>>
  BY <1>1
<1>3. Len(s) = 1 /\ Len(t) = 1 /\ Len(u) = 2 /\ u[1] = s[1] /\ u[2] = t[1]
  BY <1>2
<1>4. s \o t = u
  BY <1>3, TwoInARow
<1> QED BY <1>2, <1>4

\* What a frame draws, from the outermost
LEMMA DrawnIs ==
  ASSUME Sc!ScrollConstants, NEW v \in Views, NEW st
  PROVE  \/ Sc!Drawn(v, st) = <<outer>>
         \/ Sc!Drawn(v, st) = <<outer, inner>> /\ inner \in DOMAIN v.els /\ Sc!Visible(v, st, inner)
<1> DEFINE first == IF outer \in DOMAIN v.els /\ Sc!Visible(v, st, outer) THEN <<outer>> ELSE <<>>
           second == IF inner \in DOMAIN v.els /\ Sc!Visible(v, st, inner) THEN <<inner>> ELSE <<>>
<1>1. Sc!Drawn(v, st) = first \o second
  BY DEF Sc!Drawn
<1>2. first = <<outer>>
  BY OuterIsDrawn DEF Sc!Visible
<1>3. <<outer>> \o <<>> = <<outer>>
  OBVIOUS
<1>4. <<outer>> \o <<inner>> = <<outer, inner>>
  BY BothDrawn
<1> QED BY <1>1, <1>2, <1>3, <1>4

LEMMA DrawnHits ==
  ASSUME Sc!ScrollConstants, NEW v \in Views, NEW st, NEW ids, ids = Sc!Drawn(v, st)
  PROVE  /\ HitsAre([i \in DOMAIN ids |-> Sc!Hit(v, ids[i])])
         /\ [i \in DOMAIN ids |-> Sc!Hit(v, ids[i])] # <<>>
         /\ {ids[i] : i \in DOMAIN ids} \subseteq Ids \cap DOMAIN v.els
         /\ outer \in {ids[i] : i \in DOMAIN ids}
<1> DEFINE hs == [i \in DOMAIN ids |-> Sc!Hit(v, ids[i])]
<1>1. CASE ids = <<outer>>
  <2>1. hs = <<Sc!Hit(v, outer)>> /\ {ids[i] : i \in DOMAIN ids} = {outer}
    BY <1>1
  <2>2. hs # <<>>
    BY <2>1
  <2> QED BY <2>1, <2>2, OuterIsDrawn DEF HitsAre, Ids
<1>2. CASE ids = <<outer, inner>> /\ inner \in DOMAIN v.els
  <2>1. DOMAIN ids = {1, 2} /\ ids[1] = outer /\ ids[2] = inner
    BY <1>2
  <2>2. hs = <<Sc!Hit(v, outer), Sc!Hit(v, inner)>>
    BY <1>2
  <2>3. {ids[i] : i \in DOMAIN ids} = {outer, inner}
    BY <2>1
  <2>4. hs # <<>>
    BY <2>2
  <2> QED BY <1>2, <2>2, <2>3, <2>4, OuterIsDrawn DEF HitsAre, Ids
<1> QED BY <1>1, <1>2, DrawnIs

\* A frame keeps the offset of whatever it draws
LEMMA SweepIs ==
  ASSUME NEW st, StoreIs(st), NEW drawn, drawn \subseteq Ids, NEW kept
  PROVE  /\ StoreIs(Sc!Sweep(Sc!Marked(st, drawn), kept))
         /\ \A id \in drawn \cap kept :
              Sc!Offset(Sc!Sweep(Sc!Marked(st, drawn), kept), id) = Sc!Offset(st, id)
<1> DEFINE m == [id \in DOMAIN st \cup drawn |-> Sc!Offset(st, id)]
           w == [id \in DOMAIN m \cap kept |-> m[id]]
<1>1. Sc!Sweep(Sc!Marked(st, drawn), kept) = w
  BY DEF Sc!Sweep, Sc!Marked
<1>2. DOMAIN m = DOMAIN st \cup drawn /\ \A id \in DOMAIN m : m[id] = Sc!Offset(st, id)
  OBVIOUS
<1> HIDE DEF m
<1>3. DOMAIN w = DOMAIN m \cap kept /\ \A id \in DOMAIN w : w[id] = m[id]
  OBVIOUS
<1> HIDE DEF w
<1>4. StoreIs(w)
  BY <1>2, <1>3, OffsetIs DEF StoreIs
<1>5. \A id \in drawn \cap kept : Sc!Offset(w, id) = Sc!Offset(st, id)
  BY <1>2, <1>3 DEF Sc!Offset
<1> QED BY <1>1, <1>4, <1>5

\* A field comes into view if it fits
LEMMA KeepInViewIs ==
  ASSUME Sc!ScrollConstants, NEW v \in Views, v.field # None, NEW st, StoreIs(st)
  PROVE  /\ StoreIs(Sc!KeepInView(v, st))
         /\ (v.field[2] - v.field[1] <= v.els[outer].inner.y /\ v.field[2] <= v.els[outer].content.y)
              => /\ Sc!Offset(Sc!KeepInView(v, st), outer).y <= v.field[1]
                 /\ v.field[2] <= Sc!Offset(Sc!KeepInView(v, st), outer).y + v.els[outer].inner.y
<1>1. PICK e, cur, near, far :
        /\ e = v.els[outer] /\ cur = Sc!Offset(st, outer).y /\ near = v.field[1] /\ far = v.field[2]
  OBVIOUS
<1>2. e.content \in Sizes /\ e.inner \in Sizes
  BY <1>1, OuterIsDrawn DEF Sc!Element, Sizes
<1>3. near \in Nat /\ far \in Nat /\ near <= far
  BY <1>1 DEF Sc!ScrollConstants
<1>4. "y" \in Sc!Axes
  BY DEF Sc!Axes
<1>5. cur \in Nat /\ e.inner.y \in Nat /\ e.content.y \in Nat
  BY <1>1, <1>2, <1>4, OffsetIs DEF Sizes
<1>6. PICK r : r = Sc!Reach(e, "y")
  OBVIOUS
<1>7. r = IF e.content.y > e.inner.y THEN e.content.y - e.inner.y ELSE 0
  BY <1>6 DEF Sc!Reach
<1>8. PICK wanted : wanted = (IF near < cur THEN near
                              ELSE IF far > cur + e.inner.y THEN far - e.inner.y ELSE cur)
  OBVIOUS
<1>9. wanted \in Int /\ r \in Nat
  BY <1>3, <1>5, <1>7, <1>8
<1>10. PICK n \in Nat : n = Sc!Clamp(wanted, r)
  BY <1>9, ClampIs
<1>11. Sc!KeepInView(v, st) = Sc!With(st, outer, [Sc!Offset(st, outer) EXCEPT !.y = n])
  BY <1>1, <1>6, <1>8, <1>10 DEF Sc!KeepInView
<1>12. [Sc!Offset(st, outer) EXCEPT !.y = n] \in Sizes /\ [Sc!Offset(st, outer) EXCEPT !.y = n].y = n
  BY <1>4, OffsetIs DEF Sizes
<1>13. StoreIs(Sc!KeepInView(v, st)) /\ Sc!Offset(Sc!KeepInView(v, st), outer).y = n
  <2>1. PICK o \in Sizes : o = [Sc!Offset(st, outer) EXCEPT !.y = n] /\ o.y = n
    BY <1>12
  <2>2. outer \in Ids
    BY DEF Ids
  <2>3. Sc!KeepInView(v, st) = Sc!With(st, outer, o)
    BY <1>11, <2>1
  <2>4. StoreIs(Sc!With(st, outer, o)) /\ Sc!Offset(Sc!With(st, outer, o), outer) = o
    BY <2>2, WithIs
  <2> QED BY <2>1, <2>3, <2>4
<1>14. ASSUME far - near <= e.inner.y, far <= e.content.y
       PROVE  n <= near /\ far <= n + e.inner.y
  <2>1. n = IF wanted < 0 THEN 0 ELSE IF wanted > r THEN r ELSE wanted
    BY <1>10 DEF Sc!Clamp
  <2> QED BY <1>3, <1>5, <1>7, <1>8, <1>14, <2>1
<1> QED BY <1>1, <1>13, <1>14

LEMMA ScrollInit ==
  ASSUME Sc!ScrollConstants, Sc!Init
  PROVE  ScrollInv
<1>1. Sc!Zero \in [Sc!Axes -> Int]
  BY DEF Sc!Zero
<1>2. StoreIs(store)
  BY DEF Sc!Init, StoreIs
<1>3. HitsAre(regions)
  BY DEF Sc!Init, HitsAre
<1>4. under \in Ids => regions # <<>>
  BY DEF Sc!Init, Sc!ScrollConstants, Ids
<1> QED BY <1>1, <1>2, <1>3, <1>4 DEF Sc!Init, ScrollInv

LEMMA PaintKeepsScroll ==
  ASSUME Sc!ScrollConstants, ScrollInv, Sc!PaintFrame
  PROVE  /\ ScrollInv'
         /\ (shown.field # None /\ ~inputs
               /\ shown.field[2] - shown.field[1] <= shown.els[outer].inner.y
               /\ shown.field[2] <= shown.els[outer].content.y)
            => /\ Sc!Offset(store', outer).y <= shown.field[1]
               /\ shown.field[2] <= Sc!Offset(store', outer).y + shown.els[outer].inner.y
<1>1. PICK ids, drawn, focuses, scrolled :
        /\ ids = Sc!Drawn(shown, store) /\ drawn = {ids[i] : i \in DOMAIN ids}
        /\ focuses = (shown.field # None /\ ~inputs)
        /\ scrolled = IF focuses THEN Sc!KeepInView(shown, store) ELSE store
  OBVIOUS
<1>2. /\ regions' = [i \in DOMAIN ids |-> Sc!Hit(shown, ids[i])]
      /\ store' = Sc!Sweep(Sc!Marked(scrolled, drawn), live \cup drawn)
      /\ UNCHANGED <<shown, pan, under, thumb, sent>>
  BY <1>1 DEF Sc!PaintFrame
<1>3. HitsAre(regions') /\ regions' # <<>> /\ drawn \subseteq Ids /\ outer \in drawn
  BY <1>1, <1>2, DrawnHits DEF ScrollInv
<1>4. StoreIs(scrolled)
  BY <1>1, KeepInViewIs DEF ScrollInv
<1>5. StoreIs(store') /\ Sc!Offset(store', outer) = Sc!Offset(scrolled, outer)
  BY <1>2, <1>3, <1>4, SweepIs
<1>6. ScrollInv'
  BY <1>2, <1>3, <1>5 DEF ScrollInv, HitsAre, StoreIs
<1> QED BY <1>1, <1>5, <1>6, KeepInViewIs DEF ScrollInv

LEMMA WheelKeepsScroll ==
  ASSUME Sc!ScrollConstants, ScrollInv, NEW d \in Deltas, Sc!Wheel(d)
  PROVE  ScrollInv'
<1> DEFINE acc == [store |-> store, live |-> live, rem |-> d]
<1>1. PICK out : out = Sc!Chain(acc)
  OBVIOUS
<1>2. /\ store' = out.store /\ pan' = [a \in Sc!Axes |-> pan[a] - out.rem[a]]
      /\ sent' = [a \in Sc!Axes |-> sent[a] + d[a]]
      /\ UNCHANGED <<shown, regions, under, thumb>>
  BY <1>1 DEF Sc!Wheel
<1>3. d \in [Sc!Axes -> Int] /\ StoreIs(acc.store) /\ acc.rem \in [Sc!Axes -> Int]
  BY DEF Sc!ScrollConstants, ScrollInv
<1> HIDE DEF acc
<1>4. StoreIs(out.store) /\ out.rem \in [Sc!Axes -> Int]
  <2>1. Passed(acc, out)
    BY <1>1, <1>3, ChainIs
  <2> QED BY <1>3, <2>1 DEF Passed, Taken
<1>5. pan' \in [Sc!Axes -> Int] /\ sent' \in [Sc!Axes -> Int]
  BY <1>2, <1>3, <1>4 DEF ScrollInv
<1> QED BY <1>2, <1>4, <1>5 DEF ScrollInv, StoreIs, HitsAre

\* A thumb puts the offset where the pointer asks, whatever it was
LEMMA DragIs ==
  ASSUME Sc!ScrollConstants, ScrollInv, NEW t \in Travels, Sc!DragThumb(t)
  PROVE  /\ ScrollInv'
         /\ Window => Sc!Offset(store', thumb.id)[thumb.axis]
                        = Sc!Clamp(thumb.from + t * Gain, Sc!Reach(thumb, thumb.axis))
<1>1. PICK id, axis, from, content, size :
        /\ id = thumb.id /\ axis = thumb.axis /\ from = thumb.from
        /\ content = thumb.content /\ size = thumb.inner
  OBVIOUS
<1>2. thumb # None /\ thumb \in Thumb
  BY DEF ScrollInv, Sc!DragThumb
<1>3. id \in Ids /\ axis \in Sc!Axes /\ from \in Nat /\ content \in Sizes /\ size \in Sizes
  BY <1>1, <1>2 DEF Thumb
<1>4. thumb' = [thumb EXCEPT !.travel = t] /\ t \in Int /\ Gain \in Int
  BY DEF Sc!DragThumb, Sc!ScrollConstants
<1>5. thumb' \in Thumb /\ thumb'.id = id
  BY <1>1, <1>2, <1>4 DEF Thumb
<1>6. UNCHANGED <<shown, regions, pan, under, sent>>
  BY DEF Sc!DragThumb
<1>7. PICK cur, wanted : cur = Sc!Offset(store, id) /\ wanted = from + t * Gain
  OBVIOUS
<1>8. cur \in Sizes /\ wanted \in Int
  BY <1>3, <1>4, <1>7, OffsetIs DEF ScrollInv
<1>9. cur[axis] \in Nat /\ cur[axis] + (wanted - cur[axis]) = wanted /\ wanted - cur[axis] \in Int
  BY <1>3, <1>8 DEF Sizes
<1>10. ASSUME Window
       PROVE  StoreIs(store') /\ Sc!Offset(store', id)[axis] = Sc!Clamp(wanted, Sc!Reach(thumb, axis))
  <2>1. PICK o : o = Sc!By(cur, axis, wanted - cur[axis], thumb).offset
    OBVIOUS
  <2>2. store' = Sc!With(store, id, o)
    BY <1>1, <1>7, <1>10, <2>1 DEF Sc!DragThumb, Sc!Desired
  <2>3. o \in Sizes /\ o[axis] = Sc!Clamp(wanted, Sc!Reach(thumb, axis))
    <3>1. thumb.content \in Sizes /\ thumb.inner \in Sizes
      BY <1>1, <1>3
    <3>2. PICK dd \in Int : dd = wanted - cur[axis] /\ cur[axis] + dd = wanted
      BY <1>9
    <3>3. o = Sc!By(cur, axis, dd, thumb).offset
      BY <2>1, <3>2
    <3> QED BY <1>3, <1>8, <3>1, <3>2, <3>3, ByIs
  <2>4. StoreIs(store)
    BY DEF ScrollInv
  <2> QED BY <1>3, <2>2, <2>3, <2>4, WithIs
<1>11. StoreIs(store')
  <2>1. CASE Window
    BY <1>10, <2>1
  <2>2. CASE ~Window
    BY <2>2 DEF Sc!DragThumb, ScrollInv, StoreIs
  <2> QED BY <2>1, <2>2
<1>12. ScrollInv'
  BY <1>4, <1>5, <1>6, <1>11 DEF ScrollInv, HitsAre
<1> QED BY <1>1, <1>7, <1>10, <1>12

LEMMA PressKeepsScroll ==
  ASSUME Sc!ScrollConstants, ScrollInv, NEW i \in DOMAIN regions, NEW a \in Sc!Axes, Sc!PressThumb(i, a)
  PROVE  ScrollInv'
<1>1. IsHit(regions[i])
  <2>1. PICK v \in Views :
        \/ regions = <<>>
        \/ regions = <<Sc!Hit(v, outer)>>
        \/ inner \in DOMAIN v.els /\ regions = <<Sc!Hit(v, outer), Sc!Hit(v, inner)>>
    BY DEF ScrollInv, HitsAre
  <2>2. IsHit(Sc!Hit(v, outer)) /\ (inner \in DOMAIN v.els => IsHit(Sc!Hit(v, inner)))
    BY OuterIsDrawn, HitIs
  <2> QED BY <2>1, <2>2
<1>2. Sc!Offset(store, regions[i].id)[a] \in Nat
  BY OffsetIs DEF ScrollInv, Sizes
<1>3. thumb' \in Thumb
  BY <1>1, <1>2 DEF Sc!PressThumb, Thumb, IsHit
<1> QED BY <1>3 DEF Sc!PressThumb, ScrollInv, HitsAre, StoreIs

LEMMA OtherStepsKeepScroll ==
  ASSUME Sc!ScrollConstants, ScrollInv,
         \/ Sc!Release \/ Sc!HandledWheel
         \/ \E v \in Views : Sc!Update(v)
         \/ \E p \in {outer, inner, "camera", None} \cup (IF Handled THEN {"handler"} ELSE {}) : Sc!PointerTo(p)
         \/ UNCHANGED Sc!vars
  PROVE  ScrollInv' /\ store' = store /\ pan' = pan /\ sent' = sent /\ regions' = regions
<1>1. ASSUME UNCHANGED Sc!vars PROVE ScrollInv' /\ UNCHANGED <<store, pan, sent, regions>>
  BY <1>1 DEF Sc!vars, ScrollInv, HitsAre, StoreIs
<1>2. CASE Sc!Release
  BY <1>2 DEF Sc!Release, ScrollInv, HitsAre, StoreIs
<1>3. CASE Sc!HandledWheel
  BY <1>1, <1>3 DEF Sc!HandledWheel
<1>4. ASSUME NEW v \in Views, Sc!Update(v) PROVE ScrollInv' /\ UNCHANGED <<store, pan, sent, regions>>
  BY <1>4 DEF Sc!Update, ScrollInv, HitsAre, StoreIs
<1>5. ASSUME NEW p \in {outer, inner, "camera", None} \cup (IF Handled THEN {"handler"} ELSE {}), Sc!PointerTo(p)
      PROVE ScrollInv' /\ UNCHANGED <<store, pan, sent, regions>>
  <2>1. p \in Ids \cup {"camera", "handler", None}
    BY DEF Ids
  <2>2. under' = p /\ UNCHANGED <<shown, regions, store, pan, thumb, sent>>
    BY <1>5 DEF Sc!PointerTo
  <2>3. p \in Ids => regions # <<>>
    BY <1>5 DEF Sc!PointerTo, Ids
  <2> QED BY <2>1, <2>2, <2>3 DEF ScrollInv, HitsAre, StoreIs
<1> QED BY <1>1, <1>2, <1>3, <1>4, <1>5

\* Scroll::by stops a scroller only at the end it moves to
LEMMA WheelGoesInsideOut ==
  ASSUME Sc!ScrollConstants, ScrollInv, NEW d \in Deltas, Sc!Wheel(d), under = inner,
         NEW i \in DOMAIN regions, regions[i].id = inner, NEW a \in Sc!Axes,
         Sc!Offset(store, inner)[a] <= Sc!Reach(regions[i], a),
         Sc!Offset(store', outer)[a] # Sc!Offset(store, outer)[a] \/ pan'[a] # pan[a]
  PROVE  Sc!Offset(store', inner)[a] = IF sent'[a] < sent[a] THEN 0 ELSE Sc!Reach(regions[i], a)
<1> DEFINE acc == [store |-> store, live |-> live, rem |-> d]
<1>1. PICK out : out = Sc!Chain(acc)
  OBVIOUS
<1>2. /\ store' = out.store /\ pan' = [b \in Sc!Axes |-> pan[b] - out.rem[b]]
      /\ sent' = [b \in Sc!Axes |-> sent[b] + d[b]]
  BY <1>1 DEF Sc!Wheel
<1>3. d \in [Sc!Axes -> Int] /\ StoreIs(acc.store) /\ acc.rem \in [Sc!Axes -> Int]
      /\ acc.store = store /\ acc.rem = d
  BY DEF Sc!ScrollConstants, ScrollInv
<1> HIDE DEF acc
<1>4. PICK h, mid : \E g \in OuterHits :
        /\ IsHit(h) /\ IsHit(g) /\ h.id = inner /\ g.id = outer /\ regions[i] = h
        /\ Taken(acc, h, mid) /\ Taken(mid, g, out)
  <2>1. Passed(acc, out) /\ ~InnerIsAway
    BY <1>1, <1>3, ChainIs DEF InnerIsAway
  <2> QED BY <2>1 DEF Passed
<1>5. PICK g \in OuterHits :
        /\ IsHit(h) /\ IsHit(g) /\ h.id = inner /\ g.id = outer /\ regions[i] = h
        /\ Taken(acc, h, mid) /\ Taken(mid, g, out)
  BY <1>4
<1>6. inner # outer
  BY DEF Sc!ScrollConstants
<1>7. PICK o, m, r \in Nat : /\ o = Sc!Offset(store, inner)[a] /\ m = Sc!Offset(mid.store, inner)[a]
                             /\ r = Sc!Reach(regions[i], a)
  <2>1. StoreIs(store) /\ StoreIs(mid.store) /\ IsHit(regions[i])
    BY <1>5 DEF ScrollInv, Taken
  <2> QED BY <2>1, OffsetIs, ReachIs DEF Sizes, IsHit
<1>8. PICK x \in Int : x = d[a]
  BY <1>3
<1>9. /\ x = 0 => m = o
      /\ x # 0 => m = Sc!Clamp(o + x, r)
      /\ mid.rem[a] = x - (m - o)
  BY <1>3, <1>5, <1>7, <1>8 DEF Taken
<1>10. Sc!Offset(store', inner)[a] = m
  BY <1>2, <1>5, <1>6, <1>7 DEF Taken
<1>11. mid.rem[a] # 0
  <2>1. SUFFICES ASSUME mid.rem[a] = 0 PROVE FALSE
    OBVIOUS
  <2>2. Sc!Offset(out.store, outer)[a] = Sc!Offset(mid.store, outer)[a]
    BY <1>5, <2>1 DEF Taken
  <2>3. Sc!Offset(mid.store, outer)[a] = Sc!Offset(store, outer)[a]
    BY <1>3, <1>5, <1>6 DEF Taken
  <2>4. PICK n \in Nat : n = Sc!Offset(mid.store, outer)[a]
    BY <1>5, OffsetIs DEF Taken, Sizes
  <2>5. out.rem[a] = 0 - (n - n)
    BY <1>5, <2>1, <2>2, <2>4 DEF Taken
  <2>6. pan'[a] = pan[a]
    <3>1. pan[a] \in Int /\ out.rem[a] = 0
      BY <2>5 DEF ScrollInv
    <3> QED BY <1>2, <3>1
  <2> QED BY <1>2, <2>2, <2>3, <2>6
<1>12. sent'[a] = sent[a] + x /\ sent[a] \in Int
  BY <1>2, <1>8 DEF ScrollInv
<1>13. m = IF x < 0 THEN 0 ELSE r
  BY <1>7, <1>8, <1>9, <1>11 DEF Sc!Clamp
<1> QED BY <1>7, <1>8, <1>10, <1>12, <1>13

\* What the three of them have moved, and how far down the outer one may stand
LEMMA WheelIsSpent ==
  ASSUME Sc!ScrollConstants, ScrollInv, NEW d \in Deltas, Sc!Wheel(d)
  PROVE  /\ Sc!Conserved => Sc!Conserved'
         /\ \/ Sc!Offset(store', outer) = Sc!Offset(store, outer)
            \/ \E w \in Views : \A a \in Sc!Axes :
                 \/ Sc!Offset(store', outer)[a] = Sc!Offset(store, outer)[a]
                 \/ Sc!Offset(store', outer)[a] <= Sc!Reach(w.els[outer], a)
<1> DEFINE acc == [store |-> store, live |-> live, rem |-> d]
<1>1. PICK out : out = Sc!Chain(acc)
  OBVIOUS
<1>2. /\ store' = out.store /\ pan' = [b \in Sc!Axes |-> pan[b] - out.rem[b]]
      /\ sent' = [b \in Sc!Axes |-> sent[b] + d[b]]
  BY <1>1 DEF Sc!Wheel
<1>3. d \in [Sc!Axes -> Int] /\ StoreIs(acc.store) /\ acc.rem \in [Sc!Axes -> Int]
      /\ acc.store = store /\ acc.rem = d
  BY DEF Sc!ScrollConstants, ScrollInv
<1>4. inner # outer
  BY DEF Sc!ScrollConstants
<1> HIDE DEF acc
<1>5. ASSUME NEW h \in OuterHits, NEW before, StoreIs(before.store), before.rem \in [Sc!Axes -> Int],
             IsHit(h), h.id = outer, Taken(before, h, out)
      PROVE  /\ \E w \in Views : \A a \in Sc!Axes :
                  \/ Sc!Offset(out.store, outer)[a] = Sc!Offset(before.store, outer)[a]
                  \/ Sc!Offset(out.store, outer)[a] <= Sc!Reach(w.els[outer], a)
             /\ \A a \in Sc!Axes : out.rem[a] = before.rem[a]
                  - (Sc!Offset(out.store, outer)[a] - Sc!Offset(before.store, outer)[a])
             /\ Sc!Offset(out.store, inner) = Sc!Offset(before.store, inner)
  <2>1. PICK w \in Views : h = Sc!Hit(w, outer)
    BY <1>5 DEF OuterHits
  <2>2. ASSUME NEW a \in Sc!Axes, before.rem[a] # 0
        PROVE  Sc!Offset(out.store, outer)[a] <= Sc!Reach(w.els[outer], a)
    <3>1. Sc!Reach(h, a) = Sc!Reach(w.els[outer], a)
      BY <2>1 DEF Sc!Hit, Sc!Reach
    <3>2. Sc!Offset(before.store, outer)[a] \in Nat /\ before.rem[a] \in Int /\ Sc!Reach(h, a) \in Nat
      BY <1>5, OffsetIs, ReachIs DEF Sizes, IsHit
    <3>3. PICK z \in Int : z = Sc!Offset(before.store, outer)[a] + before.rem[a]
      BY <3>2
    <3>4. Sc!Clamp(z, Sc!Reach(h, a)) <= Sc!Reach(h, a)
      BY <3>2, ClampIs
    <3>5. Sc!Offset(out.store, outer)[a] = Sc!Clamp(z, Sc!Reach(h, a))
      BY <1>5, <2>2, <3>3 DEF Taken
    <3> QED BY <3>1, <3>4, <3>5
  <2>3. \A a \in Sc!Axes : before.rem[a] = 0 =>
          Sc!Offset(out.store, outer)[a] = Sc!Offset(before.store, outer)[a]
    BY <1>5 DEF Taken
  <2> QED BY <1>4, <1>5, <2>2, <2>3 DEF Taken
<1>6. ASSUME \A a \in Sc!Axes :
               out.rem[a] = d[a] - (Sc!Offset(out.store, outer)[a] - Sc!Offset(store, outer)[a])
                                 - (Sc!Offset(out.store, inner)[a] - Sc!Offset(store, inner)[a]),
             StoreIs(out.store), Sc!Conserved
      PROVE  Sc!Conserved'
  <2>1. ASSUME NEW a \in Sc!Axes
        PROVE  Sc!Offset(store', outer)[a] + Sc!Offset(store', inner)[a] - pan'[a] = sent'[a]
    <3>1. PICK o, i, p, q \in Nat :
            /\ o = Sc!Offset(store, outer)[a] /\ i = Sc!Offset(store, inner)[a]
            /\ p = Sc!Offset(out.store, outer)[a] /\ q = Sc!Offset(out.store, inner)[a]
      BY <1>6, OffsetIs DEF ScrollInv, Sizes
    <3>2. PICK x, y, s \in Int : x = d[a] /\ y = pan[a] /\ s = sent[a]
      BY <1>3 DEF ScrollInv
    <3>3. o + i - y = s
      BY <1>6, <3>1, <3>2 DEF Sc!Conserved
    <3>4. out.rem[a] = x - (p - o) - (q - i)
      BY <1>6, <3>1, <3>2
    <3>5. pan'[a] = y - (x - (p - o) - (q - i)) /\ sent'[a] = s + x
      BY <1>2, <3>2, <3>4
    <3> QED BY <1>2, <3>1, <3>2, <3>3, <3>5
  <2> QED BY <2>1 DEF Sc!Conserved
<1>7. CASE out = acc
  <2>1. \A a \in Sc!Axes : Sc!Offset(store, outer)[a] \in Nat /\ Sc!Offset(store, inner)[a] \in Nat
    BY OffsetIs DEF ScrollInv, Sizes
  <2>2. \A a \in Sc!Axes :
          out.rem[a] = d[a] - (Sc!Offset(out.store, outer)[a] - Sc!Offset(store, outer)[a])
                            - (Sc!Offset(out.store, inner)[a] - Sc!Offset(store, inner)[a])
    BY <1>3, <1>7, <2>1
  <2> QED BY <1>2, <1>3, <1>6, <1>7, <2>2
<1>8. ASSUME NEW h \in OuterHits, IsHit(h), h.id = outer, Taken(acc, h, out)
      PROVE  /\ Sc!Conserved => Sc!Conserved'
             /\ \E w \in Views : \A a \in Sc!Axes :
                 \/ Sc!Offset(store', outer)[a] = Sc!Offset(store, outer)[a]
                 \/ Sc!Offset(store', outer)[a] <= Sc!Reach(w.els[outer], a)
  <2>1. StoreIs(out.store)
    BY <1>8 DEF Taken
  <2>2. \A a \in Sc!Axes : Sc!Offset(store, outer)[a] \in Nat /\ Sc!Offset(store, inner)[a] \in Nat
                           /\ Sc!Offset(out.store, outer)[a] \in Nat
    BY <2>1, OffsetIs DEF ScrollInv, Sizes
  <2>3. \A a \in Sc!Axes :
          out.rem[a] = d[a] - (Sc!Offset(out.store, outer)[a] - Sc!Offset(store, outer)[a])
                            - (Sc!Offset(out.store, inner)[a] - Sc!Offset(store, inner)[a])
    BY <1>3, <1>5, <1>8, <2>2
  <2> QED BY <1>2, <1>3, <1>5, <1>6, <1>8, <2>1, <2>3
<1>9. ASSUME NEW h, NEW mid, NEW g \in OuterHits, IsHit(h), IsHit(g), h.id = inner, g.id = outer,
             Taken(acc, h, mid), Taken(mid, g, out)
      PROVE  /\ Sc!Conserved => Sc!Conserved'
             /\ \E w \in Views : \A a \in Sc!Axes :
                 \/ Sc!Offset(store', outer)[a] = Sc!Offset(store, outer)[a]
                 \/ Sc!Offset(store', outer)[a] <= Sc!Reach(w.els[outer], a)
  <2>1. StoreIs(mid.store) /\ mid.rem \in [Sc!Axes -> Int] /\ StoreIs(out.store)
    BY <1>9 DEF Taken
  <2>2. /\ Sc!Offset(mid.store, outer) = Sc!Offset(store, outer)
        /\ \A a \in Sc!Axes : mid.rem[a] = d[a]
             - (Sc!Offset(mid.store, inner)[a] - Sc!Offset(store, inner)[a])
    BY <1>3, <1>4, <1>9 DEF Taken
  <2>3. /\ \E w \in Views : \A a \in Sc!Axes :
                  \/ Sc!Offset(out.store, outer)[a] = Sc!Offset(mid.store, outer)[a]
                  \/ Sc!Offset(out.store, outer)[a] <= Sc!Reach(w.els[outer], a)
        /\ \A a \in Sc!Axes : out.rem[a] = mid.rem[a]
                  - (Sc!Offset(out.store, outer)[a] - Sc!Offset(mid.store, outer)[a])
        /\ Sc!Offset(out.store, inner) = Sc!Offset(mid.store, inner)
    BY <1>5, <1>9, <2>1
  <2>4. ASSUME NEW a \in Sc!Axes
        PROVE out.rem[a] = d[a] - (Sc!Offset(out.store, outer)[a] - Sc!Offset(store, outer)[a])
                            - (Sc!Offset(out.store, inner)[a] - Sc!Offset(store, inner)[a])
    <3>1. PICK o, i, p, q \in Nat :
            /\ o = Sc!Offset(store, outer)[a] /\ i = Sc!Offset(store, inner)[a]
            /\ p = Sc!Offset(out.store, outer)[a] /\ q = Sc!Offset(out.store, inner)[a]
      BY <2>1, OffsetIs DEF ScrollInv, Sizes
    <3>2. PICK x \in Int : x = d[a]
      BY <1>3
    <3>3. mid.rem[a] = x - (q - i) /\ out.rem[a] = mid.rem[a] - (p - o)
      BY <2>2, <2>3, <3>1, <3>2
    <3>4. out.rem[a] = x - (p - o) - (q - i)
      BY <3>1, <3>2, <3>3
    <3> QED BY <3>1, <3>2, <3>4
  <2> QED BY <1>2, <1>6, <2>1, <2>2, <2>3, <2>4
<1>10. Passed(acc, out)
  BY <1>1, <1>3, ChainIs
<1> QED BY <1>2, <1>3, <1>7, <1>8, <1>9, <1>10 DEF Passed

LEMMA ScrollInductive ==
  ASSUME Sc!ScrollConstants, ScrollInv, [Sc!Next]_(Sc!vars)
  PROVE  ScrollInv'
<1>1. CASE Sc!PaintFrame
  BY <1>1, PaintKeepsScroll
<1>2. ASSUME NEW d \in Deltas, Sc!Wheel(d) PROVE ScrollInv'
  BY <1>2, WheelKeepsScroll
<1>3. ASSUME NEW i \in DOMAIN regions, NEW a \in Sc!Axes, Sc!PressThumb(i, a) PROVE ScrollInv'
  BY <1>3, PressKeepsScroll
<1>4. ASSUME NEW t \in Travels, Sc!DragThumb(t) PROVE ScrollInv'
  BY <1>4, DragIs
<1> QED BY <1>1, <1>2, <1>3, <1>4, OtherStepsKeepScroll DEF Sc!Next

LEMMA ScrollInvariant ==
  ASSUME Sc!ScrollConstants
  PROVE  Sc!Spec => []ScrollInv
<1>1. Sc!Init => ScrollInv
  BY ScrollInit
<1>2. ScrollInv /\ [Sc!Next]_(Sc!vars) => ScrollInv'
  BY ScrollInductive
<1> QED BY <1>1, <1>2, PTL DEF Sc!Spec

\* Nothing but a wheel adds to what wheels have asked for
LEMMA OnlyWheelsSend ==
  ASSUME Sc!ScrollConstants, ScrollInv, [Sc!Next]_(Sc!vars), sent' # sent
  PROVE  \E d \in Deltas : Sc!Wheel(d)
<1>1. Sc!PaintFrame => sent' = sent
  BY DEF Sc!PaintFrame
<1>2. \A t \in Travels : Sc!DragThumb(t) => sent' = sent
  BY DEF Sc!DragThumb
<1>3. \A i \in DOMAIN regions, a \in Sc!Axes : Sc!PressThumb(i, a) => sent' = sent
  BY DEF Sc!PressThumb
<1> QED BY <1>1, <1>2, <1>3, OtherStepsKeepScroll DEF Sc!Next

\* The topmost under the pointer has the wheel first: whatever the layouts and
\* however deep the store, what is around the inner scroller, or the camera,
\* moves on an axis only in a wheel that takes the inner one to its end there
\* (Runner::on_wheel_moved).
LEMMA InnermostScrollsFirst ==
  ASSUME Sc!ScrollConstants
  PROVE  Sc!Spec => Sc!InnermostFirst
<1> DEFINE A(i) == (sent' # sent /\ under = inner /\ regions[i].id = inner) =>
       \A a \in Sc!Axes :
         (/\ Sc!Offset(store, inner)[a] <= Sc!Reach(regions[i], a)
          /\ Sc!Offset(store', outer)[a] # Sc!Offset(store, outer)[a] \/ pan'[a] # pan[a])
         => Sc!Offset(store', inner)[a] = (IF sent'[a] < sent[a] THEN 0 ELSE Sc!Reach(regions[i], a))
<1>1. ScrollInv /\ [Sc!Next]_(Sc!vars) => \A i \in DOMAIN regions : A(i)
  <2>1. SUFFICES ASSUME ScrollInv, [Sc!Next]_(Sc!vars), NEW i \in DOMAIN regions,
                        sent' # sent, under = inner, regions[i].id = inner, NEW a \in Sc!Axes,
                        Sc!Offset(store, inner)[a] <= Sc!Reach(regions[i], a),
                        Sc!Offset(store', outer)[a] # Sc!Offset(store, outer)[a] \/ pan'[a] # pan[a]
                 PROVE  Sc!Offset(store', inner)[a]
                          = IF sent'[a] < sent[a] THEN 0 ELSE Sc!Reach(regions[i], a)
    OBVIOUS
  <2>2. PICK d \in Deltas : Sc!Wheel(d)
    BY <2>1, OnlyWheelsSend
  <2> QED BY <2>1, <2>2, WheelGoesInsideOut
<1> QED BY <1>1, ScrollInvariant, PTL DEF Sc!Spec, Sc!InnermostFirst

\* What ends a drag or begins one does not move it, and a drag of a thumb puts
\* its scroller where the pointer is, from where it was pressed.
LEMMA ThumbsFollow ==
  ASSUME Sc!ScrollConstants, Window
  PROVE  Sc!Spec => Sc!ThumbFollows
<1>1. ScrollInv /\ [Sc!Next]_(Sc!vars) =>
        ((thumb # None /\ thumb' # None /\ thumb'.travel # thumb.travel) =>
           Sc!Offset(store', thumb.id)[thumb.axis]
             = Sc!Clamp(thumb.from + thumb'.travel * Gain, Sc!Reach(thumb, thumb.axis)))
  <2>1. SUFFICES ASSUME ScrollInv, [Sc!Next]_(Sc!vars), thumb # None, thumb' # None,
                        thumb'.travel # thumb.travel
                 PROVE  Sc!Offset(store', thumb.id)[thumb.axis]
                          = Sc!Clamp(thumb.from + thumb'.travel * Gain, Sc!Reach(thumb, thumb.axis))
    OBVIOUS
  <2>2. PICK t \in Travels : Sc!DragThumb(t)
    BY <2>1 DEF Sc!Next, Sc!vars, Sc!PaintFrame, Sc!Release, Sc!HandledWheel, Sc!Update,
                Sc!PointerTo, Sc!Wheel, Sc!PressThumb
  <2>3. thumb \in Thumb /\ thumb' = [thumb EXCEPT !.travel = t]
    BY <2>1, <2>2 DEF ScrollInv, Sc!DragThumb
  <2>4. thumb'.travel = t
    BY <2>3 DEF Thumb
  <2> QED BY <2>1, <2>2, <2>4, DragIs
<1> QED BY <1>1, ScrollInvariant, PTL DEF Sc!Spec, Sc!ThumbFollows

\* A field that takes the focus when it appears is brought whole into view, if
\* the scroller is tall enough for it (Scroll::keep_in_view).
LEMMA FocusIsBroughtIntoView ==
  ASSUME Sc!ScrollConstants
  PROVE  Sc!Spec => Sc!FocusedIsSeen
<1> DEFINE Fits == /\ shown.field[2] - shown.field[1] <= shown.els[outer].inner.y
                   /\ shown.field[2] <= shown.els[outer].content.y
           Seen == /\ Sc!Offset(store', outer).y <= shown.field[1]
                   /\ shown.field[2] <= Sc!Offset(store', outer).y + shown.els[outer].inner.y
<1>1. ScrollInv /\ [Sc!Next]_(Sc!vars) =>
        ((regions' # regions /\ shown.field # None /\ ~inputs /\ inputs'
            /\ shown.field[2] - shown.field[1] <= shown.els[outer].inner.y
            /\ shown.field[2] <= shown.els[outer].content.y) => Seen)
  <2>1. SUFFICES ASSUME ScrollInv, [Sc!Next]_(Sc!vars), regions' # regions,
                        shown.field # None, ~inputs, Fits
                 PROVE  Seen
    OBVIOUS
  <2>2. Sc!PaintFrame
    BY <2>1 DEF Sc!Next, Sc!vars, Sc!DragThumb, Sc!Release, Sc!HandledWheel, Sc!Update,
                Sc!PointerTo, Sc!Wheel, Sc!PressThumb
  <2> QED BY <2>1, <2>2, PaintKeepsScroll
<1> QED BY <1>1, ScrollInvariant, PTL DEF Sc!Spec, Sc!FocusedIsSeen

\* The steps of scrolling, for any layouts and any store: the innermost
\* scroller under the pointer has the wheel first; a thumb is where the pointer
\* took it, on a window; a field that takes the focus is in view.
THEOREM ScrollStepsCorrect ==
  ASSUME Sc!ScrollConstants
  PROVE  Sc!Spec => /\ Sc!InnermostFirst
                    /\ Window => Sc!ThumbFollows
                    /\ Sc!FocusedIsSeen
<1>1. CASE Window
  BY <1>1, InnermostScrollsFirst, ThumbsFollow, FocusIsBroughtIntoView, PTL
<1>2. CASE ~Window
  BY <1>2, InnermostScrollsFirst, FocusIsBroughtIntoView, PTL
<1> QED BY <1>1, <1>2

\* Where every frame draws both, no frame drops an offset
Spent ==
  /\ Sc!Conserved
  /\ \E w \in Views : Sc!Offset(store, outer).y <= Sc!Reach(w.els[outer], "y")

LEMMA PaintDropsNone ==
  ASSUME Sc!ScrollConstants, Sc!AllDrawn, ScrollInv, Spent, Sc!PaintFrame
  PROVE  Spent'
<1>1. PICK ids, drawn : ids = Sc!Drawn(shown, store) /\ drawn = {ids[i] : i \in DOMAIN ids}
  OBVIOUS
<1>2. shown \in Views /\ shown.field = None /\ inner \in DOMAIN shown.els /\ StoreIs(store)
  BY DEF ScrollInv, Sc!AllDrawn
<1>3. store' = Sc!Sweep(Sc!Marked(store, drawn), live \cup drawn) /\ UNCHANGED <<pan, sent>>
  BY <1>1, <1>2 DEF Sc!PaintFrame
<1>4. Sc!Visible(shown, store, inner)
  <2>1. PICK w \in Views : Sc!Offset(store, outer).y <= Sc!Reach(w.els[outer], "y")
    BY DEF Spent
  <2>2. Sc!Reach(w.els[outer], "y") \in Nat /\ "y" \in Sc!Axes
    BY OuterIsDrawn, ReachIs DEF Sc!Axes, Sc!Element, Sizes
  <2>3. Sc!Offset(store, outer).y \in Nat
    BY <1>2, <2>2, OffsetIs DEF Sizes
  <2>4. 0 \in 0..Sc!Reach(w.els[outer], "y")
        /\ Sc!Offset(store, outer).y \in 0..Sc!Reach(w.els[outer], "y")
    BY <2>1, <2>2, <2>3
  <2>5. Sc!Seen(shown, 0) /\ Sc!Seen(shown, Sc!Offset(store, outer).y)
    BY <1>2, <2>4 DEF Sc!AllDrawn
  <2> QED BY <2>5 DEF Sc!Visible
<1>5. outer \in drawn /\ inner \in drawn /\ drawn \subseteq Ids
  <2>1. ids = <<outer, inner>>
    <3>1. Sc!Drawn(shown, store) = <<outer>> \o <<inner>>
      BY <1>2, <1>4, OuterIsDrawn DEF Sc!Drawn, Sc!Visible
    <3> QED BY <1>1, <3>1, DrawnIs, BothDrawn
  <2>2. DOMAIN ids = {1, 2} /\ ids[1] = outer /\ ids[2] = inner
    BY <2>1
  <2> QED BY <1>1, <2>2 DEF Ids
<1>6. Sc!Offset(store', outer) = Sc!Offset(store, outer) /\ Sc!Offset(store', inner) = Sc!Offset(store, inner)
  BY <1>2, <1>3, <1>5, SweepIs
<1> QED BY <1>3, <1>6 DEF Spent, Sc!Conserved

\* A wheel is spent once, whatever chain it goes through: what the scrollers
\* and the camera have moved is what the wheels asked for (Runner::on_wheel_moved,
\* Scroll::by).
THEOREM WheelsAreSpentOnce ==
  ASSUME Sc!ScrollConstants, Sc!AllDrawn
  PROVE  Sc!Spec => []Sc!Conserved
<1>1. Sc!Init => Spent
  <2>1. SUFFICES ASSUME Sc!Init PROVE Spent
    OBVIOUS
  <2>2. /\ Sc!Offset(store, outer) = Sc!Zero /\ Sc!Offset(store, inner) = Sc!Zero
        /\ pan = Sc!Zero /\ sent = Sc!Zero /\ shown \in Views
    BY <2>1 DEF Sc!Init, Sc!Offset
  <2>3. \A a \in Sc!Axes : Sc!Zero[a] = 0
    BY DEF Sc!Zero
  <2>4. "y" \in Sc!Axes
    BY DEF Sc!Axes
  <2>5. Sc!Reach(shown.els[outer], "y") \in Nat
    BY <2>2, <2>4, OuterIsDrawn, ReachIs DEF Sc!Element, Sizes
  <2>6. Sc!Offset(store, outer).y = 0
    BY <2>2, <2>3, <2>4
  <2>7. Sc!Conserved
    BY <2>2, <2>3 DEF Sc!Conserved
  <2> QED BY <2>2, <2>5, <2>6, <2>7 DEF Spent
<1>2. ScrollInv /\ Spent /\ [Sc!Next]_(Sc!vars) => Spent'
  <2>1. SUFFICES ASSUME ScrollInv, Spent, [Sc!Next]_(Sc!vars) PROVE Spent'
    OBVIOUS
  <2>2. CASE Sc!PaintFrame
    BY <2>1, <2>2, PaintDropsNone
  <2>3. ASSUME NEW d \in Deltas, Sc!Wheel(d) PROVE Spent'
    <3>1. "y" \in Sc!Axes
      BY DEF Sc!Axes
    <3> QED BY <2>1, <2>3, <3>1, WheelIsSpent DEF Spent
  <2>4. ASSUME NEW i \in DOMAIN regions, NEW a \in Sc!Axes, Sc!PressThumb(i, a) PROVE Spent'
    BY <2>1, <2>4 DEF Sc!PressThumb, Spent, Sc!Conserved
  <2>5. ~ \E t \in Travels : Sc!DragThumb(t)
    BY DEF Sc!AllDrawn
  <2>6. ASSUME UNCHANGED <<store, pan, sent>> PROVE Spent'
    BY <2>1, <2>6 DEF Spent, Sc!Conserved
  <2> QED BY <2>1, <2>2, <2>3, <2>4, <2>5, <2>6, OtherStepsKeepScroll DEF Sc!Next
<1> QED BY <1>1, <1>2, ScrollInvariant, PTL DEF Sc!Spec, Spent
=============================================================================
