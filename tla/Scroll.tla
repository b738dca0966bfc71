------------------------------- MODULE Scroll -------------------------------
(***************************************************************************)
(* Retained scroll offsets of the runtime: what a frame lays out, which    *)
(* offsets it keeps (state.rs, layout.rs, Runner::frame), how a wheel      *)
(* chains from the innermost scroller out to the camera (on_wheel_moved,   *)
(* scroll.rs), how a thumb is dragged and how an autofocused field is      *)
(* brought into view.                                                      *)
(*                                                                         *)
(* Two nested scrollers under one camera, in whole pixels.  Scales and the *)
(* zoom about the pointer are left out: a ctrl-wheel moves no scroller.    *)
(***************************************************************************)
EXTENDS Integers, Sequences

CONSTANTS
  Layouts,        \* what the app may draw: [els, field]; els: id -> [axes, content, inner, top, bottom]
  outer, inner,   \* the inner one stands at top .. bottom of the outer one's content
  Deltas,         \* of a wheel, per axis
  Travels, Gain,  \* of the pointer while it drags a thumb
  MIN_THUMB,      \* the shortest a thumb is
  Window,         \* FALSE: offscreen, as tests and driver ops run it
  Handled,        \* somebody may handle on_wheel
  MaxSent,        \* bounds what wheels ask for, and the camera's pan
  None

Axes == {"x", "y"}
Zero == [a \in Axes |-> 0]

\* What the constants have to be: a layout draws the outer one, and perhaps the
\* inner one and a field at near .. far of the outer one's content.
Element == [axes : SUBSET Axes, content : [Axes -> Nat], inner : [Axes -> Nat],
            top : Int, bottom : Int]
ScrollConstants ==
  /\ outer # inner /\ {outer, inner} \cap {"camera", "handler", None} = {}
  /\ \A v \in Layouts :
       /\ v.els \in [{outer} -> Element] \cup [{outer, inner} -> Element]
       /\ v.field # None => v.field \in Nat \X Nat /\ v.field[1] <= v.field[2]
  /\ Deltas \subseteq [Axes -> Int] /\ Travels \subseteq Int /\ Gain \in Int
  /\ {MIN_THUMB, MaxSent} \subseteq Nat

VARIABLES view,    \* the app's description
          hits,    \* the scrollers of the last frame, outermost first
          store,   \* id -> offset
          live,    \* the offsets that the next sweep keeps
          pan,     \* the camera's
          over,    \* the innermost scroller under the pointer, "camera", "handler" or None
          thumb,   \* the captured one: [id, axis, from, viewport, content, travel]
          inputs,  \* whether the last frame drew the field
          sent     \* observer: all that wheels have asked for
vars == <<view, hits, store, live, pan, over, thumb, inputs, sent>>

-----------------------------------------------------------------------------
Offset(st, id) == IF id \in DOMAIN st THEN st[id] ELSE Zero
With(st, id, o) == [k \in DOMAIN st \cup {id} |-> IF k = id THEN o ELSE st[k]]
Reach(e, a) == IF e.content[a] > e.inner[a] THEN e.content[a] - e.inner[a] ELSE 0
Clamp(v, hi) == IF v < 0 THEN 0 ELSE IF v > hi THEN hi ELSE v

\* Scroll::by: the new offset, and what of the delta is left.
By(o, a, delta, e) == LET next == Clamp(o[a] + delta, Reach(e, a)) IN
  [offset |-> [o EXCEPT ![a] = next], rem |-> delta - (next - o[a])]

\* One scroller of the chain takes what it can of what is left on each axis;
\* it is not asked which axes its container scrolls.
Take(acc, h) ==
  LET took == [a \in Axes |-> By(Offset(acc.store, h.id), a, acc.rem[a], h)]
      moved == \E a \in Axes : acc.rem[a] # 0
  IN [store |-> IF moved
                THEN With(acc.store, h.id,
                          [a \in Axes |-> IF acc.rem[a] = 0 THEN Offset(acc.store, h.id)[a]
                                          ELSE took[a].offset[a]])
                ELSE acc.store,
      live |-> IF moved THEN acc.live \cup {h.id} ELSE acc.live,
      rem |-> [a \in Axes |-> IF acc.rem[a] = 0 THEN 0 ELSE took[a].rem]]

Under == IF over = inner THEN hits ELSE IF over = outer THEN SubSeq(hits, 1, 1) ELSE <<>>
Through(acc, k) == IF k \in DOMAIN Under THEN Take(acc, Under[k]) ELSE acc
\* Mutant: outermost first
OutsideIn(acc) == Through(Through(acc, 1), 2)
Chain(acc) == Through(Through(acc, 2), 1)

Wheel(delta) ==
  /\ over \notin {None, "handler"}
  /\ LET out == Chain([store |-> store, live |-> live, rem |-> delta]) IN
     /\ store' = out.store /\ live' = out.live
     /\ pan' = [a \in Axes |-> pan[a] - out.rem[a]]
  /\ sent' = [a \in Axes |-> sent[a] + delta[a]]
  /\ \A a \in Axes : {sent'[a], pan'[a]} \subseteq -MaxSent .. MaxSent
  /\ UNCHANGED <<view, hits, over, thumb, inputs>>
\* The topmost on_wheel element under the pointer has it all.
HandledWheel == over = "handler" /\ Handled /\ UNCHANGED vars

-----------------------------------------------------------------------------
\* The inner scroller is visible as far as the outer one's offset leaves it.
Seen(v, off) == v.els[inner].top - off < v.els[outer].inner.y /\ v.els[inner].bottom - off > 0
Visible(v, st, id) ==
  \/ id = outer
  \/ Seen(v, IF "y" \in v.els[outer].axes THEN Offset(st, outer).y ELSE 0)
Hit(v, id) == [id |-> id, axes |-> v.els[id].axes, content |-> v.els[id].content,
               inner |-> v.els[id].inner]
Drawn(v, st) ==
  LET Shown(id) == IF id \in DOMAIN v.els /\ Visible(v, st, id) THEN <<id>> ELSE <<>>
  IN Shown(outer) \o Shown(inner)

\* Scroll::keep_in_view, of a field that the frame before did not draw.
KeepInView(v, st) ==
  LET e == v.els[outer]
      cur == Offset(st, outer).y
      near == v.field[1]  far == v.field[2]
      wanted == IF near < cur THEN near ELSE IF far > cur + e.inner.y THEN far - e.inner.y ELSE cur
  IN With(st, outer, [Offset(st, outer) EXCEPT !.y = Clamp(wanted, Reach(e, "y"))])

\* Every scroller that is drawn has an offset.
Marked(st, ids) == [id \in DOMAIN st \cup ids |-> Offset(st, id)]
\* A frame: layout reads the offsets, visible scrollers keep theirs, and the
\* sweep drops those that nothing has touched.
Sweep(st, kept) == [id \in DOMAIN st \cap kept |-> st[id]]
PaintFrame ==
  LET ids == Drawn(view, store)
      focuses == view.field # None /\ ~inputs
      scrolled == IF focuses THEN KeepInView(view, store) ELSE store
      drawn == {ids[i] : i \in DOMAIN ids}
  IN /\ hits' = [i \in DOMAIN ids |-> Hit(view, ids[i])]
     /\ store' = Sweep(Marked(scrolled, drawn), live \cup drawn)
     /\ live' = {}
     /\ inputs' = (view.field # None)
     /\ UNCHANGED <<view, pan, over, thumb, sent>>

\* The app says something else; the frame comes after.
Update(v) == view' = v /\ UNCHANGED <<hits, store, live, pan, over, thumb, inputs, sent>>

PointerTo(p) ==
  /\ thumb = None /\ over' = p
  /\ p \in {outer, inner} => \E i \in DOMAIN hits : hits[i].id = p
  /\ UNCHANGED <<view, hits, store, live, pan, thumb, inputs, sent>>

\* axis_thumb: on each axis the container scrolls there is one, where there is
\* more content than room, and room for a thumb to slide: MIN_THUMB leaves
\* some of the track, and so does inner / content of it.
HasThumb(h, a) ==
  /\ a \in h.axes /\ Reach(h, a) > 0
  /\ h.inner[a] > MIN_THUMB /\ h.inner[a] * Reach(h, a) >= h.content[a]

\* A press on a thumb of the last frame's
PressThumb(i, a) ==
  /\ thumb = None /\ HasThumb(hits[i], a)
  /\ thumb' = [id |-> hits[i].id, axis |-> a, from |-> Offset(store, hits[i].id)[a],
               content |-> hits[i].content, inner |-> hits[i].inner, travel |-> 0]
  /\ UNCHANGED <<view, hits, store, live, pan, over, inputs, sent>>
Desired(t) == thumb.from + t * Gain
DragThumb(t) ==
  /\ thumb # None /\ thumb' = [thumb EXCEPT !.travel = t]
  /\ IF Window
     THEN LET cur == Offset(store, thumb.id)
          IN /\ store' = With(store, thumb.id,
                              By(cur, thumb.axis, Desired(t) - cur[thumb.axis], thumb).offset)
             /\ live' = live \cup {thumb.id}
     ELSE UNCHANGED <<store, live>>
  /\ UNCHANGED <<view, hits, pan, over, inputs, sent>>
Release == thumb # None /\ thumb' = None
           /\ UNCHANGED <<view, hits, store, live, pan, over, inputs, sent>>

Init == /\ view \in Layouts /\ hits = <<>> /\ store = <<>> /\ live = {} /\ pan = Zero
        /\ over = None /\ thumb = None /\ inputs = FALSE /\ sent = Zero
Next ==
  \/ PaintFrame \/ Release \/ HandledWheel
  \/ \E v \in Layouts : Update(v)
  \/ \E p \in {outer, inner, "camera", None} \cup (IF Handled THEN {"handler"} ELSE {}) : PointerTo(p)
  \/ \E d \in Deltas : Wheel(d)
  \/ \E i \in DOMAIN hits, a \in Axes : PressThumb(i, a)
  \/ \E t \in Travels : DragThumb(t)
Spec == Init /\ [][Next]_vars

-----------------------------------------------------------------------------
\* Where no offset is dropped and nothing but a wheel moves one: every frame
\* draws both scrollers, wherever the outer one stands, and no field, and no
\* thumb is dragged.
AllDrawn ==
  /\ Travels = {}
  /\ \A v, w \in Layouts :
       /\ v.field = None /\ inner \in DOMAIN v.els
       /\ \A off \in 0 .. Reach(w.els[outer], "y") : Seen(v, off)

\* A wheel is spent once: whatever the chain, the scrollers and the camera
\* together have moved by what was asked, and no more (where AllDrawn).
Conserved ==
  \A a \in Axes : Offset(store, outer)[a] + Offset(store, inner)[a] - pan[a] = sent[a]

\* "nested wheel scroll chains": what is around moves on an axis only when
\* the scroller under the pointer has come to its end there.  (It has to be
\* within its content: of one whose content shrank see OnlyTheRemainder.)
InnermostFirst ==
  [][\A i \in DOMAIN hits : (sent' # sent /\ over = inner /\ hits[i].id = inner) =>
       \A a \in Axes :
         /\ Offset(store, inner)[a] <= Reach(hits[i], a)
         /\ Offset(store', outer)[a] # Offset(store, outer)[a] \/ pan'[a] # pan[a]
         => Offset(store', inner)[a] = (IF sent'[a] < sent[a] THEN 0 ELSE Reach(hits[i], a))]_vars

\* A thumb that is dragged is where the pointer took it from where it was
\* pressed, through wheels and frames in between.
ThumbFollows ==
  [][(thumb # None /\ thumb' # None /\ thumb'.travel # thumb.travel) =>
       Offset(store', thumb.id)[thumb.axis]
         = Clamp(thumb.from + thumb'.travel * Gain, Reach(thumb, thumb.axis))]_vars

\* A field that takes the focus when it appears is in view, if it fits.
FocusedIsSeen ==
  [][(hits' # hits /\ view.field # None /\ ~inputs /\ inputs'
        /\ view.field[2] - view.field[1] <= view.els[outer].inner.y
        /\ view.field[2] <= view.els[outer].content.y)
     => LET off == Offset(store', outer).y
        IN off <= view.field[1] /\ view.field[2] <= off + view.els[outer].inner.y]_vars

\* "The innermost scroller consumes first; only its remainder reaches the
\* viewport camera" (on_wheel_moved): on each axis the camera pans the way the
\* wheel asks and no further.
OnlyTheRemainder ==
  [][\A a \in Axes :
       LET asks == sent'[a] - sent[a]
           pans == pan[a] - pan'[a]
       IN pans \in IF asks < 0 THEN asks..0 ELSE 0..asks]_vars

\* "The shell keeps per-element state (scroll offsets, ...) keyed by id": a
\* frame that draws an element keeps its offset.
KeptWhileDrawn ==
  [][\A id \in DOMAIN store \cap DOMAIN view.els :
       (view' = view /\ hits' # hits) => id \in DOMAIN store']_vars

\* "scroll_x/scroll_y on a container makes it scrollable on that axis": a
\* wheel is not swallowed by one that does not scroll that way.
OnlyItsAxis ==
  \A id \in DOMAIN store \cap DOMAIN view.els :
    \A a \in Axes : store[id][a] # 0 => a \in view.els[id].axes
=============================================================================
