------------------------------- MODULE Driver -------------------------------
(***************************************************************************)
(* Driving the shell without a window.  A client's request, a test's step  *)
(* or a timer is a message; delivering one updates the app, and if it      *)
(* asked for a driver operation that operation runs at once, before any    *)
(* other message: a script of paints, of time spent on a virtual clock and *)
(* of input events, whose handlers update the app in their turn.  What a   *)
(* pointer can reach is what the last paint found, so a script paints      *)
(* before its events.  A frame ends with messages of its own (animations   *)
(* that arrived, on_frame, keys that are cancelled, a screenshot, elements *)
(* that moved under the pointer), so that the app may be past it at once.  *)
(* Headless, the driver of the Rust tests, has scripts of its own.         *)
(***************************************************************************)
EXTENDS Integers, Sequences

CONSTANTS Places,        \* where an element may be, and the pointer
          Counts,        \* sample frame counts and drag steps
          Secs,          \* sample advances of the clock
          MaxOps,        \* bound: operations
          MaxChanges,    \* bound: times the app changes what it shows
          None

VARIABLES shown,     \* the places with an element, in the app's present view
          hits,      \* those the last paint found
          pointer, clock,
          op,        \* the operation that runs, or None
          todo,      \* what is left of its script
          painted,   \* frames painted for it
          events,    \* the input it delivered: what, when, and whether to what showed
          report,    \* what the last operation answered
          ops, changes,
          asked,     \* history: the time that operations asked for
          due,       \*   what a message or an event changed is not yet painted
          requested  \*   what was shown when the operation was asked for
vars == <<shown, hits, pointer, clock, op, todo, painted, events, report, ops, changes,
          asked, due, requested>>
history == <<asked, due, requested>>

\* 1/60 s and 8 ms, in units of about the latter
FRAME == 2
POINTER == 1

Op ==
  [kind : {"rects", "press", "release", "key", "bad"}]
    \cup [kind : {"frame"}, n : Counts] \cup [kind : {"advance"}, secs : Secs]
    \cup [kind : {"move", "wheel"}, at : Places]
    \cup [kind : {"drag"}, from : Places, to : Places, n : Counts]

\* What the constants have to be
DriverConstants == /\ None \notin Places \cup Op /\ Counts \subseteq Nat /\ Secs \subseteq Nat
                   /\ MaxOps \in Nat /\ MaxChanges \in Nat

Refused == {"bad"}
Pointing == {"move", "press", "release", "drag", "wheel"}

-----------------------------------------------------------------------------
(* Scripts *)

Paint == <<"paint", None>>
Spend(t) == <<"spend", t>>
Repeated(n, s) == [k \in 1..n * Len(s) |-> s[1 + ((k - 1) % Len(s))]]
\* Scripts of one length, one after the other
InTurn(ss) ==
  LET n == Len(ss[1])
  IN [k \in 1..Len(ss) * n |-> ss[1 + ((k - 1) \div n)][1 + ((k - 1) % n)]]

Tick == <<Paint, Spend(FRAME)>>
\* Mutant: an event with its time but no paint
Unpainted(what, at) == <<Spend(FRAME + POINTER), <<what, at>>>>
Event(what, at) == Tick \o <<Spend(POINTER), <<what, at>>>>
PointerMove(p) == Event("move", p)
AtLeastOne(n) == IF n = 0 THEN 1 ELSE n

\* The way of a drag: its last step is its end
Way(from, to, n) == [i \in 1..n |-> IF i = n THEN to ELSE from]
Drag(from, to, n) ==
  PointerMove(from) \o Event("press", None)
    \o InTurn([i \in 1..n |-> PointerMove(Way(from, to, n)[i])])
    \o Event("release", None)

Refusal == <<>>
Script(o) ==
  CASE o.kind = "bad" -> Refusal
    [] o.kind = "rects" -> <<Paint>>
    [] o.kind = "frame" -> Repeated(o.n, Tick)
    [] o.kind = "advance" -> <<Spend(o.secs), Paint>>
    [] o.kind = "move" -> PointerMove(o.at)
    [] o.kind = "wheel" -> PointerMove(o.at) \o <<<<"wheel", None>>>>
    [] o.kind = "drag" -> Drag(o.from, o.to, AtLeastOne(o.n))
    [] OTHER -> Event(o.kind, None)

Frames(o) ==
  CASE o.kind = "bad" -> 0
    [] o.kind = "frame" -> o.n
    [] o.kind = "drag" -> AtLeastOne(o.n) + 3
    [] OTHER -> 1

\* headless.rs: move_to, press, release, wheel, drag, rects
Headless(o) ==
  LET MoveTo(p) == Tick \o <<Spend(POINTER), <<"move", p>>>>
      Button(b) == Tick \o <<Spend(POINTER), <<b, None>>>>
  IN CASE o.kind = "rects" -> <<Paint>>
       [] o.kind = "move" -> MoveTo(o.at)
       [] o.kind = "wheel" -> Append(MoveTo(o.at), <<"wheel", None>>)
       [] o.kind = "drag" ->
            LET n == AtLeastOne(o.n)
            IN MoveTo(o.from) \o Button("press")
                 \o InTurn([i \in 1..n |-> MoveTo(Way(o.from, o.to, n)[i])])
                 \o Button("release")
       [] OTHER -> Button(o.kind)

-----------------------------------------------------------------------------
(* The loop *)

Init ==
  /\ shown \in SUBSET Places /\ hits = {} /\ pointer = None /\ clock = 0
  /\ op = None /\ todo = <<>> /\ painted = 0 /\ events = <<>> /\ report = None
  /\ ops = 0 /\ changes = 0 /\ asked = 0 /\ due = TRUE /\ requested = {}

\* Handling messages makes the app show one view after the other
Turns(from, to) == IF from = to THEN 0 ELSE 1
Handles(turns) == changes + turns <= MaxChanges /\ changes' = changes + turns

OwedAFrame(drove) == ~drove

ClockOfMessage == 0

\* A message that asks for no operation: a request, a timer, a push.  It makes
\* the app show s, and the frame it is owed ends with t; a screenshot for a
\* viewport of its own leaves nothing to hit.
Message(s, t) ==
  /\ op = None /\ Handles(Turns(shown, s) + Turns(s, t)) /\ shown' = t
  /\ \E captured \in BOOLEAN :
       IF OwedAFrame(FALSE)
       THEN hits' = (IF captured THEN {} ELSE s) /\ due' = captured
       ELSE UNCHANGED hits /\ due' = (due \/ s # shown)
  /\ clock' = clock + ClockOfMessage
  /\ report' = None /\ painted' = 0 /\ events' = <<>>
  /\ UNCHANGED <<pointer, op, todo, ops, asked, requested>>

\* A message whose handling asks for one
Ask(o, s) ==
  /\ op = None /\ ops < MaxOps /\ ops' = ops + 1
  /\ op' = o /\ todo' = Script(o) /\ painted' = 0 /\ events' = <<>> /\ report' = None
  /\ Handles(Turns(shown, s)) /\ shown' = s
  /\ due' = (due \/ s # shown) /\ requested' = s
  /\ UNCHANGED <<hits, pointer, clock, asked>>

\* Runner::frame: what shows is painted, then its own messages are handled
Painting(s) ==
  /\ todo # <<>> /\ Head(todo) = Paint
  /\ hits' = shown /\ painted' = painted + 1 /\ todo' = Tail(todo) /\ due' = FALSE
  /\ Handles(Turns(shown, s)) /\ shown' = s
  /\ UNCHANGED <<pointer, clock, op, events, report, ops, asked, requested>>

Spending ==
  /\ todo # <<>> /\ Head(todo)[1] = "spend"
  /\ clock' = clock + Head(todo)[2] /\ todo' = Tail(todo)
  /\ UNCHANGED <<shown, hits, pointer, op, painted, events, report, ops, changes, history>>

Delivering(s) ==
  /\ todo # <<>> /\ Head(todo)[1] \notin {"paint", "spend"}
  /\ pointer' = IF Head(todo)[1] = "move" THEN Head(todo)[2] ELSE pointer
  /\ events' = Append(events, [what |-> Head(todo)[1], at |-> clock, fresh |-> ~due])
  /\ Handles(Turns(shown, s)) /\ shown' = s /\ todo' = Tail(todo)
  /\ due' = (due \/ s # shown)
  /\ UNCHANGED <<hits, clock, op, painted, report, ops, asked, requested>>

UnderPointer == hits \cap {pointer}
Rects(o) == IF o.kind = "rects" THEN <<hits>>
            ELSE IF o.kind \in Pointing THEN <<UnderPointer>> ELSE <<>>

\* Time is asked for in frames, in seconds, or by an event at a time
Worth(o) ==
  CASE o.kind \in Refused \cup {"rects"} -> 0
    [] o.kind = "frame" -> o.n * FRAME
    [] o.kind = "advance" -> o.secs
    [] o.kind = "drag" -> (AtLeastOne(o.n) + 3) * (FRAME + POINTER)
    [] OTHER -> FRAME + POINTER

\* The report, and the message that takes it to the app
Done(s) ==
  /\ op # None /\ todo = <<>> /\ op' = None /\ asked' = asked + Worth(op)
  /\ report' = [op |-> op, frames |-> Frames(op), rects |-> Rects(op)]
  /\ Handles(Turns(shown, s)) /\ shown' = s
  /\ IF OwedAFrame(TRUE) THEN painted' = painted + 1 /\ hits' = s /\ due' = FALSE
     ELSE UNCHANGED <<painted, hits>> /\ due' = (due \/ s # shown)
  /\ UNCHANGED <<pointer, clock, todo, events, ops, requested>>

Next == \/ Spending
        \/ \E s \in SUBSET Places : \/ Painting(s) \/ Delivering(s) \/ Done(s)
                                   \/ \E t \in SUBSET Places : Message(s, t)
                                   \/ \E o \in Op : Ask(o, s)
Spec == Init /\ [][Next]_vars
-----------------------------------------------------------------------------
(* Properties *)

\* What is shown, what was painted and the operation under way.
TypeOK ==
  /\ shown \subseteq Places /\ hits \subseteq Places /\ pointer \in Places \cup {None}
  /\ clock \in Nat /\ op \in Op \cup {None} /\ painted \in Nat /\ ops \in 0..MaxOps
  /\ changes \in 0..MaxChanges /\ asked \in Nat /\ {due} \subseteq BOOLEAN
  /\ requested \subseteq Places

\* "Frames actually painted" (DriverReport): what an operation reports is what
\* was painted for it, the frame that every other message is owed included.
FramesArePainted == report # None => report.frames = painted

\* "You never receive an event against a frame that has not been drawn"
\* (headless.rs): but for the wheel, an event is tested against a frame of all
\* that the messages and events before it changed.  Only what that very frame's
\* own messages changed can be missing, in a window as under the driver.
EventsSeeTheFrame == \A i \in DOMAIN events : events[i].what # "wheel" => events[i].fresh

\* The events of one gesture do not share a timestamp (POINTER): a velocity
\* divides by their distance.  The wheel comes with its move.
StampsDiffer ==
  \A i, j \in DOMAIN events : i < j /\ events[j].what # "wheel" => events[i].at < events[j].at

\* Time is what the driver asked for: n frames are n/60 s, an advance lands on
\* exactly its seconds, and neither a message nor a refusal moves the clock.
ClockIsAsked == op = None => clock = asked

\* A gesture driven over the bridge is the one Headless produces, step by step.
DriversAgree ==
  op # None /\ op.kind \in Pointing \cup {"rects"} => Script(op) = Headless(op)

\* "The move painted, so the zoom regions are current" (DriverOp::Wheel).
WheelSeesTheFrame == \A i \in DOMAIN events : events[i].what = "wheel" => events[i].fresh

\* A readback answers the regions of the view its request found, and not "where
\* things were as of whatever happened to run last" (DriverOp::Rects).
ReadbackIsTrue == report # None /\ report.op.kind = "rects" => report.rects = <<requested>>

\* The rects of a pointer operation are "what is under the pointer afterwards"
\* (DriverReport).
RectsAreAfterwards ==
  report # None /\ report.op.kind \in Pointing => report.rects = <<shown \cap {pointer}>>
=============================================================================
