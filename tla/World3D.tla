------------------------------ MODULE World3D -------------------------------
(***************************************************************************)
(* The retained 3D worlds of one app: world/src/world3d (World3d, its      *)
(* FixedClock, Worlds3d) behind app_host/src/gfx/world3d.rs (Host).  The   *)
(* app's source declares them while it loads; the shell's hook steps them  *)
(* before each normal frame; the view says which of them are on screen; a  *)
(* reload reconciles them with a new source or leaves them alone.          *)
(*                                                                         *)
(* Rapier is outside: a step moves an awake body somewhere and may put it  *)
(* to sleep.  Time is counted in halves of a step.                         *)
(***************************************************************************)
EXTENDS Naturals, FiniteSets, Functions

CONSTANTS Sources,     \* [loads, renders, recipes]; a recipe: body -> [shape, position, dynamic]
          MaxWorlds,   \* 8 in the code
          MaxBodies,   \* 256
          MaxSteps,    \* 8
          MaxTime, Captures, Elsewhere

STEP == 2

\* What the constants have to be
World3DConstants ==
  /\ MaxWorlds \in Nat /\ MaxBodies \in Nat /\ MaxTime \in Nat /\ MaxSteps \in Nat \ {0}
  /\ Captures \in BOOLEAN

VARIABLES worlds,    \* Worlds3d: id -> [bodies, last, running, carry, dropped, tick]
          recipes,   \* the accepted source's
          open,      \* the app has a tab, with a VM that loaded
          seen,      \* the worlds the last view resolved
          focused,   \* its tab is
          asked,     \* a frame is due
          now,
          painted,   \* observers: the world that the last frame drew, if any
          viewed,    \*   the worlds that its view resolved
          visible    \*   for how long each was among them
vars == <<worlds, recipes, open, seen, focused, asked, now, painted, viewed, visible>>
onScreen == <<painted, viewed>>

NoWorlds == <<>>         \* no world, no body
Off(w) == [w EXCEPT !.running = FALSE, !.carry = 0]       \* FixedClock::pause
NewWorld == [bodies |-> NoWorlds, last |-> 0, running |-> FALSE, carry |-> 0,
             dropped |-> 0, tick |-> 0]

-----------------------------------------------------------------------------
\* World3d::validate_reconcile: no retained body changes its collider or kind.
Fits(w, recipe) ==
  /\ Cardinality(DOMAIN recipe) <= MaxBodies
  /\ \A b \in DOMAIN recipe \intersect DOMAIN w.bodies :
       /\ w.bodies[b].shape = recipe[b].shape
       /\ w.bodies[b].dynamic = recipe[b].dynamic
FitAll(ws, rs) ==
  /\ Cardinality(DOMAIN rs) <= MaxWorlds
  /\ \A id \in DOMAIN rs : Fits(IF id \in DOMAIN ws THEN ws[id] ELSE NewWorld, rs[id])

\* World3d::reconcile: a retained body keeps its pose and takes the new
\* position as the one it resets to.
Body(spec) == [shape |-> spec.shape, dynamic |-> spec.dynamic, position |-> spec.position,
               at |-> spec.position, awake |-> spec.dynamic]
Reconcile(w, recipe) ==
  [w EXCEPT !.bodies = [b \in DOMAIN recipe |->
     IF b \in DOMAIN w.bodies THEN [w.bodies[b] EXCEPT !.position = recipe[b].position]
     ELSE Body(recipe[b])]]
ReconcileAll(ws, rs) ==
  [id \in DOMAIN rs |-> Reconcile(IF id \in DOMAIN ws THEN ws[id] ELSE NewWorld, rs[id])]

NeedsTicks(w) == \E b \in DOMAIN w.bodies : w.bodies[b].dynamic /\ w.bodies[b].awake

\* FixedClock::advance: the first hook of a run only sets the baseline.
Least(a, b) == IF a <= b THEN a ELSE b
Plan(w, t, running) ==
  IF ~(running /\ w.running)
  THEN [Off(w) EXCEPT !.last = t, !.running = running]
  ELSE LET available == w.carry + (t - w.last)
           window == Least(available, STEP * MaxSteps)
       IN [w EXCEPT !.last = t, !.tick = @ + window \div STEP, !.carry = window % STEP,
                    !.dropped = @ + (available - window)]

\* World3d::advance: the steps, after which the bodies in `rest` sleep; a
\* quiet world suspends its clock.
Advance(w, t, running, rest) ==
  LET p == Plan(w, t, running)
      stepped == IF p.tick = w.tick THEN p
                 ELSE [p EXCEPT !.bodies = [b \in DOMAIN p.bodies |->
                        IF p.bodies[b].dynamic /\ p.bodies[b].awake
                        THEN [p.bodies[b] EXCEPT !.at = Elsewhere, !.awake = b \notin rest]
                        ELSE p.bodies[b]]]
  IN IF NeedsTicks(stepped) THEN stepped ELSE Off(stepped)

-----------------------------------------------------------------------------
\* A frame.  The view of the focused app resolves the worlds that its walk comes
\* to; a property that fails afterwards, of the element or of one around it, puts a
\* card in its place; and of the scenes that are left the first in sight is drawn.
\* A frame is due when one that is left moves, or for what came before the view.
Draw(ws, wanted) ==
  IF focused /\ open
  THEN \E resolved \in SUBSET DOMAIN ws : \E left \in SUBSET resolved :
         /\ seen' = resolved /\ viewed' = resolved
         /\ painted' \in {{}} \cup {{id} : id \in left}
         /\ asked' = (wanted \/ \E id \in left : NeedsTicks(ws[id]))
  ELSE seen' = seen /\ viewed' = {} /\ painted' = {} /\ asked' = wanted

\* A normal frame: Host::advance for every world, then the view.
Running(id, active) == active /\ id \in seen /\ NeedsTicks(worlds[id])
Ticking(ws) == \E id \in DOMAIN ws : Running(id, focused) /\ NeedsTicks(ws[id])
Hook ==
  /\ \E rest \in SUBSET UNION {DOMAIN worlds[id].bodies : id \in DOMAIN worlds} :
       worlds' = [id \in DOMAIN worlds |->
                    Advance(worlds[id], now, Running(id, focused), rest)]
  /\ Draw(worlds', Ticking(worlds'))
  /\ UNCHANGED <<recipes, open, focused, now, visible>>

\* A screenshot's frame, of the window or of a viewport of its own, is drawn
\* without the hook; the answer that carries the picture asks for another.
Capture ==
  /\ Captures /\ Draw(worlds, TRUE)
  /\ UNCHANGED <<worlds, recipes, open, focused, now, visible>>

\* reload: load and trial view in a VM beside the running one; only then
\* are the live worlds reconciled, by a host that has seen no view yet.
Accepts(s) == s.loads /\ FitAll(worlds, s.recipes) /\ s.renders
Reload(s) ==
  /\ open
  /\ IF Accepts(s)
     THEN /\ recipes' = s.recipes /\ worlds' = ReconcileAll(worlds, s.recipes) /\ seen' = {}
     ELSE UNCHANGED <<recipes, worlds, seen>>
  /\ asked' = TRUE
  /\ visible' = [id \in DOMAIN worlds' |-> IF id \in DOMAIN visible THEN visible[id] ELSE 0]
  /\ UNCHANGED <<open, focused, now, onScreen>>

\* LuaApp::open, without a trial view; the tab it gets is focused.  A source
\* that does not load, or does not fit, opens as an app without worlds.
Open(s) ==
  /\ ~open
  /\ open' = TRUE /\ focused' = TRUE /\ asked' = TRUE /\ seen' = {}
  /\ recipes' = IF s.loads /\ FitAll(NoWorlds, s.recipes) THEN s.recipes ELSE NoWorlds
  /\ worlds' = ReconcileAll(NoWorlds, recipes')
  /\ visible' = [id \in DOMAIN worlds' |-> 0]
  /\ UNCHANGED <<now, onScreen>>
Close ==
  /\ open /\ open' = FALSE /\ focused' = FALSE /\ asked' = TRUE
  /\ worlds' = NoWorlds /\ recipes' = NoWorlds /\ seen' = {} /\ visible' = NoWorlds
  /\ UNCHANGED <<now, onScreen>>

\* game:reset from an input handler; elsewhere it is refused.
Reset(id, b) ==
  /\ open /\ focused /\ id \in DOMAIN worlds /\ b \in DOMAIN worlds[id].bodies
  /\ LET body == worlds[id].bodies[b] IN
     worlds' = [worlds EXCEPT ![id].bodies[b] =
                  [body EXCEPT !.at = body.position, !.awake = body.awake \/ body.dynamic]]
  /\ asked' = TRUE
  /\ UNCHANGED <<recipes, open, seen, focused, now, onScreen, visible>>

Switch ==
  /\ open /\ focused' = ~focused /\ asked' = TRUE
  /\ UNCHANGED <<worlds, recipes, open, seen, now, onScreen, visible>>

Elapse ==
  /\ now < MaxTime /\ now' = now + 1
  /\ visible' = [id \in DOMAIN visible |-> visible[id] + IF id \in viewed THEN 1 ELSE 0]
  /\ UNCHANGED <<worlds, recipes, open, seen, focused, asked, onScreen>>

Init == /\ worlds = NoWorlds /\ recipes = NoWorlds /\ open = FALSE /\ seen = {} /\ focused = FALSE
        /\ asked = TRUE /\ now = 0 /\ painted = {} /\ viewed = {}
        /\ visible = NoWorlds
Next ==
  \/ Hook \/ Capture \/ Close \/ Switch \/ Elapse
  \/ \E s \in Sources : Open(s) \/ Reload(s)
  \/ \E id \in DOMAIN worlds : \E b \in DOMAIN worlds[id].bodies : Reset(id, b)
Spec == Init /\ [][Next]_vars

-----------------------------------------------------------------------------
\* Budgets hold, a clock keeps less than a step, and never runs ahead.
TypeOK ==
  /\ {open, focused, asked} \subseteq BOOLEAN /\ now \in 0 .. MaxTime
  /\ Cardinality(DOMAIN worlds) <= MaxWorlds
  /\ \A id \in DOMAIN worlds :
       LET w == worlds[id] IN
       /\ w.carry \in 0 .. STEP - 1 /\ w.last <= now /\ {w.running} \subseteq BOOLEAN
       /\ ~w.running => w.carry = 0
       /\ Cardinality(DOMAIN w.bodies) <= MaxBodies

\* The live worlds are those of the accepted source, each body with the shape
\* and the position to reset to that the source gives it now.
AuthoredIsLive ==
  /\ DOMAIN worlds = DOMAIN recipes
  /\ \A id \in DOMAIN worlds :
       /\ DOMAIN worlds[id].bodies = DOMAIN recipes[id]
       /\ \A b \in DOMAIN recipes[id] :
            [k \in {"shape", "dynamic", "position"} |-> worlds[id].bodies[b][k]]
              = [k \in {"shape", "dynamic", "position"} |-> recipes[id][b][k]]

\* "A world survives successful reload; existing IDs keep their simulated
\* poses": no reload moves a body, puts it to sleep or turns the clock back,
\* and one that is refused changes nothing at all.
ReloadKeepsPoses ==
  [][(open /\ open' /\ (recipes' # recipes \/ now' = now)) =>
       \A id \in DOMAIN worlds \intersect DOMAIN worlds' :
         /\ worlds'[id].tick >= worlds[id].tick
         /\ recipes' # recipes =>
              \A b \in DOMAIN worlds[id].bodies \intersect DOMAIN worlds'[id].bodies :
                /\ worlds'[id].bodies[b].at = worlds[id].bodies[b].at
                /\ worlds'[id].bodies[b].awake = worlds[id].bodies[b].awake]_vars

\* "Omitting a viewport pauses its world ...; inactive tabs pause too, with no
\* hidden-time catch-up on resume": no world is simulated for longer than the views
\* of the frames resolved it, whatever is omitted, switched and reloaded meanwhile.
SimulatedWasViewed ==
  \A id \in DOMAIN worlds : STEP * worlds[id].tick <= visible[id]

\* The same of the screen: a world is stepped only if the last frame drew it.
OnlyPaintedIsStepped ==
  [][\A id \in DOMAIN worlds \intersect DOMAIN worlds' :
       worlds'[id].tick > worlds[id].tick => id \in painted]_vars

\* A world that was drawn and has a body in motion has its next frame asked for.
AwakeIsAsked ==
  (\E id \in painted \intersect DOMAIN worlds : open /\ focused /\ NeedsTicks(worlds[id])) => asked
=============================================================================
