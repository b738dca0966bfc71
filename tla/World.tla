------------------------------- MODULE World --------------------------------
(***************************************************************************)
(* One `ui.world` (world/src/lib.rs, World2d) with the app around it       *)
(* (app_host): every view describes the entities anew and reconcile spawns,*)
(* keeps and despawns to match; a frame tick steps the bodies and collects *)
(* moments; the moments are handed to the app's handlers one by one, and a *)
(* handler may command the world in between.                               *)
(*                                                                         *)
(* Rapier is outside: a step may leave any shapes overlapping or touching, *)
(* any moved body awake or at rest.  Places, poses and speeds are left out,*)
(* and time is whole seconds, of which most frames pass none.              *)
(***************************************************************************)
EXTENDS Integers, FiniteSets, Functions, SequencesExt

CONSTANTS Descs,        \* what a view may describe: [list, actions, sized]
          Length,       \* once clips: handle -> seconds
          Neg, Pos,     \* the two keys of every controller's axis
          Keys, Timers, Secs,
          Commands,     \* which of "after", "cancel", "set" handlers use
          MaxGroups,    \* 31 in the code
          MaxTime, None

Ids == UNION {{d.list[i].id : i \in DOMAIN d.list} : d \in Descs}

\* What the constants have to be
WorldConstants ==
  /\ {Neg, Pos} \subseteq Keys /\ Neg # Pos
  /\ MaxGroups \in Nat /\ MaxTime \in Nat /\ Secs \subseteq Nat
  /\ \A c \in DOMAIN Length : Length[c] \in Nat \ {0}

VARIABLES world,      \* the World2d, None when the app holds none
          drawn,      \* the last view's tree shows it,
          armed,      \* with on_frame,
          keyed,      \* with on_key
          repaint,    \* an update since the last view
          queue,      \* moments drained and not yet handed to a handler
          now, down, focus,          \* time; keys physically down; window focus
          told, zones, dirs, wants, off   \* observers, see the properties
app == <<world, drawn, armed, keyed, repaint, queue>>
outside == <<now, down, focus>>
seen == <<told, zones, dirs, wants, off>>
vars == <<app, outside, seen>>

-----------------------------------------------------------------------------
\* World2d::default.  An entity is <<id, n>>: the same id spawned anew is
\* another entity.
Default == [ecs |-> <<>>, bodies |-> <<>>, pairs |-> {}, contacts |-> {},
            inside |-> {}, touching |-> {}, held |-> {}, actions |-> {},
            clock |-> 0, ticking |-> FALSE, controlled |-> FALSE,
            timers |-> <<>>, groups |-> {}]
Entities(w) == DOMAIN w.ecs
Named(w, id) == {e \in Entities(w) : e[1] = id}
WantsKeys(w) == w.controlled \/ w.actions # {}
\* Mutant: timers alone wake nothing
NeedsTicksPlaying(w) ==
  w.ticking \/ \E e \in Entities(w) : w.ecs[e].solid # None /\ w.ecs[e].solid.sliding
NeedsTicks(w) == \/ w.ticking \/ w.timers # <<>>
                 \/ \E e \in Entities(w) : w.ecs[e].solid # None /\ w.ecs[e].solid.sliding
ReleaseAll(w) == [w EXCEPT !.held = {}]
DropUnheard(w) == IF WantsKeys(w) THEN w ELSE ReleaseAll(w)

\* groups_of: a new name takes a bit, while there is one.
NamedGroups(groups, names) ==
  FoldLeft(LAMBDA g, n : IF Cardinality(g) < MaxGroups THEN g \union {n} ELSE g,
           groups, SetToSeq(names))

\* reconcile's checks of one entity, in list order; the groups it names stay
\* named when a later check fails.
CheckOne(st, s) ==
  IF \/ ~st.ok \/ ~s.fields \/ s.id \in st.ids
     \/ s.loose /\ (~s.collider \/ s.ctl)
     \/ s.groups # {} /\ ~s.collider
  THEN [st EXCEPT !.ok = FALSE]
  ELSE LET named == NamedGroups(st.groups, s.groups) IN
       [ok |-> s.groups \subseteq named, ids |-> st.ids \union {s.id}, groups |-> named]
Mounts(list) ==
  \A i \in DOMAIN list : list[i].attach # None =>
    \E j \in DOMAIN list : list[j].id = list[i].attach /\ j # i /\ list[j].attach = None
Checked(w, list) ==
  LET st == FoldLeft(CheckOne, [ok |-> TRUE, ids |-> {}, groups |-> w.groups], list) IN
  [st EXCEPT !.ok = st.ok /\ Mounts(list)]

\* Physics::remove: what the body overlapped or touched goes with it.
TakeAway(w, e) ==
  [w EXCEPT !.bodies = Restrict(w.bodies, DOMAIN w.bodies \ {e}),
            !.pairs = {p \in w.pairs : e \notin {p[1], p[2]}},
            !.contacts = {c \in w.contacts : e \notin c}]

\* animate: another handle starts over from the world's clock.  `at` is when
\* the app gave it, for the properties.
Animate(w, anim, clip) ==
  IF clip = None THEN None
  ELSE IF anim # None /\ anim.clip = clip THEN anim
  ELSE [clip |-> clip, started |-> w.clock, ended |-> FALSE, at |-> now, ends |-> 0]

Fresh(w, id) ==
  LET Used == Entities(w) \union DOMAIN w.bodies \union UNION w.touching
                \union UNION {{p[1], p[2]} : p \in w.inside \union zones}
  IN <<id, CHOOSE n \in 1 .. Cardinality(Used) + 1 :
              /\ <<id, n>> \notin Used
              /\ \A m \in 1 .. n - 1 : <<id, m>> \in Used>>

\* One spec of an accepted description.  A body is kept while its shapes and
\* kind are; carried, the entity has none; let go, it is thrown.  `clear`:
\* a loose body rests where nothing overlaps it.
PlaceOne(w, s, clear) ==
  LET e == IF Named(w, s.id) # {} THEN CHOOSE x \in Named(w, s.id) : TRUE ELSE Fresh(w, s.id)
      old == IF e \in Entities(w) THEN w.ecs[e]
             ELSE [solid |-> None, to |-> None, ctl |-> FALSE, heading |-> None, anim |-> None]
      aloft == s.attach # None
      thrown == old.to # None
      shape == [collider |-> s.collider /\ ~aloft, sensor |-> s.sensor /\ ~aloft,
                moves |-> s.ctl, loose |-> s.loose, groups |-> s.groups]
      kept == old.solid # None /\ old.solid.shape = shape
      bodied == shape.collider \/ shape.sensor
      kind == IF s.ctl THEN "moved"
              ELSE IF shape.collider /\ (s.loose \/ thrown) THEN "dynamic" ELSE "fixed"
      awake == kind = "dynamic" /\ (thrown \/ ~clear)
      bare == IF ~kept /\ old.solid # None THEN TakeAway(w, e) ELSE w
      solid == IF kept THEN old.solid
               ELSE IF bodied THEN [shape |-> shape, sliding |-> awake] ELSE None
      body == IF ~kept /\ bodied
              THEN e :> [kind |-> kind, awake |-> awake] @@ bare.bodies ELSE bare.bodies
  IN [bare EXCEPT !.bodies = body,
        !.ecs = e :> [solid |-> solid, to |-> s.attach, ctl |-> s.ctl,
                      heading |-> IF s.ctl THEN old.heading ELSE None,
                      anim |-> Animate(w, old.anim, s.clip)] @@ w.ecs]

Despawn(w, e) ==
  LET bare == IF w.ecs[e].solid # None THEN TakeAway(w, e) ELSE w IN
  [bare EXCEPT !.ecs = Restrict(w.ecs, Entities(w) \ {e})]

\* reconcile, once its checks passed.
Reconcile(w, groups, list, clear) ==
  LET ids == {list[i].id : i \in DOMAIN list}
      ctl == \E i \in DOMAIN list : list[i].ctl
      base == DropUnheard([w EXCEPT !.groups = groups, !.controlled = ctl,
                !.ticking = ctl \/ \E i \in DOMAIN list : list[i].clip # None])
      placed == FoldLeft(LAMBDA x, s : PlaceOne(x, s, clear), base, list)
  IN FoldLeft(Despawn, placed, SetToSeq({e \in Entities(placed) : e[1] \notin ids}))

-----------------------------------------------------------------------------
\* body() with a tree that draws the world (build_world).  A description that
\* is refused shows an error instead of the tree; a size that is refused does
\* so after the entities were reconciled.
Shown(w, shown, had) ==
  /\ drawn' = shown
  /\ armed' = (shown /\ NeedsTicks(w)) /\ keyed' = (shown /\ WantsKeys(w))
  \* The runtime cancels the keys an element held when it loses the keyboard.
  /\ world' = IF had /\ ~keyed' THEN ReleaseAll(w) ELSE w
  /\ repaint' = FALSE

Forget(w) ==    \* what an app knows itself when it changes its description
  LET live == IF w = None THEN {} ELSE Entities(w) IN
  /\ zones' = {p \in zones : p[2] \in live}
  /\ dirs' = Restrict(dirs, {e \in DOMAIN dirs : e \in live})

View ==
  /\ queue = <<>>
  /\ \E d \in Descs, clear \in BOOLEAN :
       LET w == IF world = None THEN Default ELSE world
           ok == Checked(w, d.list)
           next == IF ok.ok
                   THEN DropUnheard([Reconcile(w, ok.groups, d.list, clear)
                                       EXCEPT !.actions = d.actions])
                   ELSE [w EXCEPT !.groups = ok.groups]
       IN Shown(next, ok.ok /\ d.sized, keyed) /\ Forget(next)
  /\ told' = None /\ UNCHANGED <<queue, outside, wants, off>>

\* A view that fails draws nothing; the worlds stay.
ViewFails ==
  /\ queue = <<>> /\ world # None /\ drawn
  /\ Shown(world, FALSE, keyed)
  /\ told' = None /\ UNCHANGED <<queue, outside, zones, dirs, wants, off>>

\* A frame whose tree leaves the world out drops it, its timers with it.
ViewWithout ==
  /\ queue = <<>> /\ world # None
  /\ world' = None /\ drawn' = FALSE /\ armed' = FALSE /\ keyed' = FALSE /\ repaint' = FALSE
  /\ Forget(None) /\ wants' = <<>>
  /\ told' = None /\ UNCHANGED <<queue, outside, off>>

-----------------------------------------------------------------------------
\* What a step may leave behind.  Walls are not sensed by walls, and two
\* shapes meet only if Rapier moves one of them.
CanSense(w) == {p \in (DOMAIN w.bodies) \X (DOMAIN w.bodies) :
                  /\ p[1] # p[2] /\ w.ecs[p[1]].solid.shape.sensor
                  /\ w.ecs[p[2]].solid.shape.collider
                  /\ {w.bodies[p[1]].kind, w.bodies[p[2]].kind} # {"fixed"}}
Moving(w) == {e \in DOMAIN w.bodies : w.bodies[e].kind = "dynamic"}
CanTouch(w) == {{a, b} : a \in Moving(w), b \in {e \in DOMAIN w.bodies :
                   w.ecs[e].solid.shape.collider}} \ {{e} : e \in DOMAIN w.bodies}

\* Physics::step: what meets what now, and which bodies still move.
Solved(w, pairs, contacts, awake) ==
  [w EXCEPT !.pairs = pairs, !.contacts = contacts,
            !.bodies = [e \in DOMAIN w.bodies |-> [w.bodies[e] EXCEPT
                          !.awake = w.bodies[e].kind = "dynamic" /\ e \in awake]]]

\* slide_thrown: a thrown body that settles is fixed again, a loose one sleeps.
SlideThrown(w, settled) ==
  LET Slid(e) == LET s == w.ecs[e].solid IN
                 s # None /\ (s.sliding \/ (s.shape.loose /\ w.bodies[e].awake))
      Rests(e) == IF w.ecs[e].solid.shape.loose THEN ~w.bodies[e].awake ELSE e \in settled
  IN [w EXCEPT
        !.bodies = [e \in DOMAIN w.bodies |->
           IF Slid(e) /\ ~w.ecs[e].solid.shape.loose /\ Rests(e)
           THEN [kind |-> "fixed", awake |-> FALSE] ELSE w.bodies[e]],
        !.ecs = [e \in Entities(w) |->
           IF Slid(e) THEN [w.ecs[e] EXCEPT !.solid.sliding = ~Rests(e)] ELSE w.ecs[e]]]

Step(w, pairs, contacts, awake, settled) ==
  SlideThrown(Solved(w, pairs, contacts, awake), settled)

\* sense: a pair whose entity is gone goes quietly.
Sensed(w) == {[kind |-> "enter", id |-> p[1], who |-> p[2]] :
                p \in {q \in w.pairs \ w.inside : {q[1], q[2]} \subseteq Entities(w)}}
Unsensed(w) == {[kind |-> "exit", id |-> p[1], who |-> p[2]] :
                p \in {q \in w.inside \ w.pairs : {q[1], q[2]} \subseteq Entities(w)}}

\* hits: a new contact that closed fast, once for each that Rapier moves.
Hits(w, fast) ==
  {[kind |-> "hit", id |-> p[1], who |-> p[2]] :
     p \in {q \in Entities(w) \X Entities(w) :
              /\ {q[1], q[2]} \in (w.contacts \ w.touching) \intersect fast
              /\ q[1] # q[2]
              /\ LET s == w.ecs[q[1]].solid IN s # None /\ (s.sliding \/ s.shape.loose)}}

\* The controllers: one axis each.
Axis(w) == (IF Pos \in w.held THEN 1 ELSE 0) - (IF Neg \in w.held THEN 1 ELSE 0)
Turned(w) == {e \in Entities(w) : /\ w.ecs[e].ctl /\ w.ecs[e].heading # Axis(w)
                                  /\ w.ecs[e].heading # None \/ Axis(w) # 0}
Ended(w) == {e \in Entities(w) :
               LET a == w.ecs[e].anim IN
               a # None /\ ~a.ended /\ w.clock - a.started >= Length[a.clip]}
Due(w) == {n \in DOMAIN w.timers : w.timers[n].due <= w.clock}


Moments(w, fast) ==
  SetToSeq(Unsensed(w) \union Sensed(w)) \o SetToSeq(Hits(w, fast))
    \o SetToSeq({[kind |-> "move", id |-> e, dir |-> Axis(w)] : e \in Turned(w)})
    \o SetToSeq({[kind |-> "end", id |-> e] : e \in Ended(w)})
    \o SetToSortSeq({[kind |-> "timer", name |-> n, due |-> w.timers[n].due] : n \in Due(w)},
                    LAMBDA x, y : x.due < y.due)

\* What the tick leaves, once the moments are collected.
Noted(w) ==
  [w EXCEPT !.inside = w.pairs, !.touching = w.contacts,
     !.timers = Restrict(w.timers, DOMAIN w.timers \ Due(w)),
     !.ecs = [e \in Entities(w) |-> [w.ecs[e] EXCEPT
        !.heading = IF w.ecs[e].ctl THEN Axis(w) ELSE w.ecs[e].heading,
        !.anim = IF e \in Ended(w)
                 THEN [w.ecs[e].anim EXCEPT !.ended = TRUE, !.ends = @ + 1] ELSE @]]]

\* The clock first; a timer counts from the first frame after it was asked.
Clocked(w, t) ==
  [w EXCEPT !.clock = t,
     !.timers = [n \in DOMAIN w.timers |-> IF w.timers[n].due = None
                   THEN [w.timers[n] EXCEPT !.due = t + w.timers[n].secs] ELSE w.timers[n]]]

\* TickWorld, from the tree just shown: `passed` is dt > 0, without which
\* Rapier does not step.
Tick(passed) ==
  /\ queue = <<>> /\ armed /\ ~repaint
  /\ LET w == Clocked(world, now) IN
     \E pairs \in IF passed THEN SUBSET CanSense(w) ELSE {w.pairs},
        contacts \in IF passed THEN SUBSET CanTouch(w) ELSE {w.contacts} :
     \E awake \in IF passed THEN SUBSET Moving(w)
                  ELSE {{e \in DOMAIN w.bodies : w.bodies[e].awake}},
        settled \in SUBSET {e \in Moving(w) : ~w.ecs[e].solid.shape.loose},
        fast \in {{}, contacts} :
       LET stepped == Step(w, pairs, contacts, awake, settled) IN
       /\ queue' = Moments(stepped, fast)
       /\ world' = Noted(stepped)
       /\ wants' = [n \in DOMAIN wants \ Due(stepped) |->
                      IF wants[n].from = None THEN [wants[n] EXCEPT !.from = now] ELSE wants[n]]
       /\ zones' = {p \in zones : p[1] \in Entities(w)}
  /\ repaint' = TRUE /\ told' = None /\ off' = {}
  /\ UNCHANGED <<drawn, armed, keyed, outside, dirs>>

-----------------------------------------------------------------------------
\* after, cancel and set, as a handler calls them through world(id).
\* Mutant: the due time from the clock as it stands
AfterNow(w, n, secs) ==
  [w EXCEPT !.timers = n :> [secs |-> secs, due |-> w.clock + secs] @@ w.timers]
After(w, n, secs) ==
  [w EXCEPT !.timers = n :> [secs |-> secs, due |-> None] @@ w.timers]
Cancel(w, n) == [w EXCEPT !.timers = Restrict(w.timers, DOMAIN w.timers \ {n})]
Set(w, e) ==
  IF w.ecs[e].to # None \/ w.ecs[e].solid = None THEN w
  ELSE [w EXCEPT !.bodies[e].awake = w.bodies[e].kind = "dynamic",
                 !.ecs[e].solid.sliding = @ \/ w.ecs[e].solid.shape.loose]

\* At most one command, or none.
CalledOff(n) == off' = IF queue = <<>> THEN off ELSE off \union {n}
Commanded ==
  \/ UNCHANGED <<world, wants, off>>
  \/ /\ "after" \in Commands /\ world # None
     /\ \E n \in Timers, s \in Secs :
          /\ world' = After(world, n, s)
          /\ wants' = n :> [secs |-> s, from |-> None] @@ wants
          /\ CalledOff(n)
  \/ /\ "cancel" \in Commands /\ world # None
     /\ \E n \in Timers : /\ world' = Cancel(world, n)
                          /\ wants' = Restrict(wants, DOMAIN wants \ {n})
                          /\ CalledOff(n)
  \/ /\ "set" \in Commands /\ world # None
     /\ \E e \in Entities(world) : world' = Set(world, e)
     /\ UNCHANGED <<wants, off>>

\* world_events: the next moment goes to its handler.
Handle ==
  /\ queue # <<>>
  /\ LET m == Head(queue) IN
     /\ told' = m
     /\ zones' = CASE m.kind = "enter" -> zones \union {<<m.id, m.who>>}
                   [] m.kind = "exit" -> zones \ {<<m.id, m.who>>}
                   [] OTHER -> zones
     /\ dirs' = IF m.kind = "move" THEN m.id :> m.dir @@ dirs ELSE dirs
  /\ queue' = Tail(queue)
  /\ Commanded
  /\ UNCHANGED <<drawn, armed, keyed, repaint, outside>>

\* Another element's handler commands the world.
Command ==
  /\ queue = <<>> /\ Commanded /\ world' # world
  /\ repaint' = TRUE /\ told' = None
  /\ UNCHANGED <<drawn, armed, keyed, queue, outside, zones, dirs>>

\* key(code, down), from KeyWorld.
KeyTo(w, k, dn) == [w EXCEPT !.held = IF dn THEN @ \union {k} ELSE @ \ {k}]
Fired(w, k, fresh) ==
  IF k \in w.held THEN {} ELSE {[kind |-> "action", name |-> a[1], fresh |-> fresh] :
                                 a \in {x \in w.actions : x[2] = k}}
KeyEvent(k, dn, fresh) ==
  /\ queue = <<>> /\ down' = IF dn THEN down \union {k} ELSE down \ {k}
  /\ IF keyed /\ focus
     THEN /\ world' = KeyTo(world, k, dn)
          /\ queue' = IF dn THEN SetToSeq(Fired(world, k, fresh)) ELSE <<>>
          /\ repaint' = TRUE
     ELSE UNCHANGED <<world, queue, repaint>>
  /\ off' = {} /\ told' = None
  /\ UNCHANGED <<drawn, armed, keyed, now, focus, zones, dirs, wants>>
Press(k) == k \notin down /\ KeyEvent(k, TRUE, TRUE)
Repeat(k) == k \in down /\ KeyEvent(k, TRUE, FALSE)
Release(k) == k \in down /\ KeyEvent(k, FALSE, FALSE)

\* The window loses the focus: the runtime cancels the keys (KeyWorld,
\* cancelled); or it comes back.
Blur ==
  /\ queue = <<>> /\ focus /\ focus' = FALSE
  /\ world' = IF keyed THEN ReleaseAll(world) ELSE world
  /\ repaint' = (repaint \/ keyed) /\ told' = None
  /\ UNCHANGED <<drawn, armed, keyed, queue, now, down, zones, dirs, wants, off>>
Focus ==
  /\ queue = <<>> /\ ~focus /\ focus' = TRUE /\ told' = None
  /\ UNCHANGED <<app, now, down, zones, dirs, wants, off>>

Pass ==
  /\ queue = <<>> /\ now < MaxTime /\ now' = now + 1 /\ told' = None
  /\ UNCHANGED <<app, down, focus, zones, dirs, wants, off>>

Init == /\ world = None /\ drawn = FALSE /\ armed = FALSE /\ keyed = FALSE
        /\ repaint = TRUE /\ queue = <<>>
        /\ now = 0 /\ down = {} /\ focus = TRUE
        /\ told = None /\ zones = {} /\ dirs = <<>> /\ wants = <<>> /\ off = {}

Next ==
  \/ View \/ ViewFails \/ ViewWithout
  \/ \E p \in BOOLEAN : Tick(p)
  \/ Handle \/ Command
  \/ \E k \in Keys : Press(k) \/ Repeat(k) \/ Release(k)
  \/ Blur \/ Focus \/ Pass
Spec == Init /\ [][Next]_vars

-----------------------------------------------------------------------------

\* The world the code keeps is well formed.
TypeOK ==
  /\ {drawn, armed, keyed, repaint, focus} \subseteq BOOLEAN /\ down \subseteq Keys
  /\ now \in 0 .. MaxTime /\ DOMAIN wants \subseteq Timers /\ off \subseteq Timers
  /\ world # None =>
       /\ world.clock \in 0 .. now /\ world.held \subseteq Keys
       /\ Cardinality(world.groups) <= MaxGroups
       /\ \A e \in Entities(world) :
            /\ e[1] \in Ids /\ Cardinality(Named(world, e[1])) = 1
            /\ world.ecs[e].heading \in {None, -1, 0, 1}

\* Every body belongs to an entity that is on the floor and has shapes, and
\* only what Rapier moves is followed: none is leaked by a rebuild, a carry or
\* a despawn, and no slide outlives its body.
BodiesAreSolids ==
  world # None =>
    /\ DOMAIN world.bodies = {e \in Entities(world) : world.ecs[e].solid # None}
    /\ \A e \in DOMAIN world.bodies :
         LET s == world.ecs[e].solid IN
         /\ world.ecs[e].to = None
         /\ s.sliding \/ s.shape.loose => world.bodies[e].kind = "dynamic"

\* What the app was told of a sensor is what the world last saw, for the
\* entities that still are: no enter is lost, doubled or left open.
ZonesAgree ==
  world # None /\ queue = <<>> =>
    {p \in zones : p[1] \in Entities(world)}
      = {p \in world.inside : {p[1], p[2]} \subseteq Entities(world)}

\* A meeting is one hit: what touched after the last frame is not hit again.
HitOnce ==
  [][\A i \in DOMAIN queue' : (queue = <<>> /\ queue'[i].kind = "hit") =>
       {queue'[i].id, queue'[i].who} \notin world.contacts]_vars

Fires(n) == \E i \in DOMAIN queue' : queue'[i].kind = "timer" /\ queue'[i].name = n

\* A timer fires at the first frame at or after its seconds have passed from
\* the frame after it was asked: never before, never later.
TimersOnTime ==
  [][/\ world' # None => \A n \in DOMAIN wants' :
          /\ n \in DOMAIN world'.timers
          /\ wants'[n].from # None => world'.clock < wants'[n].from + wants'[n].secs
     /\ queue = <<>> => \A n \in Timers : Fires(n) =>
          /\ n \in DOMAIN wants
          /\ now >= wants[n].secs + IF wants[n].from = None THEN now ELSE wants[n].from]_vars

\* No wakeup is lost: a world on screen with a timer to fire, a body sliding
\* or a clip playing has its frames, or a view is due.
PendingTicks ==
  (drawn /\ ~repaint) =>
    \/ armed
    \/ /\ world.timers = <<>>
       /\ \A e \in Entities(world) :
            /\ world.ecs[e].anim = None /\ ~world.ecs[e].ctl
            /\ world.ecs[e].solid # None => ~world.ecs[e].solid.sliding

\* A key the world holds is down, and the world would hear it come up.
HeldKeysAreDown == world # None => world.held \subseteq down /\ (world.held # {} => keyed)

\* One end for each play: the same handle described again is the same play.
OneEndPerPlay ==
  world # None => \A e \in Entities(world) :
    world.ecs[e].anim # None => world.ecs[e].anim.ends <= 1

-----------------------------------------------------------------------------
\* "All-or-nothing: every check and every pose runs before the world is
\* touched, so a bad description leaves the last good world in place"
\* (reconcile).
RefusedChangesNothing ==
  [][(queue = <<>> /\ drawn /\ ~drawn' /\ world' # None) =>
       /\ world'.groups = world.groups /\ world'.ecs = world.ecs
       /\ world'.bodies = world.bodies /\ world'.timers = world.timers]_vars

\* "Taking a sensor away (carrying, despawning) is a leave for whoever was in
\* it" (lua-apps.md).
SensorGoneIsLeft ==
  [][(queue = <<>> /\ world' # None) =>
       \A p \in zones \ zones' : p[2] \in Entities(world') =>
         \E i \in DOMAIN queue' : queue'[i].kind = "exit" /\ queue'[i].id = p[1]]_vars

\* "world("rink"):cancel("faceoff") -- never mind", and asked anew a timer
\* "starts over" (lua-apps.md).
CancelledNeverFires ==
  [][(told'  # None /\ told'.kind = "timer" /\ queue # queue') => told'.name \notin off]_vars

\* "A clip plays from the moment its handle first appears on the entity"
\* (lua-apps.md): its end comes no sooner than its length after that.
ClipPlaysWhole ==
  [][(queue = <<>> /\ world' # None) => \A e \in Entities(world') :
       LET a == world'.ecs[e].anim IN
       (a # None /\ a.ended) => now' >= a.at + Length[a.clip]]_vars

\* "A fresh press of the key an action names; a held key's repeats are not
\* presses" (WorldEvent::Action).
RepeatsAreNoPress == (told # None /\ told.kind = "action") => told.fresh

\* "on_move when a controlled entity's held direction changes: it starts,
\* turns or stops" (lua-apps.md): after a frame, what was told is so.
StopsAreTold ==
  world # None /\ queue = <<>> =>
    \A e \in Entities(world) : world.ecs[e].heading # None =>
      world.ecs[e].heading = IF e \in DOMAIN dirs THEN dirs[e] ELSE 0
=============================================================================
