--------------------------- MODULE AppHostProofs ----------------------------
(***************************************************************************)
(* What holds of an open app, its documents and the vault for any sources, *)
(* documents and elements, and any number of writes, edits and faults.     *)
(* The invariant is about the app as each step of a message leaves it, not *)
(* only as the message ends: Good is what reloads and flushes hand on.     *)
(***************************************************************************)
EXTENDS AppHost, TLAPS

CoreTables == UNION {[S -> Core] : S \in SUBSET DocName}
MirrorTables == UNION {[S -> Mirror] : S \in SUBSET DocName}
DraftTables == UNION {[S -> Draft] : S \in SUBSET Id}
App == [src : Source, version : 0..MaxEdits, seen : Nat, running : Source, ran : SUBSET Source,
        error : BOOLEAN, banner : BOOLEAN, tries : Nat, cores : CoreTables,
        mirrors : MirrorTables, state : DraftTables, handlers : SUBSET Id]

\* A document is never behind the vault, and what its watermark calls saved is.
CoreKnown(c, stored) ==
  /\ c.saved <= c.version /\ stored <= c.val
  /\ c.half => c.val > 0
  /\ (c.version = c.saved /\ ~c.half) => stored = c.val

\* A mirror is never ahead of its document, and up to date if it says so.
MirrorKnown(m, c) ==
  /\ m.at <= c.version
  /\ (m.at = c.version /\ ~c.half) => m.val = c.val

CoresKnown(cores) == \A d \in DOMAIN cores : CoreKnown(cores[d], vault[d])
MirrorsKnown(mirrors, cores) ==
  \A d \in DOMAIN mirrors : d \in DOMAIN cores /\ MirrorKnown(mirrors[d], cores[d])

\* Between any two steps of a message: either the source runs, or the banner is
\* up, or an edit has not been tried yet.
Good(a) ==
  /\ a \in App
  /\ a.seen <= a.version
  /\ a.handlers \subseteq Draws[a.running]
  /\ a.running = a.src \/ a.banner \/ a.seen < a.version
  /\ CoresKnown(a.cores) /\ MirrorsKnown(a.mirrors, a.cores)

Types ==
  /\ src \in Source /\ vault \in [DocName -> 0..MaxWrites] /\ faults \in 0..MaxFaults
  /\ saveError \in BOOLEAN /\ answer \in {None, "activated", "failed", "error", "closed"}
  /\ app = None \/ app \in App

IInv ==
  /\ Types
  /\ IsOpen => Good(app) /\ app.tries <= app.seen /\ app.seen = app.version
  /\ UnsavedIsReported

-----------------------------------------------------------------------------
(* Documents: what a write, a seal and a seed do to one *)

LEMMA CoreIs ==
  ASSUME NEW c \in Core
  PROVE  /\ c.val \in Nat /\ c.half \in BOOLEAN /\ c.version \in Nat /\ c.saved \in Nat
         /\ c.version + 1 \in Nat
         /\ c.val < MaxWrites => c.val + 1 \in 0..MaxWrites
  BY AppHostAssumption DEF Core

LEMMA CommitIs ==
  ASSUME NEW c \in Core
  PROVE  /\ Commit(c).val = c.val + 1 /\ ~Commit(c).half
         /\ Commit(c).version = c.version + 1 /\ Commit(c).saved = c.saved
         /\ c.val < MaxWrites => Commit(c) \in Core
<1>1. /\ Commit(c).val = c.val + 1 /\ ~Commit(c).half
      /\ Commit(c).version = c.version + 1 /\ Commit(c).saved = c.saved
  BY DEF Commit, Core
<1>2. ASSUME c.val < MaxWrites PROVE Commit(c) \in Core
  <2>1. c.val + 1 \in 0..MaxWrites /\ c.version + 1 \in Nat
    BY <1>2, CoreIs
  <2> QED BY <2>1 DEF Commit, Core
<1> QED BY <1>1, <1>2

LEMMA SealedIs ==
  ASSUME NEW c \in Core
  PROVE  /\ Sealed(c) \in Core /\ ~Sealed(c).half /\ Sealed(c).val = c.val
         /\ Sealed(c).saved = c.saved
         /\ Sealed(c).version = IF c.half THEN c.version + 1 ELSE c.version
         /\ ~c.half => Sealed(c) = c
<1>1. c.version + 1 \in Nat /\ c.half \in BOOLEAN
  BY CoreIs
<1>2. CASE c.half
  <2>1. Sealed(c) = [c EXCEPT !.half = FALSE, !.version = c.version + 1]
    BY <1>2 DEF Sealed
  <2>2. Sealed(c) \in Core
    BY <1>1, <2>1 DEF Core
  <2>3. /\ ~Sealed(c).half /\ Sealed(c).val = c.val /\ Sealed(c).saved = c.saved
        /\ Sealed(c).version = c.version + 1
    BY <2>1 DEF Core
  <2> QED BY <1>2, <2>2, <2>3
<1>3. CASE ~c.half
  <2>1. Sealed(c) = c
    BY <1>3 DEF Sealed
  <2> QED BY <1>1, <1>3, <2>1
<1> QED BY <1>2, <1>3

\* A document and its mirrors stay known when it moves on to a higher version.
LEMMA MovesOn ==
  ASSUME NEW c \in Core, NEW b \in Core, NEW stored \in Nat, CoreKnown(c, stored),
         b.val >= c.val, b.saved = c.saved, b.half => b.val > 0,
         b.version >= c.version, b.version = c.version => b.half
  PROVE  /\ CoreKnown(b, stored)
         /\ \A m \in Mirror : MirrorKnown(m, c) => MirrorKnown(m, b)
<1>1. /\ c.val \in Nat /\ c.version \in Nat /\ c.saved \in Nat
      /\ b.val \in Nat /\ b.version \in Nat /\ b.saved \in Nat
  BY CoreIs
<1>2. CoreKnown(b, stored)
  BY <1>1 DEF CoreKnown
<1>3. ASSUME NEW m \in Mirror, MirrorKnown(m, c) PROVE MirrorKnown(m, b)
  <2>1. m.at \in Nat
    BY DEF Mirror
  <2> QED BY <1>1, <1>3, <2>1 DEF MirrorKnown
<1> QED BY <1>2, <1>3

\* So it does with something more written in it, whole or half way, and when sealed.
LEMMA WriteKeepsKnown ==
  ASSUME NEW c \in Core, NEW stored \in Nat, CoreKnown(c, stored), NEW b \in Core,
         b \in {Commit(c), Sealed(c), Commit(Sealed(c)), HalfWritten(c)}
  PROVE  /\ CoreKnown(b, stored)
         /\ \A m \in Mirror : MirrorKnown(m, c) => MirrorKnown(m, b)
<1>0. c.val \in Nat /\ c.version \in Nat /\ c.saved \in Nat /\ c.half \in BOOLEAN
  BY CoreIs
<1>1. CASE b = Commit(c)
  BY <1>0, <1>1, CommitIs, MovesOn
<1>2. CASE b = Sealed(c)
  <2>1. CASE c.half
    BY <1>0, <1>2, <2>1, SealedIs, MovesOn
  <2>2. CASE ~c.half
    BY <1>2, <2>2, SealedIs
  <2> QED BY <2>1, <2>2
<1>3. CASE b = Commit(Sealed(c))
  <2>1. /\ b.val = Sealed(c).val + 1 /\ ~b.half
        /\ b.version = Sealed(c).version + 1 /\ b.saved = Sealed(c).saved
    BY <1>3, SealedIs, CommitIs
  <2>2. /\ b.val >= c.val /\ b.saved = c.saved
        /\ b.version >= c.version /\ b.version # c.version
    BY <1>0, <2>1, SealedIs
  <2> QED BY <1>0, <2>1, <2>2, MovesOn
<1>4. CASE b = HalfWritten(c)
  <2>1. b.val = c.val + 1 /\ b.half /\ b.version = c.version /\ b.saved = c.saved
    BY <1>4 DEF HalfWritten, Core
  <2> QED BY <1>0, <2>1, MovesOn
<1> QED BY <1>1, <1>2, <1>3, <1>4

\* What main.lua opens: a core of an earlier VM, or what the vault has.
LEMMA LoadedKnown ==
  ASSUME NEW cores \in CoreTables, CoresKnown(cores), vault \in [DocName -> 0..MaxWrites],
         NEW readable, NEW d \in DocName, d \in DOMAIN cores \/ d \in readable
  PROVE  /\ Loaded(cores, d, readable) \in Core
         /\ CoreKnown(Loaded(cores, d, readable), vault[d])
         /\ d \notin DOMAIN cores =>
              /\ Loaded(cores, d, readable).val = vault[d] /\ ~Loaded(cores, d, readable).half
              /\ Loaded(cores, d, readable).version = 0
  <1>1. CASE d \in DOMAIN cores
    BY <1>1 DEF Loaded, CoresKnown, CoreTables
  <1>2. CASE d \notin DOMAIN cores
    <2>1. vault[d] \in 0..MaxWrites /\ vault[d] <= vault[d] /\ vault[d] \in Nat
      BY AppHostAssumption
    <2>2. Loaded(cores, d, readable) = [val |-> vault[d], half |-> FALSE, version |-> 0, saved |-> 0]
      BY <1>2 DEF Loaded, FromVault
    <2> QED BY <1>2, <2>1, <2>2 DEF Core, CoreKnown
  <1> QED BY <1>1, <1>2

LEMMA SeededKnown ==
  ASSUME NEW c \in Core, NEW stored \in Nat, CoreKnown(c, stored)
  PROVE  /\ Seeded(c) \in Core /\ CoreKnown(Seeded(c), stored)
         /\ \A m \in Mirror : MirrorKnown(m, c) => MirrorKnown(m, Seeded(c))
<1>1. c.val = 0 => Commit(c) \in Core
  <2>1. 0 < MaxWrites
    BY AppHostAssumption
  <2> QED BY <2>1, CommitIs
<1>2. CASE c.val = 0
  BY <1>1, <1>2, WriteKeepsKnown DEF Seeded
<1>3. CASE c.val # 0
  BY <1>3 DEF Seeded
<1> QED BY <1>2, <1>3

\* What a reload, or an open, leaves of the documents, whether or not it succeeds
LEMMA CoresAfterKnown ==
  ASSUME NEW s \in Source, NEW cores \in CoreTables, CoresKnown(cores), NEW readable \in SUBSET DocName,
         vault \in [DocName -> 0..MaxWrites]
  PROVE  /\ CoresAfter(s, cores, readable) \in CoreTables
         /\ CoresKnown(CoresAfter(s, cores, readable))
         /\ Mirrors(s, cores, readable) \in MirrorTables
         /\ MirrorsKnown(Mirrors(s, cores, readable), CoresAfter(s, cores, readable))
         /\ \A mirrors \in MirrorTables : MirrorsKnown(mirrors, cores)
              => MirrorsKnown(mirrors, CoresAfter(s, cores, readable))
<1> DEFINE opened == Opened(s, cores, readable)
           after == CoresAfter(s, cores, readable)
           mine == Mirrors(s, cores, readable)
<1>1. /\ Opens[s] \subseteq DocName /\ DOMAIN cores \subseteq DocName
      /\ \A d \in DOMAIN cores : cores[d] \in Core
      /\ opened \subseteq Opens[s] /\ \A d \in opened : d \in DOMAIN cores \/ d \in readable
  BY AppHostAssumption DEF CoreTables, Opened
<1>2. /\ DOMAIN after = DOMAIN cores \cup opened
      /\ \A d \in DOMAIN after :
           after[d] = IF d \in Opens[s] THEN Seeded(Loaded(cores, d, readable)) ELSE cores[d]
      /\ after = [d \in DOMAIN cores \cup opened |-> after[d]]
  BY DEF CoresAfter
<1>3. DOMAIN mine = opened /\ \A d \in opened : mine[d] = MirrorOf(s, cores, readable, d)
  BY DEF Mirrors
<1>v. \A d \in DocName : vault[d] \in Nat
  BY AppHostAssumption
<1> HIDE DEF opened, after, mine
<1>4. ASSUME NEW d \in DOMAIN after
      PROVE  /\ after[d] \in Core /\ CoreKnown(after[d], vault[d])
             /\ d \in DOMAIN cores =>
                  \A m \in Mirror : MirrorKnown(m, cores[d]) => MirrorKnown(m, after[d])
  <2>1. d \in DocName /\ vault[d] \in Nat /\ (d \in DOMAIN cores \/ d \in readable)
    BY <1>1, <1>2, <1>v
  <2>2. CASE d \in Opens[s]
    <3>1. PICK c \in Core : c = Loaded(cores, d, readable) /\ CoreKnown(c, vault[d])
      BY <2>1, LoadedKnown
    <3>2. after[d] = Seeded(c) /\ (d \in DOMAIN cores => c = cores[d])
      BY <1>2, <2>2, <3>1 DEF Loaded
    <3> QED BY <2>1, <3>1, <3>2, SeededKnown
  <2>3. CASE d \notin Opens[s]
    <3>1. after[d] = cores[d] /\ d \in DOMAIN cores
      BY <1>1, <1>2, <2>3
    <3> QED BY <1>1, <3>1 DEF CoresKnown
  <2> QED BY <2>2, <2>3
<1>5. after \in CoreTables
  <2>1. after \in [DOMAIN after -> Core] /\ DOMAIN after \subseteq DocName
    BY <1>1, <1>2, <1>4
  <2> QED BY <2>1 DEF CoreTables
<1>6. CoresKnown(after)
  BY <1>4 DEF CoresKnown
<1>7. ASSUME NEW d \in opened
      PROVE  mine[d] \in Mirror /\ d \in DOMAIN after /\ MirrorKnown(mine[d], after[d])
  <2>1. d \in DocName /\ (d \in DOMAIN cores \/ d \in readable) /\ d \in DOMAIN after
    BY <1>1, <1>2
  <2>2. PICK c \in Core : c = Loaded(cores, d, readable) /\ CoreKnown(c, vault[d])
    BY <2>1, LoadedKnown
  <2>3. after[d] = Seeded(c) /\ mine[d] = [val |-> c.val, at |-> 0]
    BY <1>1, <1>2, <1>3, <2>1, <2>2 DEF MirrorOf
  <2>4. mine[d] \in Mirror /\ MirrorKnown(mine[d], c)
    BY <2>3 DEF Core, Mirror, MirrorKnown
  <2> QED BY <1>v, <2>1, <2>2, <2>3, <2>4, SeededKnown
<1>8. mine \in MirrorTables
  <2>1. mine \in [opened -> Mirror] /\ opened \subseteq DocName
    BY <1>1, <1>3, <1>7 DEF mine, Mirrors, opened
  <2> QED BY <2>1 DEF MirrorTables
<1>9. MirrorsKnown(mine, after)
  BY <1>3, <1>7 DEF MirrorsKnown
<1>10. ASSUME NEW mirrors \in MirrorTables, MirrorsKnown(mirrors, cores)
       PROVE  MirrorsKnown(mirrors, after)
  <2>1. \A d \in DOMAIN mirrors : mirrors[d] \in Mirror
    BY DEF MirrorTables
  <2> QED BY <1>2, <1>4, <1>10, <2>1 DEF MirrorsKnown
<1> QED BY <1>5, <1>6, <1>8, <1>9, <1>10 DEF after, mine

-----------------------------------------------------------------------------
(* Reloads *)

LEMMA DrawnIs ==
  ASSUME NEW s \in Source, NEW state \in DraftTables
  PROVE  /\ Drawn(s, state) \in DraftTables /\ DOMAIN Drawn(s, state) = Draws[s]
         /\ \A id \in DOMAIN state \cap Draws[s] : Drawn(s, state)[id] = state[id]
<1>1. Draws[s] \subseteq Id /\ \A id \in DOMAIN state : state[id] \in Draft
  BY AppHostAssumption DEF DraftTables
<1>2. Drawn(s, state) \in [Draws[s] -> Draft]
  BY <1>1 DEF Drawn, Draft
<1>3. Drawn(s, state) \in DraftTables
  BY <1>1, <1>2 DEF DraftTables
<1> QED BY <1>3 DEF Drawn

LEMMA CarriedIs ==
  ASSUME NEW state \in DraftTables
  PROVE  /\ Carried(state) \in DraftTables
         /\ \A id \in DOMAIN state :
              state[id] = "typed" => id \in DOMAIN Carried(state) /\ Carried(state)[id] = "typed"
<1> DEFINE kept == {i \in DOMAIN state : state[i] # "bound"}
<1>1. DOMAIN state \subseteq Id /\ \A id \in DOMAIN state : state[id] \in Draft
  BY DEF DraftTables
<1>2. Carried(state) \in [kept -> Draft] /\ kept \subseteq Id
  BY <1>1 DEF Carried
<1>3. Carried(state) \in DraftTables
  BY <1>2 DEF DraftTables
<1> QED BY <1>3 DEF Carried

\* What was typed is there in b as it was in a.
DraftsKept(a, b) ==
  \A id \in DOMAIN a.state :
    (a.state[id] = "typed" /\ id \in Draws[a.running] \cap Draws[b.running])
      => id \in DOMAIN b.state /\ b.state[id] = "typed"

LEMMA AppIs ==
  ASSUME NEW a \in App
  PROVE  /\ a.src \in Source /\ a.version \in 0..MaxEdits /\ a.seen \in Nat /\ a.running \in Source
         /\ a.ran \in SUBSET Source /\ a.error \in BOOLEAN /\ a.banner \in BOOLEAN /\ a.tries \in Nat
         /\ a.cores \in CoreTables /\ a.mirrors \in MirrorTables /\ a.state \in DraftTables
         /\ a.handlers \in SUBSET Id /\ a.version \in Nat
  BY AppHostAssumption DEF App

\* An app whose documents have moved on, and nothing else
LEMMA WithCores ==
  ASSUME NEW a, Good(a), NEW cores \in CoreTables, CoresKnown(cores), MirrorsKnown(a.mirrors, cores)
  PROVE  LET b == [a EXCEPT !.cores = cores]
         IN  /\ Good(b) /\ b.cores = cores /\ b.mirrors = a.mirrors
             /\ b.src = a.src /\ b.version = a.version /\ b.seen = a.seen /\ b.running = a.running
             /\ b.banner = a.banner /\ b.state = a.state /\ b.tries = a.tries /\ b.ran = a.ran
             /\ b.handlers = a.handlers
<1> DEFINE b == [a EXCEPT !.cores = cores]
<1>1. a \in App
  BY DEF Good
<1>2. /\ b \in App /\ b.cores = cores /\ b.mirrors = a.mirrors
      /\ b.src = a.src /\ b.version = a.version /\ b.seen = a.seen /\ b.running = a.running
      /\ b.banner = a.banner /\ b.state = a.state /\ b.tries = a.tries /\ b.ran = a.ran
      /\ b.handlers = a.handlers
  BY <1>1 DEF App
<1> HIDE DEF b
<1>3. Good(b)
  BY <1>2 DEF Good
<1> QED BY <1>2, <1>3 DEF b

\* LuaApp::reload, whether it succeeds or not
LEMMA ReloadGood ==
  ASSUME NEW a, Good(a), NEW readable \in SUBSET DocName, vault \in [DocName -> 0..MaxWrites]
  PROVE  LET r == Reload(a, readable)
         IN  /\ Good(r.app) /\ DraftsKept(a, r.app)
             /\ r.app.src = a.src /\ r.app.version = a.version /\ r.app.tries = a.tries
             /\ IF r.ok THEN r.app.running = a.src /\ r.app.seen = a.version
                ELSE r.app.running = a.running /\ r.app.seen = a.seen
<1> DEFINE cores == CoresAfter(a.src, a.cores, readable)
           mirrors == Mirrors(a.src, a.cores, readable)
           r == Reload(a, readable)
<1>1. a \in App /\ CoresKnown(a.cores) /\ MirrorsKnown(a.mirrors, a.cores)
  BY DEF Good
<1>2. /\ a.src \in Source /\ a.cores \in CoreTables /\ a.mirrors \in MirrorTables
      /\ a.state \in DraftTables /\ a.running \in Source /\ a.version \in 0..MaxEdits
      /\ a.version \in Nat /\ a.ran \in SUBSET Source /\ a.tries \in Nat /\ a.seen \in Nat
  BY <1>1, AppIs
<1>3. /\ cores \in CoreTables /\ CoresKnown(cores)
      /\ mirrors \in MirrorTables /\ MirrorsKnown(mirrors, cores)
      /\ MirrorsKnown(a.mirrors, cores)
  BY <1>1, <1>2, CoresAfterKnown
<1>4. DraftsKept(a, a)
  BY DEF DraftsKept
<1> HIDE DEF cores, mirrors
<1>5. CASE Main[a.src] = "missing"
  <2>1. r = [ok |-> FALSE, app |-> a]
    BY <1>5 DEF Reload
  <2>2. ~r.ok /\ r.app = a
    BY <2>1
  <2> QED BY <1>4, <2>2
<1>6. CASE Main[a.src] # "missing" /\ (~Evaluates(a.src, a.cores, readable) \/ ViewFails(a.src, mirrors))
  <2>1. r = [ok |-> FALSE, app |-> [a EXCEPT !.cores = cores]]
    BY <1>6 DEF Reload, cores, mirrors
  <2>2. ~r.ok /\ r.app = [a EXCEPT !.cores = cores]
    BY <2>1
  <2>3. /\ Good(r.app) /\ r.app.src = a.src /\ r.app.version = a.version /\ r.app.tries = a.tries
        /\ r.app.running = a.running /\ r.app.seen = a.seen /\ r.app.state = a.state
    BY <1>3, <2>2, WithCores
  <2>4. DraftsKept(a, r.app)
    BY <2>3 DEF DraftsKept
  <2> QED BY <2>2, <2>3, <2>4
<1>7. CASE ~(Main[a.src] = "missing" \/ ~Evaluates(a.src, a.cores, readable) \/ ViewFails(a.src, mirrors))
  <2> DEFINE state == Drawn(a.src, Carried(a.state))
             b == [a EXCEPT !.cores = cores, !.mirrors = mirrors, !.running = a.src,
                            !.ran = {a.src}, !.error = FALSE, !.banner = FALSE, !.seen = a.version,
                            !.state = state, !.handlers = NoHandlers(a)]
  <2>1. r = [ok |-> TRUE, app |-> b]
    BY <1>7 DEF Reload, cores, mirrors
  <2>2. r.ok /\ r.app = b
    BY <2>1
  <2>3. state \in DraftTables
    BY <1>2, DrawnIs, CarriedIs
  <2>4. NoHandlers(a) = {}
    BY DEF NoHandlers
  <2> HIDE DEF state
  <2>5. /\ b.src = a.src /\ b.version = a.version /\ b.seen = a.version /\ b.running = a.src
        /\ b.tries = a.tries /\ b.cores = cores /\ b.mirrors = mirrors /\ b.state = state
        /\ b.handlers = {}
    BY <1>1, <2>4 DEF App
  <2>6. b \in App
    BY <1>1, <1>2, <1>3, <2>3, <2>4 DEF App
  <2> HIDE DEF b
  <2>8. Good(b)
    BY <1>2, <1>3, <2>5, <2>6 DEF Good
  <2>9. DraftsKept(a, b)
    <3> SUFFICES ASSUME NEW id \in DOMAIN a.state, a.state[id] = "typed", id \in Draws[a.src]
                 PROVE  id \in DOMAIN b.state /\ b.state[id] = "typed"
      BY <2>5 DEF DraftsKept
    <3>1. Carried(a.state) \in DraftTables /\ id \in DOMAIN Carried(a.state) /\ Carried(a.state)[id] = "typed"
      BY <1>2, CarriedIs
    <3> QED BY <1>2, <2>5, <3>1, DrawnIs DEF state
  <2> QED BY <2>2, <2>5, <2>8, <2>9
<1> QED BY <1>5, <1>6, <1>7

\* What a step of a message leaves of the app, at rest until the next one
Rested(a) == Good(a) /\ a.tries <= a.seen /\ a.seen = a.version

\* reload_if_stale: an edit is tried, once, and the banner says how that went.
LEMMA ReloadIfStaleGood ==
  ASSUME NEW a, Good(a), a.tries <= a.seen,
         NEW readable \in SUBSET DocName, vault \in [DocName -> 0..MaxWrites]
  PROVE  LET b == ReloadIfStale(a, readable)
         IN  /\ Rested(b) /\ DraftsKept(a, b)
             /\ b.src = a.src /\ b.version = a.version
<1> DEFINE b == ReloadIfStale(a, readable)
<1>1. a \in App /\ a.version \in Nat /\ a.seen \in Nat /\ a.tries \in Nat /\ a.seen <= a.version
      /\ a.version \in 0..MaxEdits
  BY AppIs DEF Good
<1>2. CASE a.version <= a.seen
  <2>1. b = a /\ a.seen = a.version
    BY <1>1, <1>2 DEF ReloadIfStale
  <2> QED BY <2>1 DEF Rested, DraftsKept
<1>3. CASE ~(a.version <= a.seen)
  <2> DEFINE t == [a EXCEPT !.tries = @ + 1]
             r == Reload(t, readable)
  <2>1. b = Booked(t, r, a.version)
    BY <1>3 DEF ReloadIfStale, Booked
  <2>2. /\ t \in App /\ t.tries = a.tries + 1 /\ t.src = a.src /\ t.version = a.version
        /\ t.seen = a.seen /\ t.running = a.running /\ t.banner = a.banner /\ t.cores = a.cores
        /\ t.mirrors = a.mirrors /\ t.state = a.state /\ t.handlers = a.handlers
    <3>1. a.tries + 1 \in Nat
      BY <1>1
    <3> QED BY <1>1, <3>1 DEF App
  <2> HIDE DEF t
  <2>3. Good(t)
    BY <2>2 DEF Good
  <2>4. /\ Good(r.app) /\ DraftsKept(t, r.app)
        /\ r.app.src = a.src /\ r.app.version = a.version /\ r.app.tries = a.tries + 1
        /\ IF r.ok THEN r.app.running = a.src /\ r.app.seen = a.version
           ELSE r.app.running = a.running /\ r.app.seen = a.seen
    BY <2>2, <2>3, ReloadGood
  <2> HIDE DEF r
  <2>5. PICK p : p = r.app
    OBVIOUS
  <2>6. b = [p EXCEPT !.seen = a.version, !.banner = ~r.ok] /\ p \in App
    BY <2>1, <2>4, <2>5 DEF Booked, Good
  <2>7. /\ b.seen = a.version /\ b.banner = ~r.ok
        /\ b.src = p.src /\ b.version = p.version /\ b.running = p.running /\ b.tries = p.tries
        /\ b.cores = p.cores /\ b.mirrors = p.mirrors /\ b.state = p.state /\ b.handlers = p.handlers
    BY <2>6 DEF App
  <2>8. b \in App
    BY <1>1, <2>6 DEF App
  <2> HIDE DEF b
  <2>9. Good(b)
    <3>1. b.seen <= b.version
      BY <1>1, <2>4, <2>5, <2>7
    <3>2. b.running = b.src \/ b.banner
      BY <2>4, <2>5, <2>7
    <3>3. b.handlers \subseteq Draws[b.running] /\ CoresKnown(b.cores) /\ MirrorsKnown(b.mirrors, b.cores)
      BY <2>4, <2>5, <2>7 DEF Good
    <3> QED BY <2>8, <3>1, <3>2, <3>3 DEF Good
  <2>10. b.tries <= b.seen /\ b.seen = b.version
    BY <1>1, <1>3, <2>4, <2>5, <2>7
  <2>11. DraftsKept(a, b)
    BY <2>2, <2>4, <2>5, <2>7 DEF DraftsKept
  <2> QED BY <2>4, <2>5, <2>7, <2>9, <2>10, <2>11 DEF Rested, b
<1> QED BY <1>2, <1>3

-----------------------------------------------------------------------------
(* Saves *)

\* LuaApp::flush: the vault gets what is in some of the documents past their
\* watermark, and no other document is touched but to be sealed.
LEMMA FlushedGood ==
  ASSUME Types, NEW a, Rested(a),
         NEW put \in SUBSET Dirty(a), NEW failed \in SUBSET (Dirty(a) \ put),
         app' = Flushed(a, put, failed),
         vault' = [d \in DocName |-> IF d \in put THEN a.cores[d].val ELSE vault[d]]
  PROVE  /\ Rested(app)' /\ DraftsKept(a, app')
         /\ vault' \in [DocName -> 0..MaxWrites] /\ \A d \in DocName : vault'[d] >= vault[d]
         /\ app'.src = a.src /\ app'.version = a.version
         /\ app'.running = a.running /\ app'.state = a.state
         /\ put = Dirty(a) => \A d \in DOMAIN app'.cores : app'.cores[d].half \/ vault'[d] = app'.cores[d].val
<1>1. /\ a \in App /\ a.cores \in CoreTables /\ a.mirrors \in MirrorTables
      /\ CoresKnown(a.cores) /\ MirrorsKnown(a.mirrors, a.cores)
      /\ vault \in [DocName -> 0..MaxWrites] /\ Good(a)
  BY AppIs DEF Rested, Good, Types
<1>2. /\ DOMAIN a.cores \subseteq DocName
      /\ \A d \in DOMAIN a.cores : a.cores[d] \in Core /\ CoreKnown(a.cores[d], vault[d])
      /\ \A d \in DOMAIN a.mirrors : a.mirrors[d] \in Mirror
      /\ \A d \in DocName : vault[d] \in Nat
  BY <1>1, AppHostAssumption DEF CoreTables, MirrorTables, CoresKnown
<1> DEFINE cores == [d \in DOMAIN a.cores |->
                       IF d \in put THEN SavedCore(a.cores[d])
                       ELSE IF d \in failed THEN Exported(a.cores[d]) ELSE a.cores[d]]
<1>3. app' = [a EXCEPT !.cores = cores]
  BY DEF Flushed
<1>4. ASSUME NEW c \in Core, NEW stored \in Nat, CoreKnown(c, stored), c.version > c.saved
      PROVE  /\ SavedCore(c) \in Core /\ SavedCore(c).val = c.val /\ CoreKnown(SavedCore(c), c.val)
             /\ \A m \in Mirror : MirrorKnown(m, c) => MirrorKnown(m, SavedCore(c))
  <2>1. PICK b \in Core : b = Sealed(c)
    BY SealedIs
  <2>2. /\ CoreKnown(b, stored) /\ \A m \in Mirror : MirrorKnown(m, c) => MirrorKnown(m, b)
        /\ b.val = c.val /\ ~b.half /\ b.version >= c.version
    <3>1. c.version \in Nat
      BY CoreIs
    <3> QED BY <1>4, <2>1, <3>1, WriteKeepsKnown, SealedIs
  <2>3. /\ SavedCore(c) = [b EXCEPT !.saved = c.version]
        /\ c.version \in Nat /\ c.val \in Nat /\ b.version \in Nat /\ b.half \in BOOLEAN
    BY <2>1, CoreIs DEF SavedCore
  <2>4. /\ SavedCore(c) \in Core /\ SavedCore(c).val = b.val /\ SavedCore(c).half = b.half
        /\ SavedCore(c).version = b.version /\ SavedCore(c).saved = c.version
    BY <2>3 DEF Core
  <2> HIDE <2>3 DEF SavedCore
  <2>5. CoreKnown(SavedCore(c), c.val)
    BY <2>2, <2>3, <2>4 DEF CoreKnown
  <2>6. \A m \in Mirror : MirrorKnown(m, b) => MirrorKnown(m, SavedCore(c))
    BY <2>4 DEF MirrorKnown
  <2> QED BY <2>2, <2>4, <2>5, <2>6
<1>5. ASSUME NEW d \in DOMAIN a.cores
      PROVE  /\ cores[d] \in Core /\ cores[d].val = a.cores[d].val
             /\ CoreKnown(cores[d], vault'[d]) /\ vault'[d] >= vault[d] /\ vault'[d] \in 0..MaxWrites
             /\ \A m \in Mirror : MirrorKnown(m, a.cores[d]) => MirrorKnown(m, cores[d])
             /\ put = Dirty(a) => cores[d].half \/ vault'[d] = cores[d].val
  <2>1. PICK c \in Core : c = a.cores[d] /\ CoreKnown(c, vault[d])
    BY <1>2
  <2>2. d \in DocName /\ vault[d] \in Nat /\ vault[d] \in 0..MaxWrites
    BY <1>1, <1>2
  <2>3. CASE d \in put
    <3>1. cores[d] = SavedCore(c) /\ vault'[d] = c.val /\ c.version > c.saved
      BY <2>1, <2>2, <2>3 DEF Dirty
    <3>2. c.val \in 0..MaxWrites /\ c.val >= vault[d]
      BY <2>1, <2>2 DEF Core, CoreKnown
    <3> QED BY <1>4, <2>1, <2>2, <3>1, <3>2
  <2>4. CASE d \notin put
    <3>1. vault'[d] = vault[d]
      BY <2>2, <2>4
    <3>2. cores[d] \in {c, Sealed(c)}
      BY <2>1, <2>4 DEF Exported
    <3>3. cores[d] \in Core /\ cores[d].val = c.val
      BY <3>2, SealedIs
    <3>4. CoreKnown(cores[d], vault[d]) /\ \A m \in Mirror : MirrorKnown(m, c) => MirrorKnown(m, cores[d])
      BY <2>1, <2>2, <3>2, <3>3, WriteKeepsKnown
    <3>5. put = Dirty(a) => cores[d].half \/ vault[d] = cores[d].val
      <4> SUFFICES ASSUME put = Dirty(a) PROVE c.half \/ vault[d] = c.val
        BY <2>1, <2>4
      <4>1. ~(c.version > c.saved) /\ c.version \in Nat /\ c.saved \in Nat
        BY <2>1, <2>4, CoreIs DEF Dirty
      <4> QED BY <2>1, <4>1 DEF CoreKnown
    <3>6. vault[d] >= vault[d]
      BY <2>2
    <3> QED BY <2>1, <2>2, <3>1, <3>3, <3>4, <3>5, <3>6
  <2> QED BY <2>3, <2>4
<1>6. DOMAIN cores = DOMAIN a.cores
  OBVIOUS
<1>7. cores \in CoreTables
  <2>1. cores \in [DOMAIN a.cores -> Core]
    BY <1>5
  <2> QED BY <1>2, <2>1 DEF CoreTables
<1> HIDE DEF cores
<1>8. /\ app' \in App /\ app'.cores = cores /\ app'.mirrors = a.mirrors
      /\ app'.src = a.src /\ app'.version = a.version /\ app'.seen = a.seen /\ app'.running = a.running
      /\ app'.banner = a.banner /\ app'.state = a.state /\ app'.tries = a.tries
      /\ app'.handlers = a.handlers
  BY <1>1, <1>3, <1>7 DEF App
<1>9. MirrorsKnown(app'.mirrors, app'.cores)
  BY <1>1, <1>2, <1>5, <1>6, <1>8 DEF MirrorsKnown
<1>10. CoresKnown(app.cores)'
  BY <1>5, <1>6, <1>8 DEF CoresKnown
<1>11. Good(app)'
  BY <1>8, <1>9, <1>10 DEF Rested, Good, MirrorsKnown, MirrorKnown
<1>12. /\ vault' \in [DocName -> 0..MaxWrites] /\ \A d \in DocName : vault'[d] >= vault[d]
  <2> SUFFICES ASSUME NEW d \in DocName PROVE vault'[d] \in 0..MaxWrites /\ vault'[d] >= vault[d]
    OBVIOUS
  <2>1. CASE d \in put
    BY <1>5, <2>1 DEF Dirty
  <2>2. CASE d \notin put
    <3>1. vault'[d] = vault[d] /\ vault[d] \in 0..MaxWrites /\ vault[d] \in Nat
      BY <1>1, <1>2, <2>2
    <3> QED BY <3>1
  <2> QED BY <2>1, <2>2
<1>13. DraftsKept(a, app')
  BY <1>8 DEF DraftsKept
<1> QED BY <1>5, <1>6, <1>8, <1>11, <1>12, <1>13 DEF Rested
\* What a message leaves, whatever it did to the app before its end
Leaves(a) ==
  /\ Rested(app)' /\ DraftsKept(a, app')
  /\ vault' \in [DocName -> 0..MaxWrites] /\ \A d \in DocName : vault'[d] >= vault[d]
  /\ faults' \in 0..MaxFaults /\ saveError' \in BOOLEAN /\ UnsavedIsReported'
  /\ app'.src = a.src /\ app'.version = a.version
  /\ a.seen = a.version => app'.running = a.running /\ app'.state = a.state

LEMMA FlushLeaves ==
  ASSUME Types, NEW a, Rested(a), Flush(a) \/ FlushAfterFault(a)
  PROVE  Leaves(a) /\ app'.running = a.running /\ app'.state = a.state
<1>1. ASSUME NEW b, Fault(b) PROVE faults' \in 0..MaxFaults
  BY <1>1, AppHostAssumption DEF Fault, Types
<1>2. CASE Flush(a)
  <2>1. PICK put \in SUBSET Dirty(a), failed \in SUBSET Dirty(a) :
          /\ failed \subseteq Dirty(a) \ put
          /\ app' = Flushed(a, put, failed)
          /\ vault' = [d \in DocName |-> IF d \in put THEN a.cores[d].val ELSE vault[d]]
          /\ saveError' = (saveError \/ Dirty(a) \ put # {})
          /\ Fault(Dirty(a) \ put # {})
    <3>1. PICK put \in SUBSET Dirty(a) :
            \E failed \in IF Dirty(a) \ put = {} THEN {{}} ELSE {{d} : d \in Dirty(a) \ put} :
              /\ app' = Flushed(a, put, failed)
              /\ vault' = [d \in DocName |-> IF d \in put THEN a.cores[d].val ELSE vault[d]]
              /\ saveError' = (saveError \/ Dirty(a) \ put # {})
              /\ Fault(Dirty(a) \ put # {})
      BY <1>2 DEF Flush
    <3>2. (IF Dirty(a) \ put = {} THEN {{}} ELSE {{d} : d \in Dirty(a) \ put}) \subseteq SUBSET (Dirty(a) \ put)
      OBVIOUS
    <3> QED BY <3>1, <3>2
  <2>2. /\ Rested(app)' /\ DraftsKept(a, app')
        /\ vault' \in [DocName -> 0..MaxWrites] /\ \A d \in DocName : vault'[d] >= vault[d]
        /\ app'.src = a.src /\ app'.version = a.version
        /\ app'.running = a.running /\ app'.state = a.state
        /\ put = Dirty(a) => \A d \in DOMAIN app'.cores : app'.cores[d].half \/ vault'[d] = app'.cores[d].val
    BY <2>1, FlushedGood
  <2>3. saveError' \in BOOLEAN /\ (~saveError' => put = Dirty(a))
    BY <2>1 DEF Types
  <2> QED BY <1>1, <2>1, <2>2, <2>3 DEF Leaves, UnsavedIsReported
<1>3. CASE FlushAfterFault(a)
  <2>0. Dirty(a) \in SUBSET Dirty(a) /\ {} \in SUBSET (Dirty(a) \ Dirty(a))
    OBVIOUS
  <2>1. /\ app' = Flushed(a, Dirty(a), {})
        /\ vault' = [d \in DocName |-> IF d \in Dirty(a) THEN a.cores[d].val ELSE vault[d]]
        /\ saveError' = saveError /\ Fault(TRUE)
    BY <1>3 DEF FlushAfterFault
  <2>2. /\ Rested(app)' /\ DraftsKept(a, app')
        /\ vault' \in [DocName -> 0..MaxWrites] /\ \A d \in DocName : vault'[d] >= vault[d]
        /\ app'.src = a.src /\ app'.version = a.version
        /\ app'.running = a.running /\ app'.state = a.state
        /\ \A d \in DOMAIN app'.cores : app'.cores[d].half \/ vault'[d] = app'.cores[d].val
    BY <2>0, <2>1, FlushedGood
  <2> QED BY <1>1, <2>1, <2>2 DEF Leaves, UnsavedIsReported, Types
<1> QED BY <1>2, <1>3

LEMMA EndLeaves ==
  ASSUME Types, NEW a, Good(a), a.tries <= a.seen, EndOfMessage(a)
  PROVE  Leaves(a)
<1>0. PICK readable \in SUBSET DocName :
        \/ Flush(ReloadIfStale(a, readable))
        \/ FlushAfterFault(ReloadIfStale(a, readable))
  <2>1. ASSUME NEW d PROVE DocName \ {d} \in SUBSET DocName
    OBVIOUS
  <2> QED BY <2>1 DEF EndOfMessage
<1>1. PICK b : b = ReloadIfStale(a, readable) /\ (Flush(b) \/ FlushAfterFault(b))
  BY <1>0
<1>2. /\ Rested(b) /\ DraftsKept(a, b) /\ b.src = a.src /\ b.version = a.version
  BY <1>1, ReloadIfStaleGood DEF Types
<1>3. Leaves(b) /\ app'.running = b.running /\ app'.state = b.state
  BY <1>1, <1>2, FlushLeaves
<1>4. a.seen = a.version => b = a
  <2>1. a.version \in Nat
    BY AppIs DEF Good
  <2> QED BY <1>1, <2>1 DEF ReloadIfStale
<1> QED BY <1>2, <1>3, <1>4 DEF Leaves, DraftsKept

\* The invariant after a message, but for what it leaves to the action
LEMMA LeavesInv ==
  ASSUME IInv, NEW a, Leaves(a),
         src' \in Source, answer' \in {None, "activated", "failed", "error", "closed"}
  PROVE  IInv'
BY DEF IInv, Types, Leaves, Rested, Good, CoresKnown, MirrorsKnown, CoreKnown

-----------------------------------------------------------------------------
(* The actions *)

LEMMA NewAppRested ==
  ASSUME Types, NEW readable \in SUBSET DocName
  PROVE  Rested(NewApp(readable))
<1> DEFINE none == [d \in {} |-> 0]
           a == NewApp(readable)
           cores == CoresAfter(src, none, readable)
           mirrors == Mirrors(src, none, readable)
           state == [i \in {} |-> "fresh"]
<1>1. none \in CoreTables /\ CoresKnown(none) /\ state \in DraftTables
  <2>1. none \in [{} -> Core] /\ state \in [{} -> Draft] /\ {} \in SUBSET DocName /\ {} \in SUBSET Id
    OBVIOUS
  <2> QED BY <2>1 DEF CoreTables, DraftTables, CoresKnown
<1>2. /\ cores \in CoreTables /\ CoresKnown(cores)
      /\ mirrors \in MirrorTables /\ MirrorsKnown(mirrors, cores)
  <2> HIDE DEF none
  <2> QED BY <1>1, CoresAfterKnown DEF Types
<1>3. PICK e \in BOOLEAN : e = ~Evaluates(src, none, readable)
  BY DEF Evaluates
<1>4. a = [src |-> src, version |-> 0, seen |-> 0, running |-> src, ran |-> {src},
           error |-> e, banner |-> FALSE, tries |-> 0,
           cores |-> cores, mirrors |-> mirrors, state |-> state, handlers |-> {}]
  BY <1>3 DEF NewApp
<1> HIDE DEF cores, mirrors, state, none, a
<1>5. /\ a.src = src /\ a.version = 0 /\ a.seen = 0 /\ a.running = src /\ a.tries = 0
      /\ a.cores = cores /\ a.mirrors = mirrors /\ a.handlers = {}
  BY <1>4
<1>6. a \in App
  <2>1. 0 \in 0..MaxEdits /\ src \in Source
    BY AppHostAssumption DEF Types
  <2> QED BY <1>1, <1>2, <1>4, <2>1 DEF App
<1>7. Good(a)
  BY <1>2, <1>5, <1>6 DEF Good
<1> QED BY <1>5, <1>7 DEF Rested, a

\* An app in which some documents have been written or sealed
LEMMA Rewritten ==
  ASSUME Types, NEW a, Good(a), NEW cores, cores = [d \in DOMAIN a.cores |-> cores[d]],
         \A d \in DOMAIN a.cores :
           /\ cores[d] \in Core
           /\ cores[d] = a.cores[d]
              \/ cores[d] \in {Commit(a.cores[d]), Sealed(a.cores[d]), Commit(Sealed(a.cores[d])),
                               HalfWritten(a.cores[d])}
  PROVE  cores \in CoreTables /\ CoresKnown(cores) /\ MirrorsKnown(a.mirrors, cores)
<1>1. /\ a.cores \in CoreTables /\ a.mirrors \in MirrorTables
      /\ CoresKnown(a.cores) /\ MirrorsKnown(a.mirrors, a.cores)
  BY AppIs DEF Good
<1>2. /\ DOMAIN a.cores \subseteq DocName /\ DOMAIN cores = DOMAIN a.cores
      /\ \A d \in DOMAIN a.cores : a.cores[d] \in Core /\ CoreKnown(a.cores[d], vault[d])
      /\ \A d \in DOMAIN a.mirrors : a.mirrors[d] \in Mirror
      /\ \A d \in DocName : vault[d] \in Nat
  BY <1>1, AppHostAssumption DEF CoreTables, MirrorTables, CoresKnown, Types
<1>3. cores \in CoreTables
  <2>1. cores \in [DOMAIN a.cores -> Core]
    OBVIOUS
  <2> QED BY <1>2, <2>1 DEF CoreTables
<1>4. ASSUME NEW d \in DOMAIN a.cores
      PROVE  /\ CoreKnown(cores[d], vault[d])
             /\ \A m \in Mirror : MirrorKnown(m, a.cores[d]) => MirrorKnown(m, cores[d])
  <2>1. PICK c \in Core : c = a.cores[d] /\ CoreKnown(c, vault[d])
    BY <1>2
  <2>2. PICK b \in Core : b = cores[d]
    OBVIOUS
  <2>3. CASE b = c
    BY <2>1, <2>2, <2>3
  <2>4. CASE b \in {Commit(c), Sealed(c), Commit(Sealed(c)), HalfWritten(c)}
    <3>1. vault[d] \in Nat
      BY <1>2
    <3> QED BY <2>1, <2>2, <2>4, <3>1, WriteKeepsKnown
  <2> QED BY <2>1, <2>2, <2>3, <2>4
<1> QED BY <1>1, <1>2, <1>3, <1>4 DEF CoresKnown, MirrorsKnown

\* Each action leaves the invariant true, no document of the vault with fewer writes
\* than it had, and what was typed where it was.
Keeps ==
  /\ IInv' /\ \A d \in DocName : vault'[d] >= vault[d]
  /\ (IsOpen /\ app' # None) =>
       \A id \in DOMAIN app.state :
         (app.state[id] = "typed" /\ id \in Draws[app.running] \cap Draws[app'.running])
            => id \in DOMAIN app'.state /\ app'.state[id] # "fresh"

\* A step whose effect before its end keeps the state, or changes no draft for the worse
LEMMA LeavesKeeps ==
  ASSUME IInv, NEW a, Leaves(a), src' \in Source,
         answer' \in {None, "activated", "failed", "error", "closed"},
         IsOpen => a.state = app.state /\ a.running = app.running
  PROVE  Keeps
<1>1. IInv' /\ \A d \in DocName : vault'[d] >= vault[d]
  BY LeavesInv DEF Leaves
<1>2. DraftsKept(a, app')
  BY DEF Leaves
<1> QED BY <1>1, <1>2 DEF Keeps, DraftsKept

LEMMA AtRest ==
  ASSUME IInv, IsOpen
  PROVE  /\ Types /\ Good(app) /\ app.tries <= app.seen /\ app.seen = app.version
         /\ app.cores \in CoreTables /\ app.mirrors \in MirrorTables /\ app.state \in DraftTables
         /\ app.src \in Source /\ src \in Source
         /\ \A d \in DOMAIN app.cores : d \in DocName /\ app.cores[d] \in Core
         /\ \A d \in DOMAIN app.mirrors : d \in DOMAIN app.cores
<1>1. Types /\ Good(app) /\ app.tries <= app.seen /\ app.seen = app.version /\ src \in Source
  BY DEF IInv, Types
<1>2. app.cores \in CoreTables /\ app.mirrors \in MirrorTables /\ app.state \in DraftTables /\ app.src \in Source
  BY <1>1, AppIs DEF Good
<1> QED BY <1>1, <1>2 DEF CoreTables, Good, MirrorsKnown

\* What touches the documents of an open app, and then ends
LEMMA CoresMoved ==
  ASSUME IInv, IsOpen, NEW cores, cores = [d \in DOMAIN app.cores |-> cores[d]],
         \A d \in DOMAIN app.cores :
           /\ cores[d] \in Core
           /\ cores[d] = app.cores[d]
              \/ cores[d] \in {Commit(app.cores[d]), Sealed(app.cores[d]), Commit(Sealed(app.cores[d])),
                               HalfWritten(app.cores[d])},
         EndOfMessage([app EXCEPT !.cores = cores]), answer' = None, src' = src
  PROVE  Keeps
<1> DEFINE a == [app EXCEPT !.cores = cores]
<1>1. cores \in CoreTables /\ CoresKnown(cores) /\ MirrorsKnown(app.mirrors, cores)
  BY AtRest, Rewritten
<1>2. /\ Good(a) /\ a.seen = app.seen /\ a.tries = app.tries /\ a.state = app.state
      /\ a.running = app.running
  BY <1>1, AtRest, WithCores
<1>3. EndOfMessage(a)
  OBVIOUS
<1> HIDE DEF a
<1>4. Leaves(a)
  BY <1>2, <1>3, AtRest, EndLeaves
<1> QED BY <1>2, <1>4, AtRest, LeavesKeeps

LEMMA OpenKeeps ==
  ASSUME IInv, Open
  PROVE  Keeps
<1>0. PICK readable \in SUBSET DocName :
        Flush(NewApp(readable)) \/ FlushAfterFault(NewApp(readable))
  <2>1. DocName \in SUBSET DocName /\ \A d : DocName \ {d} \in SUBSET DocName
    OBVIOUS
  <2> QED BY <2>1 DEF Open
<1>1. PICK a : a = NewApp(readable) /\ (Flush(a) \/ FlushAfterFault(a))
  BY <1>0
<1>2. Leaves(a)
  BY <1>1, NewAppRested, FlushLeaves DEF IInv
<1> QED BY <1>2, LeavesKeeps DEF Open, IsOpen, IInv, Types

LEMMA FrameKeeps ==
  ASSUME IInv, Frame
  PROVE  Keeps
<1> DEFINE mirrors == Repatched(app)
<1>1. /\ IsOpen /\ Types /\ Good(app) /\ app \in App /\ app.cores \in CoreTables
      /\ app.mirrors \in MirrorTables /\ app.state \in DraftTables /\ app.running \in Source
  BY AtRest, AppIs DEF Frame, IsOpen, Good
<1>2. /\ DOMAIN mirrors = DOMAIN app.mirrors /\ mirrors = [d \in DOMAIN app.mirrors |-> mirrors[d]]
      /\ \A d \in DOMAIN mirrors :
           d \in DOMAIN app.cores /\ mirrors[d] \in Mirror /\ MirrorKnown(mirrors[d], app.cores[d])
  <2>1. ASSUME NEW d \in DOMAIN app.mirrors
        PROVE  /\ d \in DOMAIN app.cores /\ mirrors[d] \in Mirror
               /\ MirrorKnown(mirrors[d], app.cores[d])
    <3>1. PICK m \in Mirror, c \in Core :
            m = app.mirrors[d] /\ c = app.cores[d] /\ d \in DOMAIN app.cores /\ MirrorKnown(m, c)
      BY <1>1 DEF Good, MirrorsKnown, MirrorTables, CoreTables
    <3>2. c.val \in 0..MaxWrites /\ c.version \in Nat
      BY <3>1 DEF Core
    <3>3. mirrors[d] = IF c.version > m.at THEN [val |-> c.val, at |-> c.version] ELSE m
      BY <3>1 DEF Repatched
    <3>4. CASE c.version > m.at
      BY <3>1, <3>2, <3>3, <3>4 DEF Mirror, MirrorKnown
    <3>5. CASE ~(c.version > m.at)
      BY <3>1, <3>3, <3>5
    <3> QED BY <3>4, <3>5
  <2> QED BY <2>1 DEF Repatched
<1> HIDE DEF mirrors
<1>3. mirrors \in MirrorTables /\ MirrorsKnown(mirrors, app.cores)
  <2>1. mirrors \in [DOMAIN app.mirrors -> Mirror] /\ DOMAIN app.mirrors \subseteq DocName
    BY <1>1, <1>2 DEF MirrorTables
  <2> QED BY <1>2, <2>1 DEF MirrorTables, MirrorsKnown
<1>4. /\ Drawn(app.running, app.state) \in DraftTables
      /\ \A id \in DOMAIN app.state \cap Draws[app.running] :
           /\ id \in DOMAIN Drawn(app.running, app.state)
           /\ Drawn(app.running, app.state)[id] = app.state[id]
      /\ Draws[app.running] \in SUBSET Id
  BY <1>1, DrawnIs, AppHostAssumption
<1>5. \/ app' = [app EXCEPT !.mirrors = mirrors]
      \/ app' = [app EXCEPT !.mirrors = mirrors, !.handlers = Draws[app.running],
                            !.state = Drawn(app.running, app.state)]
  BY DEF Frame, BrokenFrame, mirrors
<1>6. /\ app' \in App /\ app'.mirrors = mirrors /\ app'.cores = app.cores
      /\ app'.src = app.src /\ app'.version = app.version /\ app'.seen = app.seen
      /\ app'.running = app.running /\ app'.banner = app.banner /\ app'.tries = app.tries
      /\ app'.handlers \in {app.handlers, Draws[app.running]}
      /\ app'.state \in {app.state, Drawn(app.running, app.state)}
  BY <1>1, <1>3, <1>4, <1>5 DEF App
<1>7. UNCHANGED <<vault, src, saveError, faults>> /\ answer' = None
  BY DEF Frame
<1>8. Good(app)'
  BY <1>1, <1>3, <1>6, <1>7 DEF Good, CoresKnown, MirrorsKnown, CoreKnown, MirrorKnown
<1>9. IInv'
  BY <1>1, <1>6, <1>7, <1>8 DEF IInv, Types, UnsavedIsReported, IsOpen
<1>10. \A d \in DocName : vault'[d] >= vault[d]
  BY <1>1, <1>7, AppHostAssumption DEF Types
<1> QED BY <1>4, <1>6, <1>9, <1>10 DEF Keeps

LEMMA HandlerWritesKeeps ==
  ASSUME IInv, NEW d \in DocName, NEW half \in BOOLEAN, HandlerWrites(d, half)
  PROVE  Keeps
<1> DEFINE new == IF half THEN HalfWritten(app.cores[d]) ELSE Commit(app.cores[d])
           cores == [app.cores EXCEPT ![d] = new]
<1>1. IsOpen /\ d \in DOMAIN app.mirrors /\ app.cores[d].val < MaxWrites /\ answer' = None /\ src' = src
  BY DEF HandlerWrites, IsOpen
<1>2. d \in DOMAIN app.cores /\ \A e \in DOMAIN app.cores : app.cores[e] \in Core
  BY <1>1, AtRest
<1>3. new \in Core
  <2>1. PICK c \in Core : c = app.cores[d]
    BY <1>2
  <2>2. c.val + 1 \in 0..MaxWrites /\ Commit(c) \in Core
    BY <1>1, <2>1, CoreIs, CommitIs
  <2>3. HalfWritten(c) \in Core
    BY <2>2 DEF HalfWritten, Core
  <2> QED BY <2>1, <2>2, <2>3
<1>4. EndOfMessage([app EXCEPT !.cores = cores])
  BY DEF HandlerWrites
<1>5. /\ cores = [e \in DOMAIN app.cores |-> cores[e]]
      /\ \A e \in DOMAIN app.cores : cores[e] = IF e = d THEN new ELSE app.cores[e]
  <2>1. app.cores = [e \in DOMAIN app.cores |-> app.cores[e]]
    BY <1>1, AtRest DEF CoreTables
  <2> HIDE DEF new
  <2> QED BY <1>2, <2>1
<1>6. new \in {Commit(app.cores[d]), HalfWritten(app.cores[d])}
  OBVIOUS
<1> HIDE DEF cores, new
<1> QED BY <1>1, <1>2, <1>3, <1>4, <1>5, <1>6, CoresMoved

LEMMA ImportKeeps ==
  ASSUME IInv, NEW d \in DocName, Import(d)
  PROVE  Keeps
<1> DEFINE new == Commit(Sealed(app.cores[d]))
           cores == [app.cores EXCEPT ![d] = new]
<1>1. IsOpen /\ d \in DOMAIN app.cores /\ app.cores[d].val < MaxWrites /\ answer' = None /\ src' = src
  BY DEF Import, IsOpen
<1>2. \A e \in DOMAIN app.cores : app.cores[e] \in Core
  BY <1>1, AtRest
<1>3. new \in Core
  BY <1>1, <1>2, CommitIs, SealedIs
<1>4. EndOfMessage([app EXCEPT !.cores = cores])
  BY DEF Import
<1>5. /\ cores = [e \in DOMAIN app.cores |-> cores[e]]
      /\ \A e \in DOMAIN app.cores : cores[e] = IF e = d THEN new ELSE app.cores[e]
  <2>1. app.cores = [e \in DOMAIN app.cores |-> app.cores[e]]
    BY <1>1, AtRest DEF CoreTables
  <2> HIDE DEF new
  <2> QED BY <1>1, <2>1
<1> HIDE DEF cores
<1> QED BY <1>1, <1>2, <1>3, <1>4, <1>5, CoresMoved

LEMMA SyncTickKeeps ==
  ASSUME IInv, SyncTick
  PROVE  Keeps
<1> DEFINE cores == [d \in DOMAIN app.cores |-> Sealed(app.cores[d])]
<1>1. IsOpen /\ answer' = None /\ src' = src /\ EndOfMessage([app EXCEPT !.cores = cores])
  BY DEF SyncTick, IsOpen
<1>2. \A d \in DOMAIN app.cores : app.cores[d] \in Core /\ Sealed(app.cores[d]) \in Core
  BY <1>1, AtRest, SealedIs
<1>3. /\ cores = [d \in DOMAIN app.cores |-> cores[d]]
      /\ \A d \in DOMAIN app.cores : cores[d] = Sealed(app.cores[d])
  OBVIOUS
<1> HIDE DEF cores
<1> QED BY <1>1, <1>2, <1>3, CoresMoved
LEMMA HandlerKeepsKeeps ==
  ASSUME IInv, NEW id \in Id, NEW draft \in {"typed", "bound"}, HandlerKeeps(id, draft)
  PROVE  Keeps
<1> DEFINE state == [app.state EXCEPT ![id] = draft]
           a == [app EXCEPT !.state = state]
<1>1. /\ IsOpen /\ id \in DOMAIN app.state /\ answer' = None /\ src' = src /\ EndOfMessage(a)
  BY DEF HandlerKeeps, IsOpen
<1>2. /\ Types /\ Good(app) /\ app \in App /\ app.state \in DraftTables
      /\ app.tries <= app.seen /\ app.seen = app.version /\ src \in Source
  BY <1>1, AtRest DEF Good
<1>3. /\ state \in DraftTables /\ DOMAIN state = DOMAIN app.state
      /\ \A i \in DOMAIN state : state[i] = IF i = id THEN draft ELSE app.state[i]
  <2>1. PICK S \in SUBSET Id : app.state \in [S -> Draft]
    BY <1>2 DEF DraftTables
  <2>2. state \in [S -> Draft]
    BY <2>1 DEF Draft
  <2> QED BY <1>1, <2>1, <2>2 DEF DraftTables
<1> HIDE DEF state
<1>4. /\ a \in App /\ a.state = state /\ a.cores = app.cores /\ a.mirrors = app.mirrors
      /\ a.src = app.src /\ a.version = app.version /\ a.seen = app.seen /\ a.running = app.running
      /\ a.banner = app.banner /\ a.tries = app.tries /\ a.handlers = app.handlers
  BY <1>2, <1>3 DEF App
<1> HIDE DEF a
<1>5. Good(a)
  BY <1>2, <1>4 DEF Good
<1>6. Leaves(a)
  BY <1>1, <1>2, <1>4, <1>5, EndLeaves
<1>7. app'.running = app.running /\ app'.state = state
  BY <1>2, <1>4, <1>6 DEF Leaves
<1>8. IInv' /\ \A d \in DocName : vault'[d] >= vault[d]
  BY <1>1, <1>2, <1>6, LeavesInv DEF Leaves
<1> QED BY <1>3, <1>7, <1>8 DEF Keeps

LEMMA HandlerRequiresKeeps ==
  ASSUME IInv, HandlerRequires
  PROVE  Keeps
<1> DEFINE a == [app EXCEPT !.ran = app.ran \cup {app.src}]
<1>1. IsOpen /\ answer' = None /\ src' = src /\ EndOfMessage(a)
  BY DEF HandlerRequires, IsOpen
<1>2. /\ Types /\ Good(app) /\ app \in App /\ app.tries <= app.seen /\ app.seen = app.version
      /\ src \in Source /\ app.ran \in SUBSET Source /\ app.src \in Source
  BY <1>1, AtRest, AppIs DEF Good
<1>3. /\ a \in App /\ a.state = app.state /\ a.cores = app.cores /\ a.mirrors = app.mirrors
      /\ a.src = app.src /\ a.version = app.version /\ a.seen = app.seen /\ a.running = app.running
      /\ a.banner = app.banner /\ a.tries = app.tries /\ a.handlers = app.handlers
  BY <1>2 DEF App
<1> HIDE DEF a
<1>4. Good(a)
  BY <1>2, <1>3 DEF Good
<1>5. Leaves(a)
  BY <1>1, <1>2, <1>3, <1>4, EndLeaves
<1> QED BY <1>1, <1>2, <1>3, <1>5, LeavesKeeps

\* An edit of an open item: one more version, to be tried at the end of the message
LEMMA EditLeaves ==
  ASSUME IInv, IsOpen, app.version < MaxEdits, NEW s \in Source, NEW a,
         a = app \/ a = [app EXCEPT !.src = s, !.version = app.version + 1],
         EndOfMessage(a), src' \in Source,
         answer' \in {None, "activated", "failed", "error", "closed"}
  PROVE  Keeps
<1>1. /\ Types /\ Good(app) /\ app \in App /\ app.tries <= app.seen /\ app.seen = app.version
      /\ app.version \in Nat
  BY AtRest, AppIs DEF Good
<1>2. Good(a) /\ a.tries <= a.seen /\ a.state = app.state /\ a.running = app.running
  <2>1. CASE a = app
    BY <1>1, <2>1
  <2>2. CASE a = [app EXCEPT !.src = s, !.version = app.version + 1]
    <3>1. app.version + 1 \in 0..MaxEdits
      BY <1>1, AppHostAssumption
    <3>2. /\ a \in App /\ a.state = app.state /\ a.cores = app.cores /\ a.mirrors = app.mirrors
          /\ a.src = s /\ a.version = app.version + 1 /\ a.seen = app.seen /\ a.running = app.running
          /\ a.banner = app.banner /\ a.tries = app.tries /\ a.handlers = app.handlers
      BY <1>1, <2>2, <3>1 DEF App
    <3> QED BY <1>1, <3>2 DEF Good
  <2> QED BY <2>1, <2>2
<1>3. Leaves(a)
  BY <1>1, <1>2, EndLeaves
<1> QED BY <1>2, <1>3, LeavesKeeps

LEMMA EditsKeep ==
  ASSUME IInv, NEW s \in Source, EditFile(s) \/ WriteFile(s) \/ EditClosed(s)
  PROVE  Keeps
<1>0. src \in Source
  BY DEF IInv, Types
<1>1. CASE EditFile(s)
  <2>1. PICK a : a = Edited(s)
    OBVIOUS
  <2>2. a = app \/ a = [app EXCEPT !.src = s, !.version = app.version + 1]
    BY <2>1 DEF Edited
  <2>3. /\ IsOpen /\ app.version < MaxEdits /\ EndOfMessage(a) /\ src' \in {s, src}
        /\ answer' \in {None, "activated", "failed", "error", "closed"}
    BY <1>1, <2>1 DEF EditFile, IsOpen
  <2> QED BY <1>0, <2>2, <2>3, EditLeaves
<1>2. CASE WriteFile(s)
  <2>1. PICK a : a = [app EXCEPT !.src = s, !.version = app.version + 1]
    OBVIOUS
  <2>2. IsOpen /\ app.version < MaxEdits /\ EndOfMessage(a) /\ src' \in {s, src} /\ answer' = None
    BY <1>2, <2>1 DEF WriteFile, IsOpen
  <2> QED BY <1>0, <2>1, <2>2, EditLeaves
<1>3. CASE EditClosed(s)
  <2>1. /\ ~IsOpen /\ src' = s /\ answer' = "closed" /\ UNCHANGED <<app, vault, saveError, faults>>
    BY <1>3 DEF EditClosed, IsOpen
  <2>2. IInv'
    BY <2>1 DEF IInv, Types, UnsavedIsReported, IsOpen
  <2>3. \A d \in DocName : vault'[d] >= vault[d]
    BY <2>1, AppHostAssumption DEF IInv, Types
  <2> QED BY <2>1, <2>2, <2>3 DEF Keeps
<1> QED BY <1>1, <1>2, <1>3

LEMMA ReloadItemKeeps ==
  ASSUME IInv, ReloadItem
  PROVE  Keeps
<1>1. IsOpen /\ answer' = None /\ src' = src
  BY DEF ReloadItem, IsOpen
<1>2. /\ Types /\ Good(app) /\ app.tries <= app.seen /\ app.seen = app.version /\ src \in Source
  BY <1>1, AtRest
<1>3. PICK r : r = Reload(app, DocName)
  OBVIOUS
<1>4. /\ Good(r.app) /\ DraftsKept(app, r.app) /\ r.app.version = app.version /\ r.app.tries = app.tries
      /\ r.app.seen = app.version /\ EndOfMessage(r.app)
  <2>1. DocName \in SUBSET DocName
    OBVIOUS
  <2> QED BY <1>2, <1>3, <2>1, ReloadGood DEF Types, ReloadItem
<1>5. Leaves(r.app)
  BY <1>2, <1>4, EndLeaves
<1>6. app'.running = r.app.running /\ app'.state = r.app.state
  BY <1>4, <1>5 DEF Leaves
<1>7. IInv' /\ \A d \in DocName : vault'[d] >= vault[d]
  BY <1>1, <1>2, <1>5, LeavesInv DEF Leaves
<1> QED BY <1>4, <1>6, <1>7 DEF Keeps, DraftsKept

LEMMA CloseKeeps ==
  ASSUME IInv, Close
  PROVE  Keeps
<1>1. ~IsOpen' /\ app' = None /\ saveError' = FALSE /\ answer' = None /\ UNCHANGED <<vault, src, faults>>
  BY DEF Close, IsOpen
<1>2. \A d \in DocName : vault'[d] >= vault[d]
  BY <1>1, AppHostAssumption DEF IInv, Types
<1> QED BY <1>1, <1>2 DEF Keeps, IInv, Types, UnsavedIsReported

-----------------------------------------------------------------------------
(* Theorems *)

LEMMA InitIInv == Init => IInv
<1> SUFFICES ASSUME Init PROVE IInv
  OBVIOUS
<1>1. vault \in [DocName -> 0..MaxWrites] /\ 0 \in 0..MaxFaults
  BY AppHostAssumption DEF Init
<1> QED BY <1>1, AppHostAssumption DEF Init, IInv, Types, UnsavedIsReported, IsOpen

LEMMA NextKeeps == IInv /\ [Next]_vars => Keeps
<1> SUFFICES ASSUME IInv, [Next]_vars PROVE Keeps
  OBVIOUS
<1>1. ASSUME NEW s \in Source, EditFile(s) \/ WriteFile(s) \/ EditClosed(s) PROVE Keeps
  BY <1>1, EditsKeep
<1>2. ASSUME NEW d \in DocName, Import(d) \/ \E half \in BOOLEAN : HandlerWrites(d, half) PROVE Keeps
  BY <1>2, ImportKeeps, HandlerWritesKeeps
<1>3. ASSUME NEW id \in Id, NEW draft \in {"typed", "bound"}, HandlerKeeps(id, draft) PROVE Keeps
  BY <1>3, HandlerKeepsKeeps
<1>4. CASE UNCHANGED vars
  <2>1. IInv'
    BY <1>4 DEF vars, IInv, Types, Good, CoresKnown, MirrorsKnown, CoreKnown, UnsavedIsReported, IsOpen
  <2>2. \A d \in DocName : vault'[d] >= vault[d]
    BY <1>4, AppHostAssumption DEF vars, IInv, Types
  <2> QED BY <1>4, <2>1, <2>2 DEF vars, Keeps
<1> QED BY <1>1, <1>2, <1>3, <1>4, OpenKeeps, FrameKeeps, SyncTickKeeps, ReloadItemKeeps, CloseKeeps,
           HandlerRequiresKeeps DEF Next

LEMMA Invariant == Spec => []IInv
<1>1. Init => IInv
  BY InitIInv
<1>2. IInv /\ [Next]_vars => IInv'
  BY NextKeeps DEF Keeps
<1> QED BY <1>1, <1>2, PTL DEF Spec

\* The documents of an app have cores of the type the vault takes, mirrors are of cores,
\* and no source of an app is further than the edits that were made of it (Docs, DocCore).
THEOREM TypeCorrect == Spec => []TypeOK
<1>1. IInv => TypeOK
  <2> SUFFICES ASSUME IInv, IsOpen
               PROVE  /\ app.src \in Source /\ app.running \in Source /\ app.ran \subseteq Source
                      /\ app.version \in 0..MaxEdits /\ app.seen \in 0..app.version
                      /\ DOMAIN app.mirrors \subseteq DOMAIN app.cores /\ DOMAIN app.cores \subseteq DocName
                      /\ \A d \in DOMAIN app.cores : app.cores[d] \in Core
                      /\ \A d \in DOMAIN app.mirrors : app.mirrors[d] \in Mirror
                      /\ DOMAIN app.state \subseteq Id /\ \A id \in DOMAIN app.state : app.state[id] \in Draft
    BY DEF TypeOK, IInv, Types
  <2>1. Good(app) /\ app.seen = app.version
    BY AtRest
  <2>2. /\ app.src \in Source /\ app.running \in Source /\ app.ran \subseteq Source
        /\ app.version \in 0..MaxEdits /\ app.version \in Nat
    BY <2>1, AppIs DEF Good
  <2>3. DOMAIN app.cores \subseteq DocName /\ \A d \in DOMAIN app.cores : app.cores[d] \in Core
    BY <2>1, AppIs DEF Good, CoreTables
  <2>4. \A d \in DOMAIN app.mirrors : d \in DOMAIN app.cores /\ app.mirrors[d] \in Mirror
    BY <2>1, AppIs DEF Good, MirrorsKnown, MirrorTables
  <2>5. DOMAIN app.state \subseteq Id /\ \A id \in DOMAIN app.state : app.state[id] \in Draft
    BY <2>1, AppIs DEF Good, DraftTables
  <2> QED BY <2>1, <2>2, <2>3, <2>4, <2>5
<1> QED BY <1>1, Invariant, PTL

\* What a watermark says is so, whoever wrote the document, however often the app was
\* reloaded around it, and wherever a save or a read stopped: no mirror and no save is
\* behind what is noted of it, and what stays unsaved is complained about (DocCore::saved,
\* the mirror's version, Shell::error).
THEOREM WatermarksCorrect == Spec => []Watermarks
<1>1. IInv => Watermarks
  BY DEF IInv, Good, CoresKnown, MirrorsKnown, CoreKnown, MirrorKnown,
         Watermarks, MirrorIsKnown, SavedIsKnown, UnsavedIsReported
<1> QED BY <1>1, Invariant, PTL

\* Whatever the sources do, the source runs or the banner says that it does not; a
\* source that does not load is tried once for each edit; and no event reaches a handler
\* of a VM that is gone (reload_if_stale, LuaApp::reload).
THEOREM ReloadCorrect == Spec => []ReloadIsTold
<1>1. IInv => ReloadIsTold
  <2> SUFFICES ASSUME IInv, IsOpen
               PROVE  /\ app.running = app.src \/ app.banner
                      /\ app.tries <= app.version /\ app.handlers \subseteq Draws[app.running]
    BY DEF ReloadIsTold, BannerTellsTruth, OncePerEdit, HandlersOfRunning
  <2>1. Good(app) /\ app.tries <= app.seen /\ app.seen = app.version /\ app.version \in Nat
    BY AtRest, AppIs DEF Good
  <2> QED BY <2>1 DEF Good
<1> QED BY <1>1, Invariant, PTL

\* No save overwrites a document of the vault with less than it holds: a document that
\* could not be read is not taken for an empty one (Docs::open, LuaApp::flush).
THEOREM NothingIsOverwritten == Spec => NothingOverwritten
<1>1. IInv /\ [Next]_vars => [\A d \in DocName : vault'[d] >= vault[d]]_vars
  BY NextKeeps DEF Keeps
<1> QED BY <1>1, Invariant, PTL DEF Spec, NothingOverwritten

\* What was typed is there after any step that leaves the app open, failed frames and
\* reloads included, if the source drew the element before and does after (carry_state).
THEOREM DraftsAreKept == Spec => DraftsSurvive
<1> DEFINE Survives ==
      (IsOpen /\ app' # None) =>
        \A id \in DOMAIN app.state :
          (app.state[id] = "typed" /\ id \in Draws[app.running] \cap Draws[app'.running])
             => id \in DOMAIN app'.state /\ app'.state[id] # "fresh"
<1>1. IInv /\ [Next]_vars => [Survives]_vars
  BY NextKeeps DEF Keeps
<1> QED BY <1>1, Invariant, PTL DEF Spec, DraftsSurvive
=============================================================================
