------------------------------ MODULE AppHost -------------------------------
(***************************************************************************)
(* One open item: the source it is built from, the VM that runs it, the    *)
(* documents that outlive every VM, and the vault beneath.  Each message   *)
(* of the window ends by rebuilding the VM if the source moved and by      *)
(* saving the documents that moved; a frame copies them into the VM's      *)
(* mirrors.  A document is the number of writes in it, a source what its   *)
(* main.lua and its view do.                                               *)
(***************************************************************************)
EXTENDS Naturals, FiniteSets

CONSTANTS Source, DocName, Id, None,
          Main,      \* Source -> "missing", "throws" or "view"
          Opens,     \* Source -> the documents main.lua opens, and seeds when empty
          Draws,     \* Source -> the elements its view draws, each with a ui.state
          Breaks,    \* Source -> the documents its view cannot draw once they grow
          First,     \* the source the item was created with
          MaxWrites, \* bound: writes in a document
          MaxEdits,  \* bound: commits to the source
          MaxFaults  \* bound: reads and writes of the vault that fail

ASSUME AppHostAssumption ==
  /\ MaxWrites \in Nat \ {0} /\ MaxEdits \in Nat /\ MaxFaults \in Nat
  /\ First \in Source /\ None \notin Source
  /\ Opens \in [Source -> SUBSET DocName] /\ Breaks \in [Source -> SUBSET DocName]
  /\ Draws \in [Source -> SUBSET Id]

VARIABLES app,        \* the open app, or None
          vault, src, \* what the vault has: of each document, of the source
          answer,     \* to the last EditFile
          saveError,  \* Shell::error, from the last flush
          faults
vars == <<app, vault, src, answer, saveError, faults>>

\* DocCore: `half' when a write failed half way and awaits the next commit
Core == [val : 0..MaxWrites, half : BOOLEAN, version : Nat, saved : Nat]
Mirror == [val : 0..MaxWrites, at : Nat]
\* A ui.state entry: as first drawn, typed into, or holding a coroutine
Draft == {"fresh", "typed", "bound"}

CanOpen == Main[src] # "missing"
Fault(b) == /\ faults' = faults + (IF b THEN 1 ELSE 0)
            /\ faults' <= MaxFaults

\* doc.commit() with one more write in it; what was half written goes along
Commit(c) == [c EXCEPT !.val = @ + 1, !.half = FALSE, !.version = @ + 1]
\* A handler that wrote and then threw: nothing is committed yet
HalfWritten(c) == [c EXCEPT !.val = @ + 1, !.half = TRUE]
\* An import or an export commits what is pending first
Sealed(c) == IF c.half THEN [c EXCEPT !.half = FALSE, !.version = @ + 1] ELSE c
Seeded(c) == IF c.val = 0 THEN Commit(c) ELSE c

\* doc.open: the core of an earlier VM, or one loaded from the vault
FromVault(d, readable) ==
  [val |-> IF d \in readable THEN vault[d] ELSE 0, half |-> FALSE, version |-> 0, saved |-> 0]
Loaded(cores, d, readable) == IF d \in DOMAIN cores THEN cores[d] ELSE FromVault(d, readable)
Opened(s, cores, readable) == {d \in Opens[s] : d \in DOMAIN cores \/ d \in readable}
CoresAfter(s, cores, readable) ==
  [d \in DOMAIN cores \cup Opened(s, cores, readable) |->
     IF d \in Opens[s] THEN Seeded(Loaded(cores, d, readable)) ELSE cores[d]]
\* The mirror is patched on opening, before the seed.
MirrorOf(s, cores, readable, d) == [val |-> Loaded(cores, d, readable).val, at |-> 0]
\* Mutant: a mirror also for what could not be read
MirrorsOfAll(s, cores, readable) ==
  [d \in Opens[s] |-> MirrorOf(s, cores, readable, d)]
Mirrors(s, cores, readable) ==
  [d \in Opened(s, cores, readable) |-> MirrorOf(s, cores, readable, d)]

Evaluates(s, cores, readable) == Main[s] = "view" /\ Opened(s, cores, readable) = Opens[s]
ViewFails(s, mirrors) == \E d \in Breaks[s] \cap DOMAIN mirrors : mirrors[d].val > 1

\* Who touches ui.state[id] keeps it, the sweep drops the others
Drawn(s, state) ==
  [id \in Draws[s] |-> IF id \in DOMAIN state THEN state[id] ELSE "fresh"]
\* carry_state leaves out what belongs to the old VM
Carried(state) == [id \in {i \in DOMAIN state : state[i] # "bound"} |-> state[id]]

\* LuaApp::reload: a second app beside the running one, whose cores it shares.
\* Mutant: the handler table of the old VM stays
OldHandlers(a) == a.handlers
NoHandlers(a) == {}
Reload(a, readable) ==
  LET cores == CoresAfter(a.src, a.cores, readable)
      mirrors == Mirrors(a.src, a.cores, readable)
  IN IF Main[a.src] = "missing" THEN [ok |-> FALSE, app |-> a]
     ELSE IF ~Evaluates(a.src, a.cores, readable) \/ ViewFails(a.src, mirrors)
     THEN [ok |-> FALSE, app |-> [a EXCEPT !.cores = cores]]
     ELSE [ok |-> TRUE,
           app |-> [a EXCEPT !.cores = cores, !.mirrors = mirrors, !.running = a.src,
                             !.ran = {a.src}, !.error = FALSE, !.banner = FALSE, !.seen = a.version,
                             !.state = Drawn(a.src, Carried(a.state)), !.handlers = NoHandlers(a)]]

\* reload_if_stale
Booked(a, r, v) == [r.app EXCEPT !.seen = v, !.banner = ~r.ok]
ReloadIfStale(a, readable) ==
  IF a.version <= a.seen THEN a
  ELSE Booked(a, Reload([a EXCEPT !.tries = @ + 1], readable), a.version)

\* LuaApp::flush: over the cores, in any order, up to the first that fails.
\* Mutant: `saved' moves on before the put
Dirty(a) == {d \in DOMAIN a.cores : a.cores[d].version > a.cores[d].saved}
SavedCore(c) == [Sealed(c) EXCEPT !.saved = c.version]
MarkedFirst(c) == [Sealed(c) EXCEPT !.saved = c.version]
Exported(c) == Sealed(c)
Flushed(a, put, failed) ==
  [a EXCEPT !.cores = [d \in DOMAIN a.cores |->
     IF d \in put THEN SavedCore(a.cores[d])
     ELSE IF d \in failed THEN Exported(a.cores[d]) ELSE a.cores[d]]]

Flush(a) ==
  \E put \in SUBSET Dirty(a) :
    LET rest == Dirty(a) \ put
    IN \E failed \in IF rest = {} THEN {{}} ELSE {{d} : d \in rest} :
         /\ app' = Flushed(a, put, failed)
         /\ vault' = [d \in DocName |-> IF d \in put THEN a.cores[d].val ELSE vault[d]]
         /\ saveError' = (saveError \/ rest # {})
         /\ Fault(rest # {})

\* The same when a read of the vault failed: one fault at a time
FlushAfterFault(a) ==
  /\ app' = Flushed(a, Dirty(a), {})
  /\ vault' = [d \in DocName |-> IF d \in Dirty(a) THEN a.cores[d].val ELSE vault[d]]
  /\ Fault(TRUE) /\ UNCHANGED saveError

\* The end of Shell::update.  Of what main.lua opens, one document may turn out
\* unreadable: the last it gets to.
EndOfMessage(a) ==
  \/ Flush(ReloadIfStale(a, DocName))
  \/ /\ a.version > a.seen
     /\ \E d \in Opens[a.src] \ DOMAIN a.cores : FlushAfterFault(ReloadIfStale(a, DocName \ {d}))
-----------------------------------------------------------------------------
Init ==
  /\ app = None /\ vault = [d \in DocName |-> 0] /\ src = First
  /\ answer = None /\ saveError = FALSE /\ faults = 0

\* open_tab and LuaApp::open.  An item without main.lua gets no tab.
NewApp(readable) ==
  LET none == [d \in {} |-> 0]
  IN [src |-> src, version |-> 0, seen |-> 0, running |-> src, ran |-> {src},
      error |-> ~Evaluates(src, none, readable), banner |-> FALSE, tries |-> 0,
      cores |-> CoresAfter(src, none, readable), mirrors |-> Mirrors(src, none, readable),
      state |-> [i \in {} |-> "fresh"], handlers |-> {}]
Open ==
  /\ app = None /\ CanOpen
  /\ \/ Flush(NewApp(DocName))
     \/ \E d \in Opens[src] : FlushAfterFault(NewApp(DocName \ {d}))
  /\ answer' = None /\ UNCHANGED src

\* LuaApp::body
BrokenFrame(a, mirrors) == [a EXCEPT !.mirrors = mirrors]
Repatched(a) ==
  [d \in DOMAIN a.mirrors |->
     IF a.cores[d].version > a.mirrors[d].at
     THEN [val |-> a.cores[d].val, at |-> a.cores[d].version] ELSE a.mirrors[d]]
Frame ==
  /\ app # None /\ ~app.error
  /\ LET mirrors == Repatched(app)
     IN app' = IF ViewFails(app.running, mirrors) THEN BrokenFrame(app, mirrors)
               ELSE [app EXCEPT !.mirrors = mirrors, !.handlers = Draws[app.running],
                                !.state = Drawn(app.running, app.state)]
  /\ answer' = None /\ UNCHANGED <<vault, src, saveError, faults>>

\* LuaApp::update: a handler writes a document (whole, or half way into an
\* error), types into its state or keeps a coroutine there
HandlerWrites(d, half) ==
  /\ app # None /\ app.handlers # {} /\ d \in DOMAIN app.mirrors
  /\ app.cores[d].val < MaxWrites
  /\ EndOfMessage([app EXCEPT !.cores[d] =
       IF half THEN HalfWritten(@) ELSE Commit(@)])
  /\ answer' = None /\ UNCHANGED src
HandlerKeeps(id, draft) ==
  /\ app # None /\ id \in app.handlers /\ id \in DOMAIN app.state
  /\ EndOfMessage([app EXCEPT !.state[id] = draft])
  /\ answer' = None /\ UNCHANGED src
\* A module that is required only now is read from the source as it is now
HandlerRequires ==
  /\ app # None /\ app.handlers # {}
  /\ EndOfMessage([app EXCEPT !.ran = @ \cup {app.src}])
  /\ answer' = None /\ UNCHANGED src

\* What the sync brings; what it exports is sealed
Import(d) ==
  /\ app # None /\ d \in DOMAIN app.cores /\ app.cores[d].val < MaxWrites
  /\ EndOfMessage([app EXCEPT !.cores[d] = Commit(Sealed(@))])
  /\ answer' = None /\ UNCHANGED src
SyncTick ==
  /\ app # None
  /\ EndOfMessage([app EXCEPT !.cores = [d \in DOMAIN @ |-> Sealed(@[d])]])
  /\ answer' = None /\ UNCHANGED src

\* Request::EditFile and WriteFile of an open item.  The one reloads before it
\* answers and touches nothing when the text stays; the other answers first.
\* A put that fails leaves the source in memory changed.
Edited(s) == IF s = app.src THEN app
             ELSE [app EXCEPT !.src = s, !.version = @ + 1]
EditFile(s) ==
  /\ app # None /\ app.version < MaxEdits
  /\ \/ /\ src' = s /\ EndOfMessage(Edited(s))
        /\ answer' = IF app'.version > app.seen /\ app'.banner THEN "failed" ELSE "activated"
     \/ /\ answer' = "error" /\ UNCHANGED src /\ EndOfMessage(Edited(s))
WriteFile(s) ==
  /\ app # None /\ app.version < MaxEdits
  /\ src' \in {s, src} /\ answer' = None
  /\ EndOfMessage([app EXCEPT !.src = s, !.version = @ + 1])

\* Of a closed item
EditClosed(s) ==
  /\ app = None /\ src' = s /\ answer' = "closed"
  /\ UNCHANGED <<app, vault, saveError, faults>>

\* Request::ReloadItem: neither the watermark nor the error is booked
ReloadItem ==
  /\ app # None
  /\ EndOfMessage(Reload(app, DocName).app)
  /\ answer' = None /\ UNCHANGED src

\* Closing, a lock, a crash
Close ==
  /\ app # None /\ app' = None /\ saveError' = FALSE /\ answer' = None
  /\ UNCHANGED <<vault, src, faults>>

Next == \/ Open \/ Frame \/ SyncTick \/ ReloadItem \/ Close \/ HandlerRequires
        \/ \E d \in DocName : Import(d) \/ \E half \in BOOLEAN : HandlerWrites(d, half)
        \/ \E id \in Id, draft \in {"typed", "bound"} : HandlerKeeps(id, draft)
        \/ \E s \in Source : EditFile(s) \/ WriteFile(s) \/ EditClosed(s)
Spec == Init /\ [][Next]_vars
-----------------------------------------------------------------------------
(* Properties *)

IsOpen == app # None

\* The documents of the app have cores, mirrors are of cores, and the mirror's
\* watermarks are of writes that were made (Docs, DocCore).
TypeOK ==
  /\ src \in Source /\ vault \in [DocName -> 0..MaxWrites] /\ faults \in 0..MaxFaults
  /\ saveError \in BOOLEAN /\ answer \in {None, "activated", "failed", "error", "closed"}
  /\ IsOpen =>
       /\ app.src \in Source /\ app.running \in Source /\ app.ran \subseteq Source
       /\ app.version \in 0..MaxEdits /\ app.seen \in 0..app.version
       /\ DOMAIN app.mirrors \subseteq DOMAIN app.cores /\ DOMAIN app.cores \subseteq DocName
       /\ \A d \in DOMAIN app.cores : app.cores[d] \in Core
       /\ \A d \in DOMAIN app.mirrors : app.mirrors[d] \in Mirror
       /\ DOMAIN app.state \subseteq Id /\ \A id \in DOMAIN app.state : app.state[id] \in Draft

\* A mirror the next frame would not patch shows what is in the document, but
\* for what a failed write left pending - also after reloads that opened the
\* document again, and before the write that seeded it.
MirrorIsKnown ==
  IsOpen => \A d \in DOMAIN app.mirrors :
    (app.mirrors[d].at = app.cores[d].version /\ ~app.cores[d].half)
      => app.mirrors[d].val = app.cores[d].val

\* A document the next flush would skip is in the vault as it is, whoever
\* wrote it and whichever VM opened it.
SavedIsKnown ==
  IsOpen => \A d \in DOMAIN app.cores :
    (app.cores[d].version = app.cores[d].saved /\ ~app.cores[d].half)
      => vault[d] = app.cores[d].val

\* What is not in the vault after a message has been complained about, whether
\* or not the running source has the document open.
UnsavedIsReported ==
  (IsOpen /\ ~saveError) =>
    \A d \in DOMAIN app.cores : app.cores[d].half \/ vault[d] = app.cores[d].val

\* What a watermark says is so: no mirror and no save is behind what is noted of
\* it, and what stays unsaved is complained about.
Watermarks == MirrorIsKnown /\ SavedIsKnown /\ UnsavedIsReported

\* A vault that cannot be read is not an empty one: no write of a document
\* in the vault is ever overwritten by a save.
NothingOverwritten == [][\A d \in DocName : vault'[d] >= vault[d]]_vars

\* What runs is the source, or the banner says that it is not.
BannerTellsTruth == IsOpen => (app.running = app.src \/ app.banner)

\* A source that does not load is tried once for each edit, not once for each message.
OncePerEdit == IsOpen => app.tries <= app.version

\* What was typed into an element survives frames that fail and reloads, as
\* long as the source that runs draws the element.
DraftsSurvive ==
  [][(IsOpen /\ app' # None) =>
       \A id \in DOMAIN app.state :
         (app.state[id] = "typed" /\ id \in Draws[app.running] \cap Draws[app'.running])
            => id \in DOMAIN app'.state /\ app'.state[id] # "fresh"]_vars

\* An event runs a handler of the VM that drew the element.
HandlersOfRunning == IsOpen => app.handlers \subseteq Draws[app.running]

\* The banner is up whenever the source does not run, each edit is tried once, and
\* only the running VM's handlers are called.
ReloadIsTold == BannerTellsTruth /\ OncePerEdit /\ HandlersOfRunning

\* "activated" means that the VM runs the source
\* (docs/design/agent-source-editing.md).
ActivatedIsRunning == (IsOpen /\ answer = "activated") => app.running = src

\* "On any failure nothing changes and the running app is untouched"
\* (LuaApp::reload): an edit that does not load leaves the documents alone.
NothingChangesOnFailure ==
  [][(IsOpen /\ app' # None /\ app'.version > app.version /\ app'.banner)
       => vault' = vault]_vars

\* "still running the last good version" (the banner): all that runs in a VM
\* is of one source.
RunsOneVersion == IsOpen => app.ran = {app.running}
=============================================================================
