-------------------------------- MODULE Tabs --------------------------------
(***************************************************************************)
(* The tabs of one window and the apps behind them.  Home is pinned; an    *)
(* item's app is opened from its screen or over the bridge; RunTests opens *)
(* a temporary app whose worker thread drives the window as a player would *)
(* do; a screenshot waits in a slot until the next frame takes it, while a *)
(* driver operation is taken as soon as the message that asks for it has   *)
(* been delivered, before any other (Driver).  The bridge serves one       *)
(* request at a time but gives up on one that takes long, and the tabs are *)
(* in use meanwhile.                                                       *)
(***************************************************************************)
EXTENDS Naturals, Sequences, SequencesExt

CONSTANTS Items, None,
          Doors,        \* where an item may be opened: "screen", "bridge"
          MaxTabs,      \* bound: tabs at a time
          MaxRuns,      \* bound: test runs started
          MaxSteps      \* bound: operations of one run

\* What the constants have to be
TabsConstants == /\ None \notin Items /\ Doors \subseteq {"screen", "bridge"}
                 /\ MaxTabs \in Nat \ {0} /\ MaxRuns \in Nat /\ MaxSteps \in Nat

VARIABLES unlocked, tabs, focused,
          apps,         \* the tabs that have an app
          runs,         \* test runs whose worker goes on
          screenshot,   \* the tab a pending screenshot is to show
          begun,        \* test runs so far
          astray        \* history: what reached another tab than it was for
vars == <<unlocked, tabs, focused, apps, runs, screenshot, begun, astray>>

Home == [kind |-> "home", item |-> None]
Nothing == [kind |-> "none", item |-> None]
AppTab(i) == [kind |-> "item", item |-> i]
\* Mutant: a test run's tab is named after its run
NamedByRun(i) == [kind |-> "run", item |-> i]
TestTab(i) == [kind |-> "test", item |-> i]
Tab == [kind : {"home", "item", "test"}, item : Items \cup {None}]

Init ==
  /\ unlocked = FALSE /\ tabs = <<Home>> /\ focused = 1 /\ apps = {}
  /\ runs = {} /\ begun = 0 /\ screenshot = Nothing
  /\ astray = {}

IsOpen(t) == t \in ToSet(tabs)
\* Iterator::position; only asked of a tab that is there
Position(ts, t) == CHOOSE k \in 1..Len(ts) : ts[k] = t /\ \A j \in 1..(k - 1) : ts[j] # t
Without(ts, t) == IF t \in ToSet(ts) THEN RemoveAt(ts, Position(ts, t)) ELSE ts
Least(a, b) == IF a < b THEN a ELSE b

-----------------------------------------------------------------------------
(* Opening and closing *)

\* open_tab and open_test_tab push at the end and focus what they pushed; an
\* app that does not open leaves only a message behind
Push(ts, t) == /\ Len(ts) < MaxTabs
               /\ tabs' = Append(ts, t) /\ focused' = Len(ts) + 1

OpenFromScreen(i) ==
  /\ "screen" \in Doors /\ unlocked /\ tabs[focused] = Home
  /\ Push(tabs, AppTab(i)) /\ apps' = apps \cup {AppTab(i)}
  /\ UNCHANGED <<unlocked, runs, screenshot, begun, astray>>

AlreadyOpen(i) == IsOpen(AppTab(i))

OpenItem(i) ==
  /\ "bridge" \in Doors /\ unlocked
  /\ IF AlreadyOpen(i)
     THEN focused' = Position(tabs, AppTab(i)) /\ UNCHANGED <<tabs, apps>>
     ELSE Push(tabs, AppTab(i)) /\ apps' = apps \cup {AppTab(i)}
  /\ UNCHANGED <<unlocked, runs, screenshot, begun, astray>>

Focus(k) ==
  /\ unlocked /\ focused' = k
  /\ UNCHANGED <<unlocked, tabs, apps, runs, screenshot, begun, astray>>

\* Mutant: the focus always moves
AlwaysLeft(pos) == IF focused > 1 THEN focused - 1 ELSE focused
FocusAfterClose(pos) == IF focused >= pos THEN focused - 1 ELSE focused

AppsAfterClose(t) == apps \ {t}

\* Msg::Close: the app goes, and the first tab with its id
Close(t) ==
  /\ unlocked /\ t # Home /\ IsOpen(t)
  /\ tabs' = Without(tabs, t) /\ apps' = AppsAfterClose(t)
  /\ focused' = FocusAfterClose(Position(tabs, t))
  /\ UNCHANGED <<unlocked, runs, screenshot, begun, astray>>

\* lock, unlock, signup: reset_tabs
ResetTabs ==
  /\ unlocked' = ~unlocked /\ tabs' = <<Home>> /\ focused' = 1 /\ apps' = {}
  /\ UNCHANGED <<runs, screenshot, begun, astray>>

-----------------------------------------------------------------------------
(* A test run *)

\* Mutant: the index is restored as it was
RestoredAsIs(restore, ts) == restore
Restored(restore, ts) == Least(restore, Len(ts))

\* The driver operations of a run, and the reads that go to its tab by name
RunTests(i) ==
  LET rest == Without(tabs, TestTab(i)) IN
  /\ unlocked /\ begun < MaxRuns
  /\ \/ /\ Push(rest, TestTab(i)) /\ apps' = apps \cup {TestTab(i)}
        /\ begun' = begun + 1
        /\ \E n \in 0..MaxSteps : runs' = runs \cup {[id |-> begun + 1, tab |-> TestTab(i), focus |-> focused,
                               left |-> n]}
     \* The earlier run's tab is closed before this one's app fails to open
     \/ /\ tabs' = rest /\ apps' = apps \ {TestTab(i)}
        /\ focused' = Restored(focused, rest)
        /\ UNCHANGED <<begun, runs>>
  /\ UNCHANGED <<unlocked, screenshot, astray>>

Spent(r) == [r EXCEPT !.left = @ - 1]

\* Msg::TestDriver: into the slot and, once delivered, run on what shows
TestDriver(r) ==
  /\ r.left > 0 /\ runs' = (runs \ {r}) \cup {Spent(r)}
  /\ astray' = IF r.tab = tabs[focused] THEN astray ELSE astray \cup {"driver"}
  /\ UNCHANGED <<unlocked, tabs, focused, apps, screenshot, begun>>

ClosedBy(r) == Without(tabs, r.tab)

TestRunDone(r) ==
  /\ r.left = 0 /\ runs' = runs \ {r}
  /\ tabs' = ClosedBy(r) /\ apps' = apps \ {r.tab}
  /\ focused' = Restored(r.focus, tabs')
  /\ UNCHANGED <<unlocked, screenshot, begun, astray>>

-----------------------------------------------------------------------------
(* The slot of a screenshot *)

Screenshot(i) ==
  /\ screenshot = Nothing /\ AppTab(i) \in apps /\ tabs[focused] = AppTab(i)
  /\ screenshot' = AppTab(i)
  /\ UNCHANGED <<unlocked, tabs, focused, apps, runs, begun, astray>>

StillFocused == tabs[focused] = screenshot /\ screenshot \in apps

TakeScreenshot ==
  /\ screenshot # Nothing /\ screenshot' = Nothing
  /\ astray' = IF StillFocused /\ screenshot # tabs[focused]
               THEN astray \cup {"screenshot"} ELSE astray
  /\ UNCHANGED <<unlocked, tabs, focused, apps, runs, begun>>

-----------------------------------------------------------------------------
Next ==
  \/ ResetTabs \/ TakeScreenshot
  \/ \E k \in 1..Len(tabs) : Focus(k)
  \/ \E t \in Tab : Close(t)
  \/ \E i \in Items : OpenFromScreen(i) \/ OpenItem(i) \/ RunTests(i) \/ Screenshot(i)
  \/ \E r \in runs : TestDriver(r) \/ TestRunDone(r)
Spec == Init /\ [][Next]_vars
\* A worker goes on to its end
FairSpec == /\ Spec
            /\ \A n \in 1..MaxRuns :
                 WF_vars(\E r \in runs : r.id = n /\ (TestDriver(r) \/ TestRunDone(r)))
-----------------------------------------------------------------------------
(* Properties *)

\* Tabs within the bound, apps and runs of tabs.
TypeOK ==
  /\ unlocked \in BOOLEAN /\ apps \subseteq Tab /\ screenshot \in Tab \cup {Nothing}
  /\ tabs \in Seq(Tab) /\ Len(tabs) <= MaxTabs
  /\ runs \subseteq [id : 1..MaxRuns, tab : Tab, focus : 1..MaxTabs, left : 0..MaxSteps]
  /\ begun \in 0..MaxRuns
  /\ astray \subseteq {"driver", "screenshot"}

\* `tabs[self.focused]' of the next view is there, and Home is first, whatever
\* was closed, reset or restored by index in between.
FocusInRange == focused \in 1..Len(tabs) /\ tabs[1] = Home

\* Every app that runs has a tab: none goes on flushing and syncing unseen.
AppsHaveTabs == apps \subseteq ToSet(tabs)

\* Every tab has an app; the view of one that has not is "app not found".
TabsHaveApps == ToSet(tabs) \subseteq apps \cup {Home}

\* "Opening an already-open item focuses its tab - never a second VM for one
\* item" (Request::OpenItem).
OneTabEach == \A j, k \in 1..Len(tabs) : tabs[j] = tabs[k] => j = k

\* Closing a tab that does not show leaves the one that does.
FocusFollows ==
  [][\A t \in Tab : Close(t) /\ tabs[focused] # t => tabs'[focused'] = tabs[focused]]_vars

\* A screenshot shows the item it was asked for, or is refused.
ShotIsOfAsked == "screenshot" \notin astray

\* RunTests "never uses the currently open tab" (lua-app-tests.md): what a
\* test clicks on is its own temporary app.
TestsHitTheirOwn == "driver" \notin astray

\* Every run comes to its end, whatever became of its tab meanwhile.
RunsEnd == \A n \in 1..MaxRuns : (\E r \in runs : r.id = n) ~> ~\E r \in runs : r.id = n
\* No test tab outlives its run: the temporary app is closed on every way out.
NoTabLeft == runs = {} => \A i \in Items : ~IsOpen(TestTab(i))

\* The focus is on a tab, a running app has one, a screenshot is of what was asked
\* for, no test tab outlives its run, and over the bridge alone every item's tab has
\* its app, and an item one tab.
TabsAgree ==
  /\ FocusInRange /\ AppsHaveTabs /\ ShotIsOfAsked /\ NoTabLeft
  /\ "screen" \notin Doors => TabsHaveApps /\ OneTabEach
=============================================================================
