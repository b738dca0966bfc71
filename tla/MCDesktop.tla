----------------------------- MODULE MCDesktop ------------------------------
(* One desktop's parts, each on its own: a behaviour is of one part, the   *)
(* rest of the desktop stays as it began.  The session is driven over the  *)
(* bridge (part `bridge'), from the window (`window'), or by both at once; *)
(* the tabs over the bridge (`tabs'), or with the screen's own buttons too *)
(* (`screen'); subscriptions over two accounts and a failing call          *)
(* (`switches'), or of three items that the node comes to know of          *)
(* (`follows'); the driver over several operations (`driver'), or with all *)
(* the frame counts of one (`agree').                                      *)
EXTENDS Session, TLC

CONSTANTS ann, bob, board, notes, todoList, pad, row,
          Parts             \* which of them to check

VARIABLES part,
          \* Tabs
          unlocked, tabs, focused, tabApps, runs, screenshot, begun, astray,
          \* Subscription
          holder, token, open, subscribed, calls, subs, touched, opens, locks, fails,
          \* Driver
          shown, hits, pointer, clock, op, todo, painted, events, report, ops, changes, asked,
          due, requested
ofTabs == <<unlocked, tabs, focused, tabApps, runs, screenshot, begun, astray>>
ofSubscription == <<holder, token, open, subscribed, calls, subs, touched, opens, locks, fails>>
ofDriver ==
  <<shown, hits, pointer, clock, op, todo, painted, events, report, ops, changes, asked,
    due, requested>>

ByBridge == INSTANCE Session WITH Frontends <- {"bridge"}
ByWindow == INSTANCE Session WITH Frontends <- {"window"}

T == INSTANCE Tabs WITH Items <- {board, notes}, Doors <- {"bridge"},
       MaxTabs <- 3, MaxRuns <- 2, MaxSteps <- 2, apps <- tabApps
Screen == INSTANCE Tabs WITH Items <- {board, notes}, Doors <- {"screen", "bridge"},
       MaxTabs <- 3, MaxRuns <- 1, MaxSteps <- 1, apps <- tabApps
ASSUME T!TabsConstants /\ Screen!TabsConstants

Switches == INSTANCE Subscription WITH Items <- {board}, MaxOpens <- 2, MaxLocks <- 2,
       MaxFaults <- 1, active <- holder, node <- token, faults <- fails
Follows == INSTANCE Subscription WITH Items <- {board, notes, todoList}, Account <- {ann},
       MaxOpens <- 0, MaxLocks <- 0, MaxFaults <- 0,
       active <- holder, node <- token, faults <- fails
ASSUME Switches!SubscriptionConstants /\ Follows!SubscriptionConstants

D == INSTANCE Driver WITH Places <- {pad, row}, Counts <- {2}, Secs <- {3},
       MaxOps <- 2, MaxChanges <- 2
Agree == INSTANCE Driver WITH Places <- {pad, row}, Counts <- 0..3, Secs <- {0, 3},
       MaxOps <- 1, MaxChanges <- 1
ASSUME D!DriverConstants /\ Agree!DriverConstants

MCInit ==
  /\ part \in Parts
  /\ Init /\ T!Init /\ Switches!Init
  /\ D!Init /\ (part \notin {"driver", "agree"} => shown = {})

MCNext ==
  /\ \/ /\ UNCHANGED <<ofTabs, ofSubscription, ofDriver>>
        /\ \/ part = "both" /\ Next
           \/ part = "bridge" /\ ByBridge!Next
           \/ part = "window" /\ ByWindow!Next
     \/ /\ UNCHANGED <<vars, ofSubscription, ofDriver>>
        /\ \/ part = "tabs" /\ T!Next
           \/ part = "screen" /\ Screen!Next
     \/ /\ UNCHANGED <<vars, ofTabs, ofDriver>>
        /\ \/ part = "switches" /\ Switches!Next
           \/ part = "follows" /\ Follows!Next
     \/ /\ UNCHANGED <<vars, ofTabs, ofSubscription>>
        /\ \/ part = "driver" /\ D!Next
           \/ part = "agree" /\ Agree!Next
  /\ UNCHANGED part

all == <<vars, part, ofTabs, ofSubscription, ofDriver>>
MCSpec == MCInit /\ [][MCNext]_all

\* Threads run, the window handles its messages, and a test run's worker goes
\* on; where calls do not fail, they get to the node.
MCFairSpec ==
  /\ MCSpec
  /\ WF_vars(Handle) /\ WF_vars(Thread)
  /\ \A n \in 1..2 :
       WF_ofTabs(\E r \in runs : r.id = n /\ (T!TestDriver(r) \/ T!TestRunDone(r)))
  /\ \A i \in {board, notes, todoList} :
       WF_ofSubscription(part = "follows" /\ \E c \in calls : c.item = i /\ Follows!Served(c))

-----------------------------------------------------------------------------
\* Every part's variables have their types.
Types ==
  /\ TypeOK /\ T!TypeOK
  /\ part # "follows" => Switches!TypeOK
  /\ part = "follows" => Follows!TypeOK
  /\ part # "agree" => D!TypeOK
  /\ part = "agree" => Agree!TypeOK


\* Tabs: the focus is on a tab, a running app has one, a screenshot is of what
\* was asked for, and no test tab outlives its run; over the bridge alone, every
\* item's tab has its app, and an item one tab.
TabsAgree == IF part = "screen" THEN Screen!TabsAgree ELSE T!TabsAgree

\* Driver: a readback is of what its request found, the clock moves by what was
\* asked for, every frame asked for is painted, events go to a frame of all that came
\* before them at times that differ, and the bridge and the headless driver make the
\* same steps.
DriverIsTrue ==
  /\ D!ReadbackIsTrue /\ D!ClockIsAsked /\ D!FramesArePainted
  /\ D!EventsSeeTheFrame /\ D!StampsDiffer /\ D!DriversAgree

\* Tabs: closing a tab leaves in front what was there, and every test run ends.
TabsSettle == T!FocusFollows /\ T!RunsEnd

\* What waits for a thread comes by it: Session's forms take clicks again, and
\* Subscription's node comes to know what is open.
ThreadsEnd == ButtonComesBack /\ (part = "follows" => Follows!ComesToBePushed)
=============================================================================
