------------------------------- MODULE MCSync -------------------------------
(* Two desktops that edit one document, with the timer (`timer') or        *)
(* without it (`echo'); or, for what a flush that fails half-way leaves    *)
(* unsaved, two documents.                                                 *)
EXTENDS Sync

CONSTANTS d1, d2,
          Scenes            \* which to check

VARIABLE scene

OneDoc == {"x"}
OneDocEdits == {<<"x", d1, 1>>, <<"x", d2, 1>>}
TwoDocs == {"x", "y"}
TwoDocEdits == {<<"x", d1, 1>>, <<"y", d1, 1>>, <<"x", d2, 1>>}

Echo == INSTANCE Sync WITH Ticking <- FALSE, MaxTabs <- 3

MCInit == Init /\ scene \in Scenes
MCNext ==
  /\ \/ scene = "timer" /\ Next
     \/ scene = "echo" /\ Echo!Next
  /\ UNCHANGED scene
all == <<vars, scene>>

\* The fairness of Spec, of each scene's steps
MCFairness ==
  \A d \in Desktop :
    /\ WF_vars(scene = "timer" /\ SyncTick(d))
    /\ \A x \in Doc :
         /\ WF_vars(\E m \in net : m.doc = x /\ SyncDone(d, m))
         /\ WF_vars(\E m \in net : m.doc = x /\ PushReceived(d, m))
         /\ WF_vars(\E m \in net : m.doc = x /\ m.who = d /\ AcceptSync(m))

MCSafety == MCInit /\ [][MCNext]_all
MCSpec == MCSafety /\ MCFairness

-----------------------------------------------------------------------------
\* Converges with the timer, as SyncTick is the backstop it is said to be;
\* EchoDies without it: a push that is imported, synced and pushed on comes to
\* an end.  One formula, for the graph to be searched once.
Settles == <>[](IF scene = "timer" THEN Agreed ELSE Quiet)
=============================================================================
