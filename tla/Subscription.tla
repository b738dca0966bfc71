---------------------------- MODULE Subscription ----------------------------
(***************************************************************************)
(* Who a node pushes to.  The window asks to be sent the changes of every  *)
(* document it has open, once for each, and takes that back on closing;    *)
(* both calls run on threads of their own, which nothing orders and whose  *)
(* failure nobody hears of.  What was asked for is kept by item, without   *)
(* the account that asked.  One document of each item is modelled; what a  *)
(* subscriber that is missed loses is in Sync.                             *)
(***************************************************************************)
EXTENDS Naturals

CONSTANTS Account, Items, None,
          MaxOpens,    \* bound: items opened again
          MaxLocks,    \* bound: accounts locked
          MaxFaults    \* bound: calls that fail

\* What the constants have to be
SubscriptionConstants ==
  None \notin Account /\ MaxOpens \in Nat /\ MaxLocks \in Nat /\ MaxFaults \in Nat

VARIABLES active, node,   \* who is unlocked, and whose token Shell::node holds
          open, subscribed,
          calls,          \* the threads: [op, did, token, item, at]
          subs,           \* the node's: <<did, item>>
          touched,        \* history: <<did, item>> that were open
          opens, locks, faults
vars == <<active, node, open, subscribed, calls, subs, touched, opens, locks, faults>>

Call == [op : {"subscribe", "unsubscribe"}, did : Account, token : Account, item : Items,
         at : 0..MaxOpens]

Init ==
  /\ active = None /\ node = None /\ open = {} /\ subscribed = {} /\ calls = {}
  /\ subs = {} /\ touched = {} /\ opens = 0 /\ locks = 0 /\ faults = 0

Asking(op, items) ==
  {[op |-> op, did |-> active', token |-> node', item |-> i, at |-> opens'] : i \in items}

\* Mutant: only the item that was just opened is looked at
OpenedNow(record) == (open' \ open) \ record
FirstSightings(record) == open' \ record

\* The end of Shell::update: subscribe_if_new for every app that persists
AfterMessage(record, unsubscribing) ==
  IF active' = None \/ node' = None
  THEN calls' = calls \cup unsubscribing /\ subscribed' = record
  ELSE /\ calls' = calls \cup unsubscribing \cup Asking("subscribe", FirstSightings(record))
       /\ subscribed' = record \cup FirstSightings(record)

\* An unlock over the bridge reads the account's token, if it has one; the
\* login screen's leaves what there is
Unlock(a) ==
  /\ active = None /\ active' = a /\ open' = {}
  /\ node' \in {a, node, None}
  /\ UNCHANGED <<subscribed, calls, subs, touched, opens, locks, faults>>

Claim ==
  /\ active # None /\ node' = active
  /\ UNCHANGED <<active, open, subs, touched, opens, locks, faults>>
  /\ AfterMessage(subscribed, {})

\* Shell::reset_tabs and vault.lock: `subscribed' and `node' stay
Lock ==
  /\ active # None /\ locks < MaxLocks /\ locks' = locks + 1
  /\ active' = None /\ open' = {}
  /\ UNCHANGED <<node, subscribed, calls, subs, touched, opens, faults>>

Open(i) ==
  /\ active # None /\ i \notin open
  /\ opens' = opens + (IF \E a \in Account : <<a, i>> \in touched THEN 1 ELSE 0)
  /\ opens' <= MaxOpens
  /\ open' = open \cup {i} /\ touched' = touched \cup {<<active, i>>}
  /\ UNCHANGED <<active, node, subs, locks, faults>>
  /\ AfterMessage(subscribed, {})

Told(i) == IF node = None \/ i \notin subscribed THEN {} ELSE Asking("unsubscribe", {i})

\* Msg::Close: the record goes whether or not there is anyone to tell
Close(i) ==
  /\ i \in open /\ open' = open \ {i}
  /\ UNCHANGED <<active, node, subs, touched, opens, locks, faults>>
  /\ AfterMessage(subscribed \ {i}, Told(i))

\* node_accept_subscription: the token must be the desktop's own
Accepted(c) == c.token = c.did

\* Admin::subscribe and unsubscribe
Served(c) ==
  /\ c \in calls /\ calls' = calls \ {c}
  /\ subs' = IF ~Accepted(c) THEN subs
             ELSE IF c.op = "subscribe" THEN subs \cup {<<c.did, c.item>>}
             ELSE subs \ {<<c.did, c.item>>}
  /\ UNCHANGED <<active, node, open, subscribed, touched, opens, locks, faults>>

Fails(c) ==
  /\ c \in calls /\ calls' = calls \ {c}
  /\ faults < MaxFaults /\ faults' = faults + 1
  /\ UNCHANGED <<active, node, open, subscribed, subs, touched, opens, locks>>

Next == \/ Lock \/ Claim \/ \E a \in Account : Unlock(a)
        \/ \E i \in Items : Open(i) \/ Close(i)
        \/ \E c \in calls : Served(c) \/ Fails(c)
Spec == Init /\ [][Next]_vars
\* The threads get to the node
FairSpec == Spec /\ \A i \in Items : WF_vars(\E c \in calls : c.item = i /\ Served(c))
-----------------------------------------------------------------------------
(* Properties *)

\* Calls under way and subscriptions are of accounts and items.
TypeOK ==
  /\ active \in Account \cup {None} /\ node \in Account \cup {None}
  /\ open \subseteq Items /\ subscribed \subseteq Items /\ calls \subseteq Call
  /\ subs \subseteq Account \X Items /\ touched \subseteq Account \X Items
  /\ opens \in 0..MaxOpens /\ locks \in 0..MaxLocks /\ faults \in 0..MaxFaults

\* A desktop is subscribed to nothing but what it opened under that account,
\* whichever thread ran late and whoever is unlocked by then.
OnlyWhatWasOpen == subs \subseteq touched

\* While nothing is opened a second time and no call fails, what stays open with
\* a node that knows the account comes to be pushed to, also if the claim
\* came after the opening.
ComesToBePushed ==
  \A i \in Items :
    (i \in open /\ active # None /\ node = active)
      ~> (i \notin open \/ <<active, i>> \in subs)

\* What the window takes to be subscribed is, once no call is under way
\* (subscribe_if_new: "a no-op if this (item, name) pair is already subscribed").
SubscribedIsSo ==
  (calls = {} /\ active # None) => \A i \in open \cap subscribed : <<active, i>> \in subs
=============================================================================
