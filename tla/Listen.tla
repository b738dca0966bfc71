------------------------------- MODULE Listen -------------------------------
(***************************************************************************)
(* The connections pushes travel on, for one desktop's DID: the desktop's  *)
(* listener threads (spawn_push_listener), the node's accept loop, one     *)
(* handler thread per connection (handle_listen), and the LiveRegistry     *)
(* they share.  The registry is a map by DID and no step touches another   *)
(* DID's key, so one DID is enough.                                        *)
(*                                                                         *)
(* A connection is a member of Conn, taken when a listener dials and free  *)
(* again once both ends are gone.  The registry holds the only sender of a *)
(* connection's channel, so a channel is disconnected exactly when the     *)
(* registry no longer names it.  Pushes carry whole snapshots; all that    *)
(* counts of them here is how many wait.                                   *)
(***************************************************************************)
EXTENDS Naturals

CONSTANTS Conn,             \* connections (a pool: they are used again)
          Listener,         \* the desktop's listener threads
          Capacity,         \* CHANNEL_CAPACITY
          MaxFaults,        \* bound: lost connections and node restarts
          None

ASSUME ListenAssumption ==
  /\ None \notin Conn
  /\ Capacity \in Nat \ {0} /\ MaxFaults \in Nat

VARIABLES pc,               \* where each listener thread is
          conn,             \* the connection a listener holds
          handler,          \* where each connection's node end is
          queue,            \* pushes waiting in a connection's channel
          wire,             \* pushes written and not yet read
          registry,         \* the registered connection
          valid,            \* the desktop's token verifies
          faults            \* faults so far
vars == <<pc, conn, handler, queue, wire, registry, valid, faults>>

Init ==
  /\ pc = [l \in Listener |-> "absent"] /\ conn = [l \in Listener |-> None]
  /\ handler = [c \in Conn |-> "none"]
  /\ queue = [c \in Conn |-> 0] /\ wire = [c \in Conn |-> 0]
  /\ registry = None /\ valid = TRUE /\ faults = 0

\* The desktop's end of c is open
Held(c) == \E l \in Listener : conn[l] = c
Free(c) == handler[c] = "none" /\ ~Held(c)

\* Mutant: the connection is shut down before the registration is
HungupEarly(c) == handler[c] \in {"none", "ending", "closing"}

\* The node's end of c is gone: it refused, its handler returned, or it died
Hungup(c) == handler[c] = "none"

-----------------------------------------------------------------------------
(* spawn_push_listener: loop { listen; loop { next_push }; sleep } *)

\* Shell::new, ClaimResult, a claim over the bridge, a login over the bridge
Spawn(l) ==
  /\ pc[l] = "absent"
  /\ pc' = [pc EXCEPT ![l] = "dial"]
  /\ UNCHANGED <<conn, handler, queue, wire, registry, valid, faults>>

\* listen: connect and write the request
Dial(l) ==
  /\ pc[l] = "dial"
  /\ \E c \in Conn :
       /\ Free(c)
       /\ conn' = [conn EXCEPT ![l] = c]
       /\ handler' = [handler EXCEPT ![c] = "backlog"]
       /\ wire' = [wire EXCEPT ![c] = 0]
  /\ pc' = [pc EXCEPT ![l] = "await"]
  /\ UNCHANGED <<queue, registry, valid, faults>>

\* The ack is read
Listening(l) ==
  /\ pc[l] = "await"
  /\ handler[conn[l]] \in {"acked", "relaying", "ending", "closing"}
  /\ pc' = [pc EXCEPT ![l] = "listen"]
  /\ UNCHANGED <<conn, handler, queue, wire, registry, valid, faults>>

\* next_push: Msg::PushReceived goes to the window
NextPush(l) ==
  /\ pc[l] = "listen" /\ wire[conn[l]] > 0
  /\ wire' = [wire EXCEPT ![conn[l]] = @ - 1]
  /\ UNCHANGED <<pc, conn, handler, queue, registry, valid, faults>>

\* listen or next_push fails on a connection the node closed
ConnectionLost(l) ==
  /\ pc[l] \in {"await", "listen"} /\ Hungup(conn[l])
  /\ pc[l] = "listen" => wire[conn[l]] = 0
  /\ pc' = [pc EXCEPT ![l] = "sleep"]
  /\ conn' = [conn EXCEPT ![l] = None]
  /\ UNCHANGED <<handler, queue, wire, registry, valid, faults>>

\* LISTEN_RETRY passes
Retry(l) ==
  /\ pc[l] = "sleep"
  /\ pc' = [pc EXCEPT ![l] = "dial"]
  /\ UNCHANGED <<conn, handler, queue, wire, registry, valid, faults>>

-----------------------------------------------------------------------------
(* handle_listen, on a thread of its own *)

\* The accept loop reads the request and spawns
Accept(c) ==
  /\ handler[c] = "backlog"
  /\ handler' = [handler EXCEPT ![c] = "authorize"]
  /\ UNCHANGED <<pc, conn, queue, wire, registry, valid, faults>>

\* authorize_listen, then the ack; a refusal, or an ack that cannot be
\* written, ends it before anything is registered
Authorize(c) ==
  /\ handler[c] = "authorize"
  /\ handler' = [handler EXCEPT ![c] = IF valid /\ Held(c) THEN "acked" ELSE "none"]
  /\ UNCHANGED <<pc, conn, queue, wire, registry, valid, faults>>

\* LiveRegistry::register: insert, whoever was there
Register(c) ==
  /\ handler[c] = "acked"
  /\ registry' = c
  /\ queue' = [queue EXCEPT ![c] = 0]
  /\ handler' = [handler EXCEPT ![c] = "relaying"]
  /\ UNCHANGED <<pc, conn, wire, valid, faults>>

\* for push in rx: a write to a connection nobody holds fails
Relay(c) ==
  /\ handler[c] = "relaying" /\ queue[c] > 0
  /\ \/ /\ Held(c) /\ wire[c] < Capacity      \* the socket's own buffer
        /\ queue' = [queue EXCEPT ![c] = @ - 1]
        /\ wire' = [wire EXCEPT ![c] = @ + 1]
        /\ handler' = handler
     \/ /\ ~Held(c)
        /\ handler' = [handler EXCEPT ![c] = "ending"]
        /\ queue' = [queue EXCEPT ![c] = 0]    \* rx is dropped with the loop
        /\ wire' = wire
  /\ UNCHANGED <<pc, conn, registry, valid, faults>>

\* Mutant: a replaced sender is kept
SenderGoneNobody(c) ==
  /\ handler[c] = "relaying" /\ queue[c] = 0 /\ registry = None
  /\ handler' = [handler EXCEPT ![c] = "ending"]
  /\ UNCHANGED <<pc, conn, queue, wire, registry, valid, faults>>

\* ... and the loop ends when the sender is dropped, the queue read out
SenderGone(c) ==
  /\ handler[c] = "relaying" /\ queue[c] = 0 /\ registry # c
  /\ handler' = [handler EXCEPT ![c] = "ending"]
  /\ UNCHANGED <<pc, conn, queue, wire, registry, valid, faults>>

\* Mutant: the handler returns without unregistering
UnregisterNothing(c) ==
  /\ handler[c] = "ending"
  /\ handler' = [handler EXCEPT ![c] = "closing"]
  /\ UNCHANGED <<pc, conn, queue, wire, registry, valid, faults>>

\* LiveRegistry::unregister: remove by DID, whoever is there
Unregister(c) ==
  /\ handler[c] = "ending"
  /\ registry' = None
  /\ handler' = [handler EXCEPT ![c] = "closing"]
  /\ UNCHANGED <<pc, conn, queue, wire, valid, faults>>

\* handle_listen returns, and the connection is closed with it
Return(c) ==
  /\ handler[c] = "closing"
  /\ handler' = [handler EXCEPT ![c] = "none"]
  /\ UNCHANGED <<pc, conn, queue, wire, registry, valid, faults>>

-----------------------------------------------------------------------------
\* Mutant: one push more than the channel holds
PushOverfull ==
  /\ registry # None /\ handler[registry] = "relaying"
  /\ queue[registry] <= Capacity
  /\ queue' = [queue EXCEPT ![registry] = @ + 1]
  /\ UNCHANGED <<pc, conn, handler, wire, registry, valid, faults>>

\* LiveRegistry::push, from the accept loop's fan_out: try_send, never waits; a
\* channel whose receiver was dropped takes nothing
Push ==
  /\ registry # None /\ handler[registry] = "relaying"
  /\ queue[registry] < Capacity
  /\ queue' = [queue EXCEPT ![registry] = @ + 1]
  /\ UNCHANGED <<pc, conn, handler, wire, registry, valid, faults>>

\* The token expires, or the node revokes it: nothing else happens
Lapse ==
  /\ valid /\ valid' = FALSE
  /\ UNCHANGED <<pc, conn, handler, queue, wire, registry, faults>>

\* The desktop's end breaks; the node is not told
Drop(l) ==
  /\ faults < MaxFaults /\ faults' = faults + 1
  /\ pc[l] \in {"await", "listen"}
  /\ pc' = [pc EXCEPT ![l] = "sleep"]
  /\ conn' = [conn EXCEPT ![l] = None]
  /\ UNCHANGED <<handler, queue, wire, registry, valid>>

\* The node dies and is back: its threads, their connections, the registry
NodeRestart ==
  /\ faults < MaxFaults /\ faults' = faults + 1
  /\ handler' = [c \in Conn |-> "none"]
  /\ queue' = [c \in Conn |-> 0]
  /\ registry' = None
  /\ UNCHANGED <<pc, conn, wire, valid>>

-----------------------------------------------------------------------------
ListenerStep(l) ==
  Dial(l) \/ Listening(l) \/ NextPush(l) \/ ConnectionLost(l) \/ Retry(l)
HandlerStep(c) ==
  Accept(c) \/ Authorize(c) \/ Register(c) \/ Relay(c) \/ SenderGone(c)
    \/ Unregister(c) \/ Return(c)

Next ==
  \/ \E l \in Listener : Spawn(l) \/ ListenerStep(l) \/ Drop(l)
  \/ \E c \in Conn : HandlerStep(c)
  \/ Push \/ Lapse \/ NodeRestart

\* Threads run; nobody has to push, to lose a connection or to let a token lapse
Fairness ==
  /\ \A l \in Listener : WF_vars(Spawn(l)) /\ WF_vars(ListenerStep(l))
  /\ \A c \in Conn : WF_vars(HandlerStep(c))

Spec == Init /\ [][Next]_vars /\ Fairness

-----------------------------------------------------------------------------
HandlerState ==
  {"none", "backlog", "authorize", "acked", "relaying", "ending", "closing"}

\* Every variable has its type; a thread has a connection when it uses one.
TypeOK ==
  /\ pc \in [Listener -> {"absent", "dial", "await", "listen", "sleep"}]
  /\ conn \in [Listener -> Conn \cup {None}]
  /\ \A l \in Listener : pc[l] \in {"await", "listen"} <=> conn[l] # None
  /\ handler \in [Conn -> HandlerState]
  /\ queue \in [Conn -> 0..Capacity] /\ wire \in [Conn -> 0..Capacity]
  /\ registry \in Conn \cup {None}
  /\ valid \in BOOLEAN /\ faults \in 0..MaxFaults

\* The registry never names a channel whose handler has let go of it: what
\* fan_out counts as sent has, at that moment, a thread whose business it is.
NoOrphanedSender ==
  registry # None => handler[registry] \in {"relaying", "ending"}

\* The desktop is reached: the registered connection is one a listener reads
Reached ==
  /\ registry # None /\ handler[registry] = "relaying"
  /\ \E l \in Listener : pc[l] = "listen" /\ conn[l] = registry

\* "Held for as long as the process runs.  Reconnects on its own after any
\* drop": once connections stop breaking, a desktop with a valid token is
\* reached and stays reached, although every handler that ends takes down
\* whichever registration it finds (spawn_push_listener, handle_listen).
EventuallyReached == <>[](Reached \/ ~valid)

\* A connection that was replaced, or whose registration was taken down, always
\* finds out and is closed, so that its listener dials again.
StaleCloses ==
  \A c \in Conn : (handler[c] = "relaying" /\ registry # c) ~> handler[c] = "none"

\* A full channel does not stay full: pushes are dropped for a while only.
PushesDrain == \A c \in Conn : queue[c] = Capacity ~> queue[c] < Capacity

\* What a connection waits for ends.
ConnectionsEnd == StaleCloses /\ PushesDrain

\* "A second registration for the same did replaces the first - the old
\* connection finds out it's stale on its own next failed write, not from
\* here": a handler that ends takes down its own registration only.
ReplacedNotRemoved ==
  [][\A c \in Conn : handler[c] = "ending" /\ handler'[c] = "closing"
       => registry \in {c, None}]_vars
=============================================================================
