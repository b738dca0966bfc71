---------------------------- MODULE ListenProofs ----------------------------
(***************************************************************************)
(* What holds of the connections pushes travel on, for any number of them, *)
(* any number of listeners, any capacity and any number of faults.         *)
(***************************************************************************)
EXTENDS Listen, TLAPS

\* A connection has one listener at its end, whatever the pool of connections
\* is used for meanwhile: no push is read by a thread that dialled another.
OneHolder == \A l, k \in Listener : conn[l] # None /\ conn[l] = conn[k] => l = k

\* Nothing waits in a channel that no thread reads: a handler that ends drops
\* its receiver, or has read it out (handle_listen).
NoStrandedPush == \A c \in Conn : queue[c] > 0 => handler[c] = "relaying"

IInv == TypeOK /\ NoOrphanedSender /\ OneHolder /\ NoStrandedPush

-----------------------------------------------------------------------------
LEMMA InitInv == Init => IInv
  BY ListenAssumption DEF Init, IInv, TypeOK, HandlerState, NoOrphanedSender, OneHolder, NoStrandedPush

\* A step of a listener keeps the types: it has a connection when it uses one.
LEMMA ListenerTypes ==
  ASSUME TypeOK, NEW l \in Listener, Spawn(l) \/ ListenerStep(l) \/ Drop(l)
  PROVE  TypeOK'
<1> USE ListenAssumption DEF TypeOK, HandlerState
<1>1. CASE Spawn(l)
  BY <1>1 DEF Spawn
<1>2. CASE Dial(l)
  <2>1. PICK c \in Conn : /\ Free(c)
                          /\ conn' = [conn EXCEPT ![l] = c]
                          /\ handler' = [handler EXCEPT ![c] = "backlog"]
                          /\ wire' = [wire EXCEPT ![c] = 0]
    BY <1>2 DEF Dial
  <2> QED BY <1>2, <2>1 DEF Dial
<1>3. CASE Listening(l)
  BY <1>3 DEF Listening
<1>4. CASE NextPush(l)
  <2>1. conn[l] \in Conn
    BY <1>4 DEF NextPush
  <2> QED BY <1>4, <2>1 DEF NextPush
<1>5. CASE ConnectionLost(l)
  BY <1>5 DEF ConnectionLost
<1>6. CASE Retry(l)
  BY <1>6 DEF Retry
<1>7. CASE Drop(l)
  BY <1>7 DEF Drop
<1> QED BY <1>1, <1>2, <1>3, <1>4, <1>5, <1>6, <1>7 DEF ListenerStep

\* A step of a listener takes no handler from under a sender or a push, and a
\* connection that is dialled is free.
LEMMA ListenerKeeps ==
  ASSUME IInv, NEW l \in Listener, Spawn(l) \/ ListenerStep(l) \/ Drop(l)
  PROVE  IInv'
<1>1. TypeOK'
  BY ListenerTypes DEF IInv
<1>2. CASE Dial(l)
  <2>1. PICK c \in Conn : /\ Free(c)
                          /\ conn' = [conn EXCEPT ![l] = c]
                          /\ handler' = [handler EXCEPT ![c] = "backlog"]
    BY <1>2 DEF Dial
  <2>2. registry' = registry /\ queue' = queue /\ registry # c /\ handler[c] = "none"
    BY <1>2, <2>1, ListenAssumption DEF Dial, Free, IInv, NoOrphanedSender
  <2>3. NoOrphanedSender' /\ NoStrandedPush'
    BY <2>1, <2>2 DEF IInv, TypeOK, NoOrphanedSender, NoStrandedPush
  <2>4. OneHolder'
    BY <2>1, ListenAssumption DEF IInv, TypeOK, OneHolder, Free, Held
  <2> QED BY <1>1, <2>3, <2>4 DEF IInv
<1>3. CASE ~Dial(l)
  <2>1. /\ UNCHANGED <<handler, queue, registry>>
        /\ conn' = conn \/ conn' = [conn EXCEPT ![l] = None]
    BY <1>3 DEF Spawn, ListenerStep, Listening, NextPush, ConnectionLost, Retry, Drop
  <2>2. NoOrphanedSender' /\ NoStrandedPush'
    BY <2>1 DEF IInv, NoOrphanedSender, NoStrandedPush
  <2>3. OneHolder'
    BY <2>1 DEF IInv, TypeOK, OneHolder
  <2> QED BY <1>1, <2>2, <2>3 DEF IInv
<1> QED BY <1>2, <1>3

\* A step of a handler: who ends unregisters first, by DID, whoever is there.
LEMMA HandlerKeeps ==
  ASSUME IInv, NEW c \in Conn, HandlerStep(c)
  PROVE  IInv'
<1> USE ListenAssumption
        DEF IInv, TypeOK, HandlerState, NoOrphanedSender, OneHolder, NoStrandedPush
<1>1. CASE Accept(c)
  BY <1>1 DEF Accept
<1>2. CASE Authorize(c)
  BY <1>2 DEF Authorize
<1>3. CASE Register(c)
  BY <1>3 DEF Register
<1>4. CASE Relay(c)
  BY <1>4 DEF Relay
<1>5. CASE SenderGone(c)
  BY <1>5 DEF SenderGone
<1>6. CASE Unregister(c)
  BY <1>6 DEF Unregister
<1>7. CASE Return(c)
  BY <1>7 DEF Return
<1> QED BY <1>1, <1>2, <1>3, <1>4, <1>5, <1>6, <1>7 DEF HandlerStep

LEMMA NodeKeeps ==
  ASSUME IInv, Push \/ Lapse \/ NodeRestart
  PROVE  IInv'
<1> USE ListenAssumption
        DEF IInv, TypeOK, HandlerState, NoOrphanedSender, OneHolder, NoStrandedPush
<1>1. CASE Push
  BY <1>1 DEF Push
<1>2. CASE Lapse
  BY <1>2 DEF Lapse
<1>3. CASE NodeRestart
  BY <1>3 DEF NodeRestart
<1> QED BY <1>1, <1>2, <1>3

LEMMA Invariant == Spec => []IInv
<1>1. IInv /\ [Next]_vars => IInv'
  <2> SUFFICES ASSUME IInv, [Next]_vars PROVE IInv'
    OBVIOUS
  <2>1. CASE UNCHANGED vars
    BY <2>1 DEF vars, IInv, TypeOK, NoOrphanedSender, OneHolder, NoStrandedPush
  <2>2. ASSUME NEW l \in Listener, Spawn(l) \/ ListenerStep(l) \/ Drop(l) PROVE IInv'
    BY <2>2, ListenerKeeps
  <2>3. ASSUME NEW c \in Conn, HandlerStep(c) PROVE IInv'
    BY <2>3, HandlerKeeps
  <2>4. CASE Push \/ Lapse \/ NodeRestart
    BY <2>4, NodeKeeps
  <2> QED BY <2>1, <2>2, <2>3, <2>4 DEF Next
<1> QED BY InitInv, <1>1, PTL DEF Spec

\* Every variable has its type, channels and the socket's buffer keep within their
\* capacity, and a thread has a connection exactly when it uses one.
THEOREM TypeCorrect == Spec => []TypeOK
<1>1. IInv => TypeOK
  BY DEF IInv
<1> QED BY <1>1, Invariant, PTL

\* The registry names no channel whose handler has let go of it, though handlers
\* take down whichever registration they find (LiveRegistry::unregister).
THEOREM SendersHaveHandlers == Spec => []NoOrphanedSender
<1>1. IInv => NoOrphanedSender
  BY DEF IInv
<1> QED BY <1>1, Invariant, PTL

\* A connection has one listener at its end.
THEOREM HoldersApart == Spec => []OneHolder
<1>1. IInv => OneHolder
  BY DEF IInv
<1> QED BY <1>1, Invariant, PTL

\* A push that waits has a thread to relay it, so that none is left over for the
\* next connection to get (handle_listen, LiveRegistry::register).
THEOREM PushesHaveReaders == Spec => []NoStrandedPush
<1>1. IInv => NoStrandedPush
  BY DEF IInv
<1> QED BY <1>1, Invariant, PTL
=============================================================================
