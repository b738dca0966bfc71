---------------------------- MODULE NamesProofs ----------------------------
(***************************************************************************)
(* What holds of names for any accounts, texts, invites and visitors, and  *)
(* chains of any length.  The inductive invariant says that the registry   *)
(* is what the last transaction about each name left, which ties the       *)
(* owner a write is checked against to the transactions before it, and     *)
(* what an open visit holds to the transactions since it was asked for.    *)
(***************************************************************************)
EXTENDS Names, TLAPS

Registered == \A n \in DOMAIN names : ValidName(n)
Recorded ==
  /\ \A k \in DOMAIN txs : txs[k].name \in DOMAIN names
  /\ \A n \in DOMAIN names : \E k \in DOMAIN txs :
       /\ LastUntil(n, k, Len(txs))
       /\ txs[k].to = names[n].owner /\ txs[k].ticket = names[n].ticket
Wrote(n, invite, since) ==
  \E k \in DOMAIN txs : LastUntil(n, k, since) /\ txs[k].ticket = invite
Asked ==
  \A v \in Visitors : visits[v] # None =>
    /\ visits[v].since <= Len(txs)
    /\ visits[v].invite # None => Wrote(visits[v].name, visits[v].invite, visits[v].since)
Came == \A j \in joined : j.since <= Len(txs) /\ Wrote(j.name, j.invite, j.since)

IInv == TypeOK /\ Registered /\ Recorded /\ OnlyTheOwnerWrites /\ Asked /\ Came

-----------------------------------------------------------------------------
LEMMA InitInv == Init => IInv
  BY DEF Init, IInv, TypeOK, Registered, Recorded, OnlyTheOwnerWrites, Asked, Came, Records,
         Transactions, Visits

\* What was true of the transactions up to m stays true as the chain grows.
LEMMA LastStays ==
  ASSUME TypeOK, NEW tx \in Transactions, txs' = Append(txs, tx)
  PROVE  /\ txs' \in Seq(Transactions) /\ Len(txs') = Len(txs) + 1 /\ DOMAIN txs' = 1..(Len(txs) + 1)
         /\ DOMAIN txs = 1..Len(txs)
         /\ \A k \in DOMAIN txs : txs'[k] = txs[k]
         /\ txs'[Len(txs) + 1] = tx
         /\ \A n, k, m : m \in Nat /\ m <= Len(txs) /\ LastUntil(n, k, m) => LastUntil(n, k, m)'
  BY DEF TypeOK, LastUntil

\* A visit or a joining that an owner's word stands behind keeps it.
LEMMA WordStays ==
  ASSUME IInv, NEW tx \in Transactions, txs' = Append(txs, tx), UNCHANGED <<visits, joined>>
  PROVE  Asked' /\ Came'
<1>1. ASSUME NEW n, NEW i, NEW m \in Nat, m <= Len(txs), Wrote(n, i, m)
      PROVE  m <= Len(txs') /\ Wrote(n, i, m)'
  BY <1>1, LastStays DEF IInv, Wrote
<1>2. Asked'
  <2> SUFFICES ASSUME NEW v \in Visitors, visits[v] # None
               PROVE  /\ visits[v].since <= Len(txs')
                      /\ visits[v].invite # None
                           => Wrote(visits[v].name, visits[v].invite, visits[v].since)'
    BY DEF Asked, Wrote, LastUntil
  <2>1. visits[v].since \in Nat /\ visits[v].since <= Len(txs) /\ Len(txs) \in Nat
    BY DEF IInv, TypeOK, Asked, Visits
  <2>2. visits[v].since <= Len(txs')
    BY <2>1, LastStays DEF IInv
  <2>3. CASE visits[v].invite # None
    <3>1. Wrote(visits[v].name, visits[v].invite, visits[v].since)
      BY <2>3 DEF IInv, Asked
    <3> QED BY <1>1, <2>1, <2>2, <3>1
  <2> QED BY <2>2, <2>3
<1>3. Came'
  <2> SUFFICES ASSUME NEW j \in joined
               PROVE  j.since <= Len(txs') /\ Wrote(j.name, j.invite, j.since)'
    BY DEF Came, Wrote, LastUntil
  <2>1. j.since \in Nat /\ j.since <= Len(txs) /\ Wrote(j.name, j.invite, j.since)
    BY DEF IInv, TypeOK, Came
  <2> QED BY <1>1, <2>1
<1> QED BY <1>2, <1>3

-----------------------------------------------------------------------------
\* A transaction that the contract accepts keeps the registry what the chain says.
LEMMA WriteKeeps ==
  ASSUME IInv, NEW tx \in Transactions, ValidName(tx.name),
         Accepted(tx, Record(tx.to, tx.ticket)),
         \/ tx.op = "register" /\ tx.name \notin DOMAIN names
         \/ tx.op # "register" /\ tx.name \in DOMAIN names /\ names[tx.name].owner = tx.by
  PROVE  IInv'
<1>0. PICK N \in Nat : N = Len(txs) + 1
  BY DEF IInv, TypeOK
<1>1. /\ txs' = Append(txs, tx) /\ UNCHANGED <<redeemed, visits, joined>>
      /\ DOMAIN names' = DOMAIN names \cup {tx.name}
      /\ names'[tx.name] = Record(tx.to, tx.ticket)
      /\ \A n \in DOMAIN names : n # tx.name => names'[n] = names[n]
  BY DEF Accepted, Written
<1>2. /\ txs' \in Seq(Transactions) /\ Len(txs') = N /\ DOMAIN txs' = 1..N
      /\ DOMAIN txs = 1..Len(txs) /\ Len(txs) \in Nat
      /\ \A k \in DOMAIN txs : txs'[k] = txs[k]
      /\ txs'[N] = tx
  BY <1>0, <1>1, LastStays DEF IInv, TypeOK
<1>8. \A n, k, m : m \in Nat /\ m <= Len(txs) /\ LastUntil(n, k, m) => LastUntil(n, k, m)'
  BY <1>1, LastStays DEF IInv
<1>3. TypeOK'
  <2>1. tx.name \in Texts /\ Record(tx.to, tx.ticket) \in Records
    BY DEF Transactions, Records, Record
  <2> QED BY <1>1, <1>2, <2>1 DEF IInv, TypeOK
<1>4. Registered'
  BY <1>1 DEF IInv, Registered, ValidName
<1>5. Recorded'
  <2>1. \A k \in DOMAIN txs' : txs'[k].name \in DOMAIN names'
    BY <1>1, <1>2 DEF IInv, Recorded
  <2>2. ASSUME NEW n \in DOMAIN names'
        PROVE  \E k \in DOMAIN txs' : /\ LastUntil(n, k, Len(txs))'
                                      /\ txs'[k].to = names'[n].owner
                                      /\ txs'[k].ticket = names'[n].ticket
    <3>1. CASE n = tx.name
      <4>1. LastUntil(n, N, Len(txs))'
        BY <1>0, <1>2, <3>1 DEF LastUntil
      <4> QED BY <1>1, <1>2, <3>1, <4>1 DEF Record
    <3>2. CASE n # tx.name
      <4>1. PICK k \in DOMAIN txs : /\ LastUntil(n, k, Len(txs))
                                    /\ txs[k].to = names[n].owner
                                    /\ txs[k].ticket = names[n].ticket
        BY <1>1, <3>2 DEF IInv, Recorded
      <4>2. LastUntil(n, k, Len(txs))'
        BY <1>0, <1>1, <1>2, <3>2, <4>1 DEF LastUntil
      <4> QED BY <1>1, <1>2, <3>2, <4>1, <4>2
    <3> QED BY <3>1, <3>2
  <2> QED BY <2>1, <2>2 DEF Recorded
<1>6. OnlyTheOwnerWrites'
  <2> SUFFICES ASSUME NEW k \in DOMAIN txs'
               PROVE  IF txs'[k].op = "register"
                      THEN \A j \in DOMAIN txs' : j < k => txs'[j].name # txs'[k].name
                      ELSE \E j \in DOMAIN txs' :
                             j < k /\ LastUntil(txs[k].name, j, k - 1)' /\ txs'[j].to = txs'[k].by
    BY DEF OnlyTheOwnerWrites
  <2>1. CASE k # N
    <3>1. k \in DOMAIN txs /\ txs'[k] = txs[k] /\ k - 1 \in Nat /\ k - 1 <= Len(txs)
      BY <1>0, <1>2, <2>1
    <3>2. CASE txs[k].op = "register"
      BY <1>2, <3>1, <3>2 DEF IInv, OnlyTheOwnerWrites
    <3>3. CASE txs[k].op # "register"
      <4>1. PICK j \in DOMAIN txs : /\ j < k /\ LastUntil(txs[k].name, j, k - 1)
                                    /\ txs[j].to = txs[k].by
        BY <3>1, <3>3 DEF IInv, OnlyTheOwnerWrites
      <4>2. LastUntil(txs[k].name, j, k - 1)'
        BY <1>8, <3>1, <4>1
      <4> QED BY <1>2, <3>1, <3>3, <4>1, <4>2
    <3> QED BY <3>2, <3>3
  <2>2. CASE k = N
    <3>1. CASE tx.op = "register"
      <4>1. ASSUME NEW j \in DOMAIN txs', j < k PROVE txs'[j].name # tx.name
        BY <1>0, <1>2, <2>2, <3>1, <4>1 DEF IInv, Recorded
      <4> QED BY <1>2, <2>2, <3>1, <4>1
    <3>2. CASE tx.op # "register"
      <4>1. PICK j \in DOMAIN txs : /\ LastUntil(tx.name, j, Len(txs))
                                    /\ txs[j].to = names[tx.name].owner
        BY <3>2 DEF IInv, Recorded
      <4>2. LastUntil(txs[k].name, j, k - 1)'
        BY <1>0, <1>2, <2>2, <4>1 DEF LastUntil
      <4> QED BY <1>0, <1>2, <2>2, <3>2, <4>1, <4>2
    <3> QED BY <3>1, <3>2
  <2> QED BY <2>1, <2>2
<1>7. Asked' /\ Came'
  BY <1>1, WordStays
<1> QED BY <1>3, <1>4, <1>5, <1>6, <1>7 DEF IInv

-----------------------------------------------------------------------------
LEMMA NextInv == IInv /\ [Next]_vars => IInv'
<1> SUFFICES ASSUME IInv, [Next]_vars PROVE IInv'
  OBVIOUS
<1> USE NamesAssumption
<1>1. ASSUME NEW a \in Accounts, NEW n \in Texts, NEW t \in Ticket, Register(a, n, t)
      PROVE  IInv'
  <2> DEFINE tx == Tx("register", a, n, a, t)
  <2>1. /\ tx \in Transactions /\ tx.op = "register" /\ tx.name = n /\ tx.to = a
        /\ tx.ticket = t
    BY <1>1 DEF Register, Fits, Tx, Transactions
  <2>2. n \notin DOMAIN names /\ ValidName(n) /\ Accepted(tx, Record(a, t))
    BY <1>1 DEF Register, Untaken
  <2> HIDE DEF tx
  <2> QED BY <2>1, <2>2, WriteKeeps
<1>2. ASSUME NEW a \in Accounts, NEW n \in Texts, NEW t \in Ticket, Update(a, n, t)
      PROVE  IInv'
  <2> DEFINE tx == Tx("update", a, n, a, t)
  <2>1. /\ tx \in Transactions /\ tx.op # "register" /\ tx.name = n /\ tx.to = a
        /\ tx.ticket = t /\ tx.by = a
    BY <1>2 DEF Update, Fits, Tx, Transactions
  <2>2. n \in DOMAIN names /\ names[n].owner = a /\ Accepted(tx, Record(a, t))
    BY <1>2 DEF Update, Owned
  <2>3. ValidName(n)
    BY <2>2 DEF IInv, Registered
  <2> HIDE DEF tx
  <2> QED BY <2>1, <2>2, <2>3, WriteKeeps
<1>3. ASSUME NEW a \in Accounts, NEW n \in Texts, NEW b \in Accounts, Transfer(a, n, b)
      PROVE  IInv'
  <2> DEFINE tx == Tx("transfer", a, n, b, names[n].ticket)
  <2>1. n \in DOMAIN names /\ names[n].owner = a /\ Accepted(tx, Record(b, names[n].ticket))
    BY <1>3 DEF Transfer, Owned
  <2>2. names[n].ticket \in Ticket \ {TooLong}
    BY <2>1 DEF IInv, TypeOK, Records
  <2>3. /\ tx \in Transactions /\ tx.op # "register" /\ tx.name = n /\ tx.to = b
        /\ tx.ticket = names[n].ticket /\ tx.by = a
    BY <2>2 DEF Tx, Transactions
  <2>4. ValidName(n)
    BY <2>1 DEF IInv, Registered
  <2> HIDE DEF tx
  <2> QED BY <2>1, <2>3, <2>4, WriteKeeps
<1>4. ASSUME NEW v \in Visitors, NEW t \in Texts, Type(v, t) PROVE IInv'
  <2>1. /\ visits' = [visits EXCEPT ![v] = [name |-> t, since |-> Len(txs), invite |-> None]]
        /\ UNCHANGED <<names, txs, redeemed, joined>>
    BY <1>4 DEF Type
  <2>2. TypeOK'
    BY <2>1 DEF IInv, TypeOK, Visits
  <2>3. Asked'
    BY <2>1 DEF IInv, TypeOK, Asked, Wrote, LastUntil
  <2> QED
    BY <2>1, <2>2, <2>3
    DEF IInv, Registered, Recorded, OnlyTheOwnerWrites, Came, Wrote, LastUntil
<1>5. ASSUME NEW v \in Visitors, Resolve(v) PROVE IInv'
  <2> DEFINE n == visits[v].name
  <2>1. UNCHANGED <<names, txs, redeemed, joined>> /\ visits[v] # None
    BY <1>5 DEF Resolve
  <2>2. visits[v] \in Visits /\ visits[v].since <= Len(txs)
    BY <2>1 DEF IInv, TypeOK, Asked
  <2>3. \/ visits' = [visits EXCEPT ![v] = None]
        \/ /\ n \in DOMAIN names /\ names[n].ticket \in Invites
           /\ visits' = [visits EXCEPT ![v] = [@ EXCEPT !.invite = names[n].ticket]]
    BY <1>5 DEF Resolve, Looked
  <2>4. TypeOK'
    BY <2>1, <2>2, <2>3 DEF IInv, TypeOK, Visits
  <2>5. n \in DOMAIN names => Wrote(n, names[n].ticket, visits[v].since)
    <3> SUFFICES ASSUME n \in DOMAIN names
                 PROVE  Wrote(n, names[n].ticket, visits[v].since)
      OBVIOUS
    <3>1. PICK k \in DOMAIN txs : LastUntil(n, k, Len(txs)) /\ txs[k].ticket = names[n].ticket
      BY DEF IInv, Recorded
    <3>2. DOMAIN txs = 1..Len(txs) /\ Len(txs) \in Nat /\ visits[v].since \in Nat
      BY <2>2 DEF IInv, TypeOK, Visits
    <3>3. LastUntil(n, k, visits[v].since)
      BY <2>2, <3>1, <3>2 DEF LastUntil
    <3> QED BY <3>1, <3>3 DEF Wrote
  <2>6. Asked'
    <3> SUFFICES ASSUME NEW w \in Visitors, visits'[w] # None
                 PROVE  /\ visits'[w].since <= Len(txs)
                        /\ visits'[w].invite # None
                             => Wrote(visits'[w].name, visits'[w].invite, visits'[w].since)
      BY <2>1 DEF Asked, Wrote, LastUntil
    <3>1. CASE w # v
      BY <2>3, <3>1 DEF IInv, TypeOK, Asked
    <3>2. CASE w = v
      <4>1. /\ n \in DOMAIN names /\ visits'[w] = [visits[v] EXCEPT !.invite = names[n].ticket]
        BY <2>3, <3>2 DEF IInv, TypeOK
      <4>2. /\ visits'[w].since = visits[v].since /\ visits'[w].name = n
            /\ visits'[w].invite = names[n].ticket
        BY <2>2, <4>1 DEF Visits
      <4> QED BY <2>2, <2>5, <4>1, <4>2
    <3> QED BY <3>1, <3>2
  <2> QED
    BY <2>1, <2>4, <2>6 DEF IInv, Registered, Recorded, OnlyTheOwnerWrites, Came, Wrote, LastUntil
<1>6. ASSUME NEW v \in Visitors, ClaimInvite(v) PROVE IInv'
  <2> DEFINE j == [who |-> v, name |-> visits[v].name, since |-> visits[v].since,
                   invite |-> visits[v].invite]
  <2>1. /\ visits[v] # None /\ visits[v].invite # None /\ UNCHANGED <<names, txs>>
        /\ joined' \subseteq joined \cup {j} /\ redeemed' \subseteq redeemed \cup {visits[v].invite}
        /\ visits' = [visits EXCEPT ![v] = None]
    BY <1>6 DEF ClaimInvite
  <2>2. visits[v] \in Visits /\ visits[v].since <= Len(txs)
        /\ Wrote(visits[v].name, visits[v].invite, visits[v].since)
    BY <2>1 DEF IInv, TypeOK, Asked
  <2>3. visits[v].invite \in Invites /\ j.since = visits[v].since /\ j.name = visits[v].name
        /\ j.invite = visits[v].invite
        /\ j \in [who : Visitors, name : Texts, since : Nat, invite : Invites]
    BY <2>1, <2>2 DEF Visits
  <2> HIDE DEF j
  <2>4. TypeOK'
    BY <2>1, <2>3 DEF IInv, TypeOK
  <2>5. Came'
    BY <2>1, <2>2, <2>3 DEF IInv, Came, Wrote, LastUntil
  <2>6. Asked'
    BY <2>1 DEF IInv, TypeOK, Asked, Wrote, LastUntil
  <2> QED
    BY <2>1, <2>4, <2>5, <2>6 DEF IInv, Registered, Recorded, OnlyTheOwnerWrites, LastUntil
<1>7. ASSUME NEW v \in Visitors, Fail(v) PROVE IInv'
  <2>1. UNCHANGED <<names, txs, redeemed, joined>> /\ visits' = [visits EXCEPT ![v] = None]
    BY <1>7 DEF Fail
  <2> QED
    BY <2>1
    DEF IInv, TypeOK, Registered, Recorded, OnlyTheOwnerWrites, Asked, Came, Wrote, LastUntil
<1>8. CASE UNCHANGED vars
  BY <1>8 DEF vars, IInv, TypeOK, Registered, Recorded, OnlyTheOwnerWrites, Asked, Came, Wrote,
              LastUntil
<1> QED BY <1>1, <1>2, <1>3, <1>4, <1>5, <1>6, <1>7, <1>8 DEF Next

LEMMA Invariant == Spec => []IInv
  BY InitInv, NextInv, PTL DEF Spec

-----------------------------------------------------------------------------
\* Registry, chain and visits keep their shape, and no stored ticket is too long.
THEOREM TypeCorrect == Spec => []TypeOK
<1>1. IInv => TypeOK
  BY DEF IInv
<1> QED BY <1>1, Invariant, PTL

\* Every accepted write after a name's registration is signed by its owner of
\* that moment, however long the chain and however often it was transferred.
THEOREM OwnersAlone == Spec => []OnlyTheOwnerWrites
<1>1. IInv => OnlyTheOwnerWrites
  BY DEF IInv
<1> QED BY <1>1, Invariant, PTL

\* The contract's rule lies within the bar's: what is registered is typed as a name.
LEMMA ValidIsTyped == ASSUME NEW n \in Seq(Char), ValidName(n) PROVE Bar(n) = "name"
<1>1. ~IsTicketText(n)
  BY DEF ValidName, IsTicketText
<1>2. Len(n) \in Nat /\ Len(n) # 0 /\ Len(n) <= MAX_NAME /\ n # <<>>
  BY NamesAssumption DEF ValidName
<1>3. IsName(n)
  BY <1>2 DEF ValidName, IsName
<1> QED BY <1>1, <1>3 DEF Bar

\* No registered name is out of the bar's reach, whatever texts were offered.
THEOREM NamesAreReachable == Spec => []RegisteredIsReachable
<1>1. IInv => RegisteredIsReachable
  BY ValidIsTyped, NamesAssumption DEF IInv, TypeOK, Registered, RegisteredIsReachable
<1> QED BY <1>1, Invariant, PTL

\* Whoever joined by a name did so on the word of its owner, and not on one
\* that had been replaced when the name was typed.
THEOREM OwnersWord == Spec => []JoinedByTheOwnersWord
<1>1. IInv => JoinedByTheOwnersWord
  BY DEF IInv, Came, Wrote, JoinedByTheOwnersWord
<1> QED BY <1>1, Invariant, PTL

\* The three together.
THEOREM RegistryCorrect == Spec => []RegistryIsSound
  BY NamesAreReachable, OwnersAlone, OwnersWord, PTL DEF RegistryIsSound
=============================================================================
