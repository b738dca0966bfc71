------------------------------- MODULE Names -------------------------------
(***************************************************************************)
(* Names that point to a node's public invite: the registry, a contract    *)
(* whose accepted transactions are what its chain holds, the node that     *)
(* redeems an invite, and the bar of a desktop, where one text is a        *)
(* ticket, an invite or a name to look up.  Looking up, joining and        *)
(* writing are steps of different machines: a visitor may hold a ticket    *)
(* that its owner has replaced meanwhile.  A node has no operation that    *)
(* revokes a public invite.                                                *)
(***************************************************************************)
EXTENDS Naturals, Sequences

CONSTANTS Accounts,    \* addresses that sign transactions
          Texts,       \* what may be typed, or registered: sequences of Char
          MAX_NAME,
          Invites,     \* the invites the node has issued
          Public,      \* those of them that are public
          Visitors,
          MaxTxs,      \* bound: accepted transactions
          None

Char == {"letter", "digit", "dash", "dot", "capital"}

\* What a record may hold: an invite, or a text that is none; too long a text
\* is refused
Garbage == "garbage"
TooLong == "too long"

ASSUME NamesAssumption ==
  /\ Texts \subseteq Seq(Char) /\ Public \subseteq Invites /\ MAX_NAME \in Nat /\ MaxTxs \in Nat
  /\ None \notin Invites \cup Visitors /\ Garbage \notin Invites /\ TooLong \notin Invites

Ticket == Invites \cup {Garbage, TooLong}

VARIABLES names,     \* the registry: a name's owner and ticket
          txs,       \* the transactions the chain accepted, oldest first
          redeemed,  \* the invites the node has spent
          visits,    \* what each visitor is doing, or None
          joined     \* history: who joined by what, since when it had been asked
vars == <<names, txs, redeemed, visits, joined>>

-----------------------------------------------------------------------------
(* Texts *)

\* A ticket's text begins with osv1. or osvi1.: of these classes, a letter and a dot
IsTicketText(t) == Len(t) >= 2 /\ t[1] = "letter" /\ t[2] = "dot"

ValidName(t) ==
  /\ Len(t) # 0 /\ ~(Len(t) > MAX_NAME)
  /\ ~(t[1] = "dash" \/ t[Len(t)] = "dash")
  /\ \A i \in DOMAIN t : t[i] \in {"letter", "digit", "dash"}

\* The desktop's own rule
IsName(t) ==
  /\ t # <<>> /\ Len(t) <= MAX_NAME /\ t[1] # "dash" /\ t[Len(t)] # "dash"
  /\ \A i \in DOMAIN t : t[i] \in {"letter", "digit", "dash"}

\* What the bar takes a text for: tickets first
Bar(t) == IF IsTicketText(t) THEN "ticket" ELSE IF IsName(t) THEN "name" ELSE "neither"
-----------------------------------------------------------------------------
(* The contract *)

Init == /\ names = [n \in {} |-> <<>>] /\ txs = <<>> /\ redeemed = {}
        /\ visits = [v \in Visitors |-> None] /\ joined = {}

Tx(op, by, name, to, ticket) ==
  [op |-> op, by |-> by, name |-> name, to |-> to, ticket |-> ticket]
Record(owner, ticket) == [owner |-> owner, ticket |-> ticket]
Written(n, record) == [m \in DOMAIN names \cup {n} |-> IF m = n THEN record ELSE names[m]]

Fits(t) == t # TooLong

Accepted(tx, record) ==
  /\ Len(txs) < MaxTxs /\ txs' = Append(txs, tx)
  /\ names' = Written(tx.name, record)
  /\ UNCHANGED <<redeemed, visits, joined>>

Untaken(n) == n \notin DOMAIN names
Register(a, n, t) ==
  /\ ValidName(n) /\ Fits(t) /\ Untaken(n)
  /\ Accepted(Tx("register", a, n, a, t), Record(a, t))

Owned(a, n) == n \in DOMAIN names /\ names[n].owner = a
Update(a, n, t) ==
  /\ Fits(t) /\ Owned(a, n)
  /\ Accepted(Tx("update", a, n, a, t), Record(a, t))
Transfer(a, n, b) ==
  /\ Owned(a, n)
  /\ Accepted(Tx("transfer", a, n, b, names[n].ticket), Record(b, names[n].ticket))
-----------------------------------------------------------------------------
(* The node and the bar *)

\* A name is sent to be looked up; what is no name is refused at once
Type(v, t) ==
  /\ visits[v] = None /\ Bar(t) = "name"
  /\ visits' = [visits EXCEPT ![v] = [name |-> t, since |-> Len(txs), invite |-> None]]
  /\ UNCHANGED <<names, txs, redeemed, joined>>

\* Mutant: what a name led to is remembered
FirstWritten(n) == txs[CHOOSE k \in DOMAIN txs : txs[k].name = n
                                 /\ \A j \in 1..(k - 1) : txs[j].name # n].ticket
Looked(n) == names[n].ticket

\* names::resolve, and the ticket is opened: not found and no invite are refused
Resolve(v) ==
  /\ visits[v] # None /\ visits[v].invite = None
  /\ visits' = [visits EXCEPT ![v] =
       IF visits[v].name \in DOMAIN names /\ Looked(visits[v].name) \in Invites
       THEN [@ EXCEPT !.invite = Looked(visits[v].name)] ELSE None]
  /\ UNCHANGED <<names, txs, redeemed, joined>>

\* node_accept_invite: once, unless it is public
ClaimInvite(v) ==
  /\ visits[v] # None /\ visits[v].invite # None
  /\ IF visits[v].invite \in redeemed THEN UNCHANGED <<joined, redeemed>>
     ELSE /\ joined' = joined \cup {[who |-> v, name |-> visits[v].name, since |-> visits[v].since,
                                 invite |-> visits[v].invite]}
          /\ redeemed' = redeemed \cup ({visits[v].invite} \ Public)
  /\ visits' = [visits EXCEPT ![v] = None]
  /\ UNCHANGED <<names, txs>>

\* The lookup or the call times out
Fail(v) == /\ visits[v] # None /\ visits' = [visits EXCEPT ![v] = None]
           /\ UNCHANGED <<names, txs, redeemed, joined>>

Next ==
  \/ \E a \in Accounts, n \in Texts :
       \/ \E t \in Ticket : Register(a, n, t) \/ Update(a, n, t)
       \/ \E b \in Accounts : Transfer(a, n, b)
  \/ \E v \in Visitors : Resolve(v) \/ ClaimInvite(v) \/ Fail(v) \/ \E t \in Texts : Type(v, t)
Spec == Init /\ [][Next]_vars
-----------------------------------------------------------------------------
(* Properties *)

Records == [owner : Accounts, ticket : Ticket \ {TooLong}]
Transactions == [op : {"register", "update", "transfer"}, by : Accounts, name : Texts,
                 to : Accounts, ticket : Ticket \ {TooLong}]
Visits == [name : Texts, since : Nat, invite : Invites \cup {None}]

\* The shape of the registry, the chain and the visits; what the contract
\* stores is never too long.
TypeOK ==
  /\ DOMAIN names \subseteq Texts /\ \A n \in DOMAIN names : names[n] \in Records
  /\ txs \in Seq(Transactions) /\ redeemed \subseteq Invites
  /\ visits \in [Visitors -> Visits \cup {None}]
  /\ joined \subseteq [who : Visitors, name : Texts, since : Nat, invite : Invites]

\* The k-th transaction is the last about n before and at the m-th
LastUntil(n, k, m) ==
  /\ k \in DOMAIN txs /\ txs[k].name = n
  /\ \A j \in DOMAIN txs : k < j /\ j <= m => txs[j].name # n

\* "Only the name's owner can change what it points to" (xnet-names.md): every
\* accepted write is the first about its name, a registration, or is signed by
\* whom the write before it left the name to.
OnlyTheOwnerWrites ==
  \A k \in DOMAIN txs :
    IF txs[k].op = "register" THEN \A j \in DOMAIN txs : j < k => txs[j].name # txs[k].name
    ELSE \E j \in DOMAIN txs : j < k /\ LastUntil(txs[k].name, j, k - 1) /\ txs[j].to = txs[k].by

\* What can be registered can be typed: the bar takes no registered name for a
\* ticket, nor for something that is neither (names.rs: "the contract's own rule").
RegisteredIsReachable == \A n \in DOMAIN names : Bar(n) = "name"

\* Whoever joined by a name joined by an invite that the name's owner had
\* written to it, and that no later write had replaced when it was asked for.
JoinedByTheOwnersWord ==
  \A j \in joined : \E k \in DOMAIN txs : /\ LastUntil(j.name, k, j.since)
                                          /\ txs[k].ticket = j.invite

\* The registry is its owners' alone, from the typed text to the joining.
RegistryIsSound == RegisteredIsReachable /\ OnlyTheOwnerWrites /\ JoinedByTheOwnersWord

\* A public invite "is rotated by revoking the nonce and writing a fresh ticket
\* to the name" (xnet-names.md): what no name points to any more admits nobody.
RotatedAdmitsNobody ==
  [][\A j \in joined' \ joined : \E n \in DOMAIN names : names[n].ticket = j.invite]_vars
=============================================================================
