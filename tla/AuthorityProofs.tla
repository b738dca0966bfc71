--------------------------- MODULE AuthorityProofs ---------------------------
(***************************************************************************)
(* The theorems of Authority, for every set of desktops, scopes, role      *)
(* names and every bound, and of Narrowing, for every set of scopes and of *)
(* things there are to reach, and chains of every length.                  *)
(***************************************************************************)
EXTENDS Authority, SequenceTheorems, TLAPS

CONSTANTS Address, Workspace, App, MaxLinks
VARIABLE held
Narrow == INSTANCE Narrowing

-----------------------------------------------------------------------------
(* Scopes and capabilities *)

\* Scope::contains is transitive, so a link checked against its parent only is
\* checked against the whole chain above it.
LEMMA ContainsTransitive ==
  ASSUME NEW a, NEW b, NEW c, Contains(a, b), Contains(b, c)
  PROVE  Contains(a, c)
<1>1. CASE a.level = "node"
  BY <1>1 DEF Contains
<1>2. CASE a.level = "workspace"
  BY <1>2 DEF Contains, Parses, ResourceContains, Covers, Below
<1>3. CASE a.level = "app"
  BY <1>3 DEF Contains
<1>4. CASE a.level = "resource"
  BY <1>4 DEF Contains, Parses, ResourceContains, Covers, Below
<1>5. QED BY <1>1, <1>2, <1>3, <1>4 DEF Contains

\* A role that carries no capability at a scope, nor could gain one there,
\* carries none at anything narrower: the probe of role_could_gain_capability
\* looks far enough down.
LEMMA NarrowingNeverGains ==
  ASSUME NEW role, NEW s, NEW t, Contains(s, t), ~RoleCouldGainCapability(role, s)
  PROVE  ~RoleCouldGainCapability(role, t)
<1> USE DEF RoleCouldGainCapability, PlatformCapabilities, InWorkspace, Capability, WsScope
<1>1. CASE s.level = "node"
  <2>1. role \notin {"owner", "admin", "maintainer"}
    BY <1>1
  <2>2. QED BY <2>1
<1>2. CASE s.level = "workspace"
  BY <1>2 DEF Contains
<1>3. CASE s.level \in {"app", "resource"}
  BY <1>3 DEF Contains
<1>4. QED BY <1>1, <1>2, <1>3 DEF Contains


-----------------------------------------------------------------------------
(* Types *)

LEMMA LinkAt ==
  ASSUME NEW t \in Seq(Link), NEW i \in DOMAIN t
  PROVE  /\ t[i] \in Link
         /\ t[i].id \in Nat
         /\ t[i].exp \in Nat
         /\ t[i].scope \in ScopeSet
<1>1. t[i] \in Link
  OBVIOUS
<1>2. QED BY <1>1, AuthorityAssumption DEF Link

LEMMA OneLink ==
  ASSUME NEW t \in Seq(Link), Len(t) = 1, NEW n \in Nat, t[1].id = n
  PROVE  \A i \in DOMAIN t : t[i].id <= n
<1>1. DOMAIN t = 1..1
  BY LenProperties
<1>2. \A i \in DOMAIN t : i = 1
  BY <1>1
<1>3. QED BY <1>2

LEMMA Singleton ==
  ASSUME NEW S, NEW x \in S
  PROVE  <<x>> \in Seq(S) /\ <<x>> # << >> /\ Len(<<x>>) = 1 /\ <<x>>[1] = x
OBVIOUS

LEMMA Cons ==
  ASSUME NEW S, NEW x \in S, NEW s \in Seq(S)
  PROVE  /\ <<x>> \o s \in Seq(S)
         /\ Len(<<x>> \o s) = Len(s) + 1
         /\ (<<x>> \o s)[1] = x
         /\ \A i \in DOMAIN s : (<<x>> \o s)[i + 1] = s[i]
<1> DEFINE u == <<x>>
<1>1. u \in Seq(S) /\ Len(u) = 1 /\ u[1] = x
  BY Singleton
<1> HIDE DEF u
<1>2. /\ u \o s \in Seq(S) /\ Len(u \o s) = Len(u) + Len(s)
      /\ \A i \in 1..(Len(u) + Len(s)) :
           (u \o s)[i] = IF i <= Len(u) THEN u[i] ELSE s[i - Len(u)]
  BY <1>1, ConcatProperties
<1>3. DOMAIN s = 1..Len(s) /\ Len(s) \in Nat
  OBVIOUS
<1>4. /\ u \o s \in Seq(S) /\ Len(u \o s) = Len(s) + 1
      /\ (u \o s)[1] = x
      /\ \A i \in DOMAIN s : (u \o s)[i + 1] = s[i]
  BY <1>1, <1>2, <1>3
<1>5. QED BY <1>4 DEF u

LEMMA RootType ==
  ASSUME TypeOK, nextId <= MaxTokens, NEW aud \in Desktop, NEW role \in RoleName \cup {"owner"},
         NEW scope \in ScopeSet,
         NEW g \in BOOLEAN,
         NEW t, t = IssueRoot(Node, aud, role, scope, g, now + Ttl, nextId)
  PROVE  /\ t \in Seq(Link) \ {<<>>}
         /\ Len(t) = 1
         /\ t[1] = [id |-> nextId, iss |-> Node, aud |-> aud, sub |-> Node, role |-> role,
                    scope |-> scope, delegable |-> g, exp |-> now + Ttl, sig |-> Node]
         /\ \A i \in DOMAIN t : t[i].id <= nextId
<1> DEFINE l == [id |-> nextId, iss |-> Node, aud |-> aud, sub |-> Node, role |-> role,
                 scope |-> scope, delegable |-> g, exp |-> now + Ttl, sig |-> Node]
<1>1. l \in Link /\ l.id = nextId /\ nextId \in Nat
  <2>1. nextId \in 1..MaxTokens /\ now + Ttl \in Nat
    BY AuthorityAssumption DEF TypeOK
  <2>2. QED BY <2>1, AuthorityAssumption DEF Link
<1>2. t = <<l>>
  BY DEF IssueRoot
<1> HIDE DEF l
<1>3. t \in Seq(Link) /\ t # <<>> /\ Len(t) = 1 /\ t[1] = l
  BY <1>1, <1>2, Singleton
<1>4. \A i \in DOMAIN t : t[i].id <= nextId
  BY <1>1, <1>3, OneLink
<1>5. QED BY <1>3, <1>4 DEF l

LEMMA ClaimTokenType ==
  ASSUME TypeOK, nextId <= MaxTokens, NEW d \in Desktop
  PROVE  /\ ClaimToken(d) \in Seq(Link) \ {<<>>}
         /\ \A i \in DOMAIN ClaimToken(d) : ClaimToken(d)[i].id <= nextId
<1>1. NodeScope \in ScopeSet /\ "owner" \in RoleName \cup {"owner"}
  BY AuthorityAssumption
<1>2. ClaimToken(d) = IssueRoot(Node, d, "owner", NodeScope, TRUE, now + Ttl, nextId)
  BY DEF ClaimToken
<1>3. QED BY <1>1, <1>2, RootType

LEMMA DelegateType ==
  ASSUME TypeOK, nextId <= MaxTokens, NEW d \in Desktop, NEW parent \in tokens,
         NEW aud \in Desktop, NEW scope \in ScopeSet, NEW delegable \in BOOLEAN,
         NEW e \in Lifetime,
         NEW t, t = DelegateToken(parent, d, aud, scope, delegable, now + e, nextId)
  PROVE  /\ t \in Seq(Link) \ {<<>>}
         /\ Len(t) = Len(parent) + 1
         /\ Leaf(t) = [id |-> nextId, iss |-> d, aud |-> aud, sub |-> Leaf(parent).sub,
                       role |-> Leaf(parent).role, scope |-> scope, delegable |-> delegable,
                       exp |-> now + e, sig |-> d]
         /\ \A i \in DOMAIN parent : t[i + 1] = parent[i]
         /\ Root(t) = Root(parent)
<1> DEFINE l == [id |-> nextId, iss |-> d, aud |-> aud, sub |-> Leaf(parent).sub,
                 role |-> Leaf(parent).role, scope |-> scope, delegable |-> delegable,
                 exp |-> now + e, sig |-> d]
<1>1. parent \in Seq(Link) /\ parent # <<>> /\ Len(parent) >= 1
  BY DEF TypeOK
<1>2. Leaf(parent) \in Link
  BY <1>1 DEF Leaf
<1>3. l \in Link
  <2>1. nextId \in 1..MaxTokens /\ now + e \in Nat
    BY AuthorityAssumption DEF TypeOK
  <2>2. QED BY <1>2, <2>1 DEF Link
<1>4. t = <<l>> \o parent
  BY DEF DelegateToken
<1> HIDE DEF l
<1>6. /\ t \in Seq(Link) /\ Len(t) = Len(parent) + 1 /\ t[1] = l
      /\ \A i \in DOMAIN parent : t[i + 1] = parent[i]
  <2>1. /\ <<l>> \o parent \in Seq(Link) /\ Len(<<l>> \o parent) = Len(parent) + 1
        /\ (<<l>> \o parent)[1] = l
        /\ \A i \in DOMAIN parent : (<<l>> \o parent)[i + 1] = parent[i]
    BY <1>1, <1>3, Cons
  <2>2. QED BY <2>1, <1>4, Zenon
<1>7. Root(t) = Root(parent)
  BY <1>1, <1>6 DEF Root
<1>8. QED BY <1>6, <1>7 DEF Leaf, l

LEMMA TypeInit == Init => TypeOK
BY DEF Init, TypeOK

LEMMA TypeStep == TypeOK /\ [Next]_vars => TypeOK'
<1> SUFFICES ASSUME TypeOK, [Next]_vars PROVE TypeOK'
  OBVIOUS
\* A token minted under the next id keeps the types
<1>mint. ASSUME NEW t \in Seq(Link) \ {<<>>}, NEW b, Mint(t, b),
                \A i \in DOMAIN t : t[i].id <= nextId
         PROVE  /\ nextId' \in Nat \ {0}
                /\ tokens' \subseteq Seq(Link) \ {<<>>} /\ lawful' \subseteq tokens'
                /\ \A u \in tokens' : \A i \in DOMAIN u : u[i].id < nextId'
  <2>1. nextId' = nextId + 1 /\ tokens' = tokens \cup {t}
    BY <1>mint DEF Mint
  <2>2. lawful' \subseteq tokens'
    BY <1>mint DEF Mint, TypeOK
  <2>3. ASSUME NEW u \in tokens', NEW i \in DOMAIN u
        PROVE  u[i].id < nextId'
    <3>1. u[i].id \in Nat
      BY <2>1, <2>3, <1>mint, LinkAt DEF TypeOK
    <3>2. u[i].id <= nextId
      BY <3>1, <2>1, <2>3, <1>mint DEF TypeOK
    <3>3. QED BY <3>1, <3>2, <2>1 DEF TypeOK
  <2>4. QED BY <2>1, <2>2, <2>3, <1>mint DEF TypeOK
<1>1. ASSUME NEW d \in Desktop, NEW signedAt \in 0..now, AcceptClaim(d, signedAt)
      PROVE  TypeOK'
  <2>1. Mint(ClaimToken(d), TRUE) /\ nextId <= MaxTokens
    BY <1>1 DEF AcceptClaim, Mint
  <2>2. /\ ClaimToken(d) \in Seq(Link) \ {<<>>}
        /\ \A i \in DOMAIN ClaimToken(d) : ClaimToken(d)[i].id <= nextId
    BY <2>1, ClaimTokenType
  <2>3. QED BY <1>1, <2>1, <2>2, <1>mint DEF AcceptClaim, TypeOK
<1>2. ASSUME NEW d \in Desktop, NEW t \in tokens, AcceptReconnect(d, t)
      PROVE  TypeOK'
  <2>1. Mint(ClaimToken(d), TRUE) /\ nextId <= MaxTokens
    BY <1>2 DEF AcceptReconnect, Mint
  <2>2. /\ ClaimToken(d) \in Seq(Link) \ {<<>>}
        /\ \A i \in DOMAIN ClaimToken(d) : ClaimToken(d)[i].id <= nextId
    BY <2>1, ClaimTokenType
  <2>3. QED BY <1>2, <2>1, <2>2, <1>mint DEF AcceptReconnect, TypeOK
<1>3. ASSUME NEW d \in Desktop, NEW t \in tokens, NEW r \in RoleName, NEW s \in ScopeSet,
             NEW p \in BOOLEAN, NEW n \in Nonce, IssueInvite(d, t, r, s, p, n)
      PROVE  TypeOK'
  BY <1>3 DEF IssueInvite, TypeOK
<1>4. ASSUME NEW d \in Desktop, NEW i \in invites, NEW signedAt \in 0..now,
             AcceptInvite(d, i, signedAt)
      PROVE  TypeOK'
  <2> DEFINE t == IssueRoot(Node, d, i.role, i.scope, TRUE, now + Ttl, nextId)
  <2>1. Mint(t, TRUE) /\ nextId <= MaxTokens
    BY <1>4 DEF AcceptInvite, Mint
  <2>2. i.role \in RoleName /\ i.scope \in ScopeSet /\ i.nonce \in Nonce
    BY DEF TypeOK
  <2>3. t \in Seq(Link) \ {<<>>} /\ \A j \in DOMAIN t : t[j].id <= nextId
    BY <2>1, <2>2, RootType
  <2> HIDE DEF t
  <2>4. QED BY <1>4, <2>1, <2>2, <2>3, <1>mint DEF AcceptInvite, TypeOK
<1>5. ASSUME NEW d \in Desktop, NEW p \in tokens, NEW aud \in Desktop, NEW s \in ScopeSet,
             NEW g \in BOOLEAN, NEW e \in Lifetime, Delegate(d, p, aud, s, g, now + e)
      PROVE  TypeOK'
  <2> DEFINE t == DelegateToken(p, d, aud, s, g, now + e, nextId)
  <2>1. PICK b : Mint(t, b) /\ nextId <= MaxTokens
    BY <1>5 DEF Delegate, Mint
  <2>2. t \in Seq(Link) \ {<<>>}
    BY <2>1, DelegateType
  <2>3. \A i \in DOMAIN t : t[i].id <= nextId
    <3>1. /\ Len(t) = Len(p) + 1 /\ Leaf(t).id = nextId /\ Leaf(t) = t[1]
          /\ \A i \in DOMAIN p : t[i + 1] = p[i]
      <4>1. Leaf(t) = t[1]
        BY DEF Leaf
      <4> HIDE DEF t
      <4>2. QED BY <2>1, <4>1, DelegateType DEF t
    <3>2. \A i \in DOMAIN p : p[i].id \in Nat /\ p[i].id < nextId
      BY LinkAt DEF TypeOK
    <3>3. p \in Seq(Link)
      BY DEF TypeOK
    <3> HIDE DEF t
    <3>4. ASSUME NEW i \in DOMAIN t PROVE t[i].id <= nextId
      <4>1. i = 1 \/ (i - 1 \in DOMAIN p /\ t[i] = p[i - 1])
        BY <3>1, <3>3, <2>2
      <4>2. QED BY <4>1, <3>1, <3>2 DEF TypeOK
    <3>5. QED BY <3>4
  <2> HIDE DEF t
  <2>4. QED BY <1>5, <2>1, <2>2, <2>3, <1>mint DEF Delegate, TypeOK
<1>6. ASSUME NEW id \in 1..(nextId - 1), Revoke(id) PROVE TypeOK'
  BY <1>6 DEF Revoke, TypeOK
<1>7. CASE Tick
  BY <1>7 DEF Tick, TypeOK
<1>8. CASE UNCHANGED vars
  BY <1>8 DEF vars, TypeOK
<1>9. QED BY <1>1, <1>2, <1>3, <1>4, <1>5, <1>6, <1>7, <1>8 DEF Next

\* Every variable of every reachable state has its type, whatever the bounds.
THEOREM TypeCorrect == Spec => []TypeOK
BY TypeInit, TypeStep, PTL DEF Spec

-----------------------------------------------------------------------------
(* The chain check *)

Unbroken(t) == \A i \in 1..(Len(t) - 1) : PairStands(t[i], t[i + 1])

\* Links are signed by who they say issued them, under the node's own root,
\* and the history the node cannot see is written in the pairs of the chain.
ChainInv ==
  \A t \in tokens :
    /\ Root(t).iss = Node
    /\ \A i \in DOMAIN t : t[i].sig = t[i].iss /\ t[i].sub = Node
    /\ t \in lawful <=> Unbroken(t)

\* What Mint has to be given for ChainInv to survive it
LEMMA ChainMint ==
  ASSUME TypeOK, ChainInv, NEW t, NEW b, Mint(t, b), Root(t).iss = Node,
         \A i \in DOMAIN t : t[i].sig = t[i].iss /\ t[i].sub = Node,
         b <=> Unbroken(t)
  PROVE  ChainInv'
<1>1. tokens' = tokens \cup {t} /\ lawful' = IF b THEN lawful \cup {t} ELSE lawful
  BY DEF Mint
<1>2. lawful \subseteq tokens
  BY DEF TypeOK
<1>3. ASSUME NEW u \in tokens'
      PROVE  /\ Root(u).iss = Node
             /\ \A i \in DOMAIN u : u[i].sig = u[i].iss /\ u[i].sub = Node
             /\ u \in lawful' <=> Unbroken(u)
  <2>1. CASE u = t
    <3>1. u \in lawful' <=> Unbroken(u)
      BY <1>1, <1>2, <2>1 DEF ChainInv
    <3>2. QED BY <2>1, <3>1
  <2>2. CASE u # t
    <3>1. u \in tokens /\ (u \in lawful' <=> u \in lawful)
      BY <1>1, <1>3, <2>2
    <3>2. QED BY <3>1 DEF ChainInv
  <2>3. QED BY <2>1, <2>2
<1>4. QED BY <1>3 DEF ChainInv, Unbroken, Root

LEMMA LoneLink ==
  ASSUME NEW t, Len(t) = 1
  PROVE  Unbroken(t)
<1>1. \A i \in 1..(Len(t) - 1) : FALSE
  OBVIOUS
<1>2. QED BY <1>1, Zenon DEF Unbroken

\* The node's own grants
LEMMA ChainRoot ==
  ASSUME TypeOK, nextId <= MaxTokens, NEW aud \in Desktop, NEW role \in RoleName \cup {"owner"},
         NEW scope \in ScopeSet,
         NEW g \in BOOLEAN,
         NEW t, t = IssueRoot(Node, aud, role, scope, g, now + Ttl, nextId)
  PROVE  /\ Root(t).iss = Node /\ Root(t).aud = aud /\ Root(t) = Leaf(t)
         /\ Leaf(t).role = role /\ Leaf(t).scope = scope
         /\ \A i \in DOMAIN t : t[i].sig = t[i].iss /\ t[i].sub = Node
         /\ Unbroken(t)
<1> DEFINE l == [id |-> nextId, iss |-> Node, aud |-> aud, sub |-> Node, role |-> role,
                 scope |-> scope, delegable |-> g, exp |-> now + Ttl, sig |-> Node]
<1>1. /\ l.iss = Node /\ l.sig = Node /\ l.sub = Node /\ l.aud = aud
      /\ l.role = role /\ l.scope = scope
  OBVIOUS
<1>2. t \in Seq(Link) /\ Len(t) = 1 /\ t[1] = l
  BY RootType
<1> HIDE DEF l
<1>3. DOMAIN t = 1..1
  BY <1>2, LenProperties
<1>4. Root(t) = l /\ Leaf(t) = l
  BY <1>2 DEF Root, Leaf
<1>5. ASSUME NEW i \in DOMAIN t PROVE t[i] = l
  <2>1. i = 1
    BY <1>3
  <2>2. QED BY <1>2, <2>1, Zenon
<1>6. Unbroken(t)
  BY <1>2, LoneLink
<1>7. QED BY <1>1, <1>4, <1>5, <1>6

LEMMA ChainClaim ==
  ASSUME TypeOK, nextId <= MaxTokens, NEW d \in Desktop, NEW t, t = ClaimToken(d)
  PROVE  /\ Root(t).iss = Node /\ Root(t).aud = d /\ Root(t) = Leaf(t)
         /\ \A i \in DOMAIN t : t[i].sig = t[i].iss /\ t[i].sub = Node
         /\ Unbroken(t)
<1>1. NodeScope \in ScopeSet /\ "owner" \in RoleName \cup {"owner"}
  BY AuthorityAssumption
<1>2. PICK g \in BOOLEAN : t = IssueRoot(Node, d, "owner", NodeScope, g, now + Ttl, nextId)
  <2>1. t = IssueRoot(Node, d, "owner", NodeScope, TRUE, now + Ttl, nextId)
    BY DEF ClaimToken
  <2>2. QED BY <2>1, Zenon
<1>3. QED BY <1>1, <1>2, ChainRoot

\* A delegation: one more pair above an old chain
LEMMA ChainDelegate ==
  ASSUME TypeOK, ChainInv, nextId <= MaxTokens, NEW d \in Desktop, NEW p \in tokens,
         NEW aud \in Desktop, NEW scope \in ScopeSet, NEW g \in BOOLEAN, NEW e \in Lifetime,
         NEW t, t = DelegateToken(p, d, aud, scope, g, now + e, nextId)
  PROVE  /\ Root(t).iss = Node
         /\ \A i \in DOMAIN t : t[i].sig = t[i].iss /\ t[i].sub = Node
         /\ Unbroken(t) <=> /\ p \in lawful /\ Leaf(p).aud = d
                            /\ Leaf(p).delegable /\ Contains(Leaf(p).scope, scope)
<1>1. /\ t \in Seq(Link) \ {<<>>} /\ Len(t) = Len(p) + 1
      /\ Leaf(t) = [id |-> nextId, iss |-> d, aud |-> aud, sub |-> Leaf(p).sub,
                    role |-> Leaf(p).role, scope |-> scope, delegable |-> g,
                    exp |-> now + e, sig |-> d]
      /\ \A i \in DOMAIN p : t[i + 1] = p[i]
      /\ Root(t) = Root(p)
  BY DelegateType
<1>2. /\ Leaf(t).iss = d /\ Leaf(t).sig = d /\ Leaf(t).sub = Leaf(p).sub
      /\ Leaf(t).role = Leaf(p).role /\ Leaf(t).scope = scope
  BY <1>1
<1>3. p \in Seq(Link) /\ Len(p) \in Nat /\ Len(p) >= 1 /\ DOMAIN p = 1..Len(p)
  BY DEF TypeOK
<1>4. t[1] = Leaf(t) /\ p[1] = Leaf(p) /\ t[2] = Leaf(p)
  <2>1. t[1] = Leaf(t) /\ p[1] = Leaf(p)
    BY DEF Leaf
  <2>2. 1 \in DOMAIN p
    BY <1>3
  <2>3. QED BY <1>1, <2>1, <2>2
<1>5. DOMAIN t = 1..(Len(p) + 1)
  BY <1>1, <1>3, LenProperties
<1>6. ASSUME NEW i \in DOMAIN t PROVE t[i].sig = t[i].iss /\ t[i].sub = Node
  <2>1. CASE i = 1
    <3>1. Leaf(p).sub = Node
      BY <1>3, <1>4 DEF ChainInv
    <3>2. QED BY <1>2, <1>4, <2>1, <3>1
  <2>2. CASE i # 1
    <3>1. i - 1 \in DOMAIN p /\ t[i] = p[i - 1]
      <4>1. i - 1 \in DOMAIN p /\ (i - 1) + 1 = i
        BY <1>3, <1>5, <2>2
      <4>2. QED BY <4>1, <1>1
    <3>2. QED BY <3>1 DEF ChainInv
  <2>3. QED BY <2>1, <2>2
<1>7. Unbroken(t) <=> PairStands(Leaf(t), Leaf(p)) /\ Unbroken(p)
  <2>1. ASSUME NEW i \in 1..(Len(p) - 1)
        PROVE  /\ i + 1 \in 1..(Len(t) - 1)
               /\ t[i + 1] = p[i] /\ t[(i + 1) + 1] = p[i + 1]
    <3>1. i \in DOMAIN p /\ i + 1 \in DOMAIN p /\ i + 1 \in 1..(Len(t) - 1)
      BY <1>1, <1>3
    <3>2. QED BY <1>1, <3>1
  <2>2. ASSUME NEW i \in 1..(Len(t) - 1)
        PROVE  i = 1 \/ (i - 1 \in 1..(Len(p) - 1) /\ (i - 1) + 1 = i)
    BY <1>1, <1>3
  <2>3. 1 \in 1..(Len(t) - 1) /\ 1 + 1 = 2
    BY <1>1, <1>3
  <2>4. ASSUME Unbroken(t) PROVE PairStands(Leaf(t), Leaf(p)) /\ Unbroken(p)
    <3>1. PairStands(t[1], t[2])
      BY <2>3, <2>4 DEF Unbroken
    <3>2. ASSUME NEW i \in 1..(Len(p) - 1) PROVE PairStands(p[i], p[i + 1])
      <4>1. PairStands(t[i + 1], t[(i + 1) + 1])
        BY <2>1, <2>4 DEF Unbroken
      <4>2. QED BY <4>1, <2>1
    <3>3. QED BY <1>4, <3>1, <3>2 DEF Unbroken
  <2>5. ASSUME PairStands(Leaf(t), Leaf(p)), Unbroken(p) PROVE Unbroken(t)
    <3>1. ASSUME NEW i \in 1..(Len(t) - 1) PROVE PairStands(t[i], t[i + 1])
      <4>1. CASE i = 1
        BY <1>4, <2>5, <4>1, <2>3
      <4>2. CASE i # 1
        <5>1. i - 1 \in 1..(Len(p) - 1) /\ (i - 1) + 1 = i
          BY <2>2, <4>2
        <5>2. PairStands(p[i - 1], p[(i - 1) + 1])
          BY <5>1, <2>5 DEF Unbroken
        <5>3. t[(i - 1) + 1] = p[i - 1] /\ t[((i - 1) + 1) + 1] = p[(i - 1) + 1]
          BY <5>1, <2>1
        <5>4. QED BY <5>1, <5>2, <5>3
      <4>3. QED BY <4>1, <4>2
    <3>2. QED BY <3>1 DEF Unbroken
  <2>6. QED BY <2>4, <2>5
<1>8. PairStands(Leaf(t), Leaf(p)) <=>
        Leaf(p).aud = d /\ Leaf(p).delegable /\ Contains(Leaf(p).scope, scope)
  BY <1>2 DEF PairStands
<1>9. (p \in lawful <=> Unbroken(p)) /\ Root(p).iss = Node
  BY DEF ChainInv
<1>10. Root(t).iss = Node
  BY <1>1, <1>9
<1>11. QED BY <1>6, <1>7, <1>8, <1>9, <1>10


\* ChainInv reads tokens and lawful only, and they change together in Mint.
LEMMA ChainStep == TypeOK /\ ChainInv /\ [Next]_vars => ChainInv'
<1> SUFFICES ASSUME TypeOK, ChainInv, [Next]_vars PROVE ChainInv'
  OBVIOUS
<1>same. ASSUME UNCHANGED <<tokens, lawful>> PROVE ChainInv'
  BY <1>same DEF ChainInv, Unbroken, Root
<1>claim. ASSUME NEW d \in Desktop, Mint(ClaimToken(d), TRUE) PROVE ChainInv'
  <2>1. nextId <= MaxTokens
    BY <1>claim DEF Mint
  <2>2. PICK b, t : b \in BOOLEAN /\ t = ClaimToken(d) /\ Mint(t, b) /\ b
    BY <1>claim, Zenon
  <2>3. /\ Root(t).iss = Node /\ Unbroken(t)
        /\ \A i \in DOMAIN t : t[i].sig = t[i].iss /\ t[i].sub = Node
    BY <2>1, <2>2, ChainClaim
  <2>4. QED BY <2>2, <2>3, ChainMint
<1>1. ASSUME NEW d \in Desktop, NEW signedAt \in 0..now, AcceptClaim(d, signedAt)
      PROVE  ChainInv'
  BY <1>1, <1>claim, Zenon DEF AcceptClaim
<1>2. ASSUME NEW d \in Desktop, NEW t \in tokens, AcceptReconnect(d, t)
      PROVE  ChainInv'
  BY <1>2, <1>claim, Zenon DEF AcceptReconnect
<1>3. ASSUME NEW d \in Desktop, NEW t \in tokens, NEW r \in RoleName, NEW s \in ScopeSet,
             NEW p \in BOOLEAN, NEW n \in Nonce, IssueInvite(d, t, r, s, p, n)
      PROVE  ChainInv'
  BY <1>3, <1>same DEF IssueInvite
<1>4. ASSUME NEW d \in Desktop, NEW i \in invites, NEW signedAt \in 0..now,
             AcceptInvite(d, i, signedAt)
      PROVE  ChainInv'
  <2>1. i.role \in RoleName \cup {"owner"} /\ i.scope \in ScopeSet
    BY DEF TypeOK
  <2>2. PICK g, b, t :
          /\ g \in BOOLEAN /\ b \in BOOLEAN
          /\ t = IssueRoot(Node, d, i.role, i.scope, g, now + Ttl, nextId)
          /\ Mint(t, b) /\ b
    BY <1>4, Zenon DEF AcceptInvite
  <2>3. nextId <= MaxTokens
    BY <2>2 DEF Mint
  <2>4. /\ Root(t).iss = Node /\ Unbroken(t)
        /\ \A j \in DOMAIN t : t[j].sig = t[j].iss /\ t[j].sub = Node
    BY <2>1, <2>2, <2>3, ChainRoot
  <2>5. QED BY <2>2, <2>4, ChainMint
<1>5. ASSUME NEW d \in Desktop, NEW p \in tokens, NEW aud \in Desktop, NEW s \in ScopeSet,
             NEW g \in BOOLEAN, NEW e \in Lifetime, Delegate(d, p, aud, s, g, now + e)
      PROVE  ChainInv'
  <2>1. PICK b \in BOOLEAN, t \in {DelegateToken(p, d, aud, s, g, now + e, nextId)} :
          /\ Mint(t, b)
          /\ b <=> /\ p \in lawful /\ Leaf(p).aud = d
                   /\ Leaf(p).delegable /\ Contains(Leaf(p).scope, s)
    BY <1>5, Zenon DEF Delegate
  <2>2. nextId <= MaxTokens
    BY <2>1 DEF Mint
  <2>3. /\ Root(t).iss = Node
        /\ \A i \in DOMAIN t : t[i].sig = t[i].iss /\ t[i].sub = Node
        /\ Unbroken(t) <=> /\ p \in lawful /\ Leaf(p).aud = d
                           /\ Leaf(p).delegable /\ Contains(Leaf(p).scope, s)
    BY <2>1, <2>2, ChainDelegate
  <2>4. QED BY <2>1, <2>3, ChainMint
<1>6. ASSUME NEW id \in 1..(nextId - 1), Revoke(id) PROVE ChainInv'
  BY <1>6, <1>same DEF Revoke
<1>7. CASE Tick
  BY <1>7, <1>same DEF Tick
<1>8. CASE UNCHANGED vars
  BY <1>8, <1>same DEF vars
<1>9. QED BY <1>1, <1>2, <1>3, <1>4, <1>5, <1>6, <1>7, <1>8 DEF Next

LEMMA ChainExact == TypeOK /\ ChainInv => ChainCheckIsExact
<1> SUFFICES ASSUME TypeOK, ChainInv PROVE ChainCheckIsExact
  OBVIOUS
<1>1. ASSUME NEW t \in tokens, NEW d \in Desktop
      PROVE  Accepted(t, d) <=>
               /\ t \in lawful /\ Leaf(t).aud = d /\ Len(t) <= MaxChain
               /\ \A i \in DOMAIN t : now < t[i].exp /\ t[i].id \notin revoked
  <2>1. t \in Seq(Link) \ {<<>>} /\ Root(t) = t[Len(t)] /\ Len(t) \in DOMAIN t
    BY DEF TypeOK, Root
  <2>2. Root(t).iss = Root(t).sub
    BY <2>1 DEF ChainInv
  <2>3. /\ \A i \in DOMAIN t : t[i].sig = t[i].iss /\ t[i].sub = Node
        /\ t \in lawful <=> \A i \in 1..(Len(t) - 1) : PairStands(t[i], t[i + 1])
    BY DEF ChainInv, Unbroken
  <2>4. QED BY <2>2, <2>3 DEF Accepted, VerifyChain, LinkStands
<1>2. ASSUME NEW t \in Attestations PROVE ~Accepted(t, Node)
  <2>1. PICK d \in Desktop, signedAt \in 0..now : t = Attestation(d, signedAt)
    BY DEF Attestations
  <2>2. PICK l : t = <<l>> /\ l.sub = d
    <3> DEFINE l == [id |-> 0, iss |-> d, aud |-> Node, sub |-> d, role |-> "relationship",
                     scope |-> NodeScope, delegable |-> FALSE, exp |-> signedAt + Ttl, sig |-> d]
    <3>1. t = <<l>>
      BY <2>1, Zenon DEF Attestation, Attest, IssueRoot
    <3>2. l.sub = d
      OBVIOUS
    <3>3. QED BY <3>1, <3>2, Zenon
  <2>3. t[1].sub = d /\ 1 \in DOMAIN t /\ d # Node
    BY <2>2, AuthorityAssumption
  <2>4. QED BY <2>3 DEF Accepted, VerifyChain, LinkStands
<1>3. QED BY <1>1, <1>2 DEF ChainCheckIsExact

\* On every run, whatever tokens holders mint among themselves, the stateless
\* check of a chain accepts exactly the lawful ones.
THEOREM ChainCheckCorrect == Spec => []ChainCheckIsExact
<1>1. Init => TypeOK /\ ChainInv
  BY TypeInit DEF Init, ChainInv
<1>2. TypeOK /\ ChainInv /\ [Next]_vars => (TypeOK /\ ChainInv)'
  BY TypeStep, ChainStep
<1>3. QED BY <1>1, <1>2, ChainExact, PTL DEF Spec

-----------------------------------------------------------------------------
(* Reach and power *)

\* What a lawful token keeps of the node's own grant at its root
Inherits(t) ==
  /\ Root(t).scope = Leaf(t).scope \/ Contains(Root(t).scope, Leaf(t).scope)
  /\ Root(t).aud \in admins \/ ~RoleCouldGainCapability(Leaf(t).role, Leaf(t).scope)

GrantInv ==
  /\ \A t \in lawful : Inherits(t)
  /\ \A i \in invites : ~RoleCouldGainCapability(i.role, i.scope)

LEMMA GrantMint ==
  ASSUME TypeOK, GrantInv, NEW t, NEW b \in BOOLEAN, Mint(t, b), admins \subseteq admins',
         invites' = invites, b => Inherits(t)'
  PROVE  GrantInv'
<1>1. lawful' \subseteq lawful \cup {t} /\ (~b => lawful' = lawful)
  BY DEF Mint
<1>2. ASSUME NEW u \in lawful' PROVE Inherits(u)'
  <2>1. (u = t /\ b) \/ u \in lawful
    BY <1>1
  <2>2. CASE u = t /\ b
    BY <2>2
  <2>3. CASE u \in lawful
    BY <2>3 DEF GrantInv, Inherits, Root, Leaf
  <2>4. QED BY <2>1, <2>2, <2>3
<1>3. QED BY <1>2 DEF GrantInv

LEMMA GrantStep == TypeOK /\ GrantInv /\ ChainInv /\ [Next]_vars => GrantInv'
<1> SUFFICES ASSUME TypeOK, GrantInv, ChainInv, [Next]_vars PROVE GrantInv'
  OBVIOUS
<1>same. ASSUME UNCHANGED <<lawful, admins, invites>> PROVE GrantInv'
  BY <1>same DEF GrantInv, Inherits, Root, Leaf
<1>claim. ASSUME NEW d \in Desktop, Mint(ClaimToken(d), TRUE), d \in admins',
                 admins \subseteq admins', invites' = invites
          PROVE  GrantInv'
  <2>1. nextId <= MaxTokens
    BY <1>claim DEF Mint
  <2>2. PICK b, t : b \in BOOLEAN /\ t = ClaimToken(d) /\ Mint(t, b) /\ b
    BY <1>claim, Zenon
  <2>3. Root(t).aud = d /\ Root(t) = Leaf(t)
    BY <2>1, <2>2, ChainClaim
  <2>4. d \in admins' /\ admins \subseteq admins' /\ invites' = invites
    BY <1>claim, Zenon
  <2>5. Inherits(t)'
    BY <2>3, <2>4 DEF Inherits, Root, Leaf
  <2>6. QED BY <2>2, <2>4, <2>5, GrantMint
<1>1. ASSUME NEW d \in Desktop, NEW signedAt \in 0..now, AcceptClaim(d, signedAt)
      PROVE  GrantInv'
  <2>1. Mint(ClaimToken(d), TRUE)
    BY <1>1, Zenon DEF AcceptClaim
  <2>2. d \in admins' /\ admins \subseteq admins' /\ invites' = invites
    BY <1>1 DEF AcceptClaim
  <2>3. QED BY <2>1, <2>2, <1>claim, Zenon
<1>2. ASSUME NEW d \in Desktop, NEW t \in tokens, AcceptReconnect(d, t)
      PROVE  GrantInv'
  <2>1. Mint(ClaimToken(d), TRUE)
    BY <1>2, Zenon DEF AcceptReconnect
  <2>2. d \in admins' /\ admins \subseteq admins' /\ invites' = invites
    BY <1>2 DEF AcceptReconnect
  <2>3. QED BY <2>1, <2>2, <1>claim, Zenon
<1>3. ASSUME NEW d \in Desktop, NEW t \in tokens, NEW r \in RoleName, NEW s \in ScopeSet,
             NEW p \in BOOLEAN, NEW n \in Nonce, IssueInvite(d, t, r, s, p, n)
      PROVE  GrantInv'
  <2>1. /\ lawful' = lawful /\ admins' = admins /\ ~RoleCouldGainCapability(r, s)
        /\ invites' = invites \cup {[nonce |-> n, role |-> r, scope |-> s, public |-> p]}
    BY <1>3 DEF IssueInvite
  <2>2. ASSUME NEW i \in invites' PROVE ~RoleCouldGainCapability(i.role, i.scope)
    BY <2>1, <2>2 DEF GrantInv
  <2>3. \A t2 \in lawful' : Inherits(t2)'
    BY <2>1 DEF GrantInv, Inherits, Root, Leaf
  <2>4. QED BY <2>2, <2>3 DEF GrantInv
<1>4. ASSUME NEW d \in Desktop, NEW i \in invites, NEW signedAt \in 0..now,
             AcceptInvite(d, i, signedAt)
      PROVE  GrantInv'
  <2>1. i.role \in RoleName \cup {"owner"} /\ i.scope \in ScopeSet
    BY DEF TypeOK
  <2>2. PICK g, b, t :
          /\ g \in BOOLEAN /\ b \in BOOLEAN
          /\ t = IssueRoot(Node, d, i.role, i.scope, g, now + Ttl, nextId)
          /\ Mint(t, b) /\ b
    BY <1>4, Zenon DEF AcceptInvite
  <2>3. nextId <= MaxTokens
    BY <2>2 DEF Mint
  <2>4. Root(t) = Leaf(t) /\ Leaf(t).role = i.role /\ Leaf(t).scope = i.scope
    BY <2>1, <2>2, <2>3, ChainRoot
  <2>5. ~RoleCouldGainCapability(i.role, i.scope)
    BY DEF GrantInv
  <2>6. Inherits(t)'
    BY <2>4, <2>5 DEF Inherits, Root, Leaf
  <2>7. admins' = admins /\ invites' = invites
    BY <1>4 DEF AcceptInvite
  <2>8. QED BY <2>2, <2>6, <2>7, GrantMint
<1>5. ASSUME NEW d \in Desktop, NEW p \in tokens, NEW aud \in Desktop, NEW s \in ScopeSet,
             NEW g \in BOOLEAN, NEW e \in Lifetime, Delegate(d, p, aud, s, g, now + e)
      PROVE  GrantInv'
  <2>1. PICK b \in BOOLEAN, t \in {DelegateToken(p, d, aud, s, g, now + e, nextId)} :
          /\ Mint(t, b)
          /\ b => p \in lawful /\ Contains(Leaf(p).scope, s)
    BY <1>5, Zenon DEF Delegate
  <2>2. nextId <= MaxTokens
    BY <2>1 DEF Mint
  <2>3. Leaf(t).role = Leaf(p).role /\ Leaf(t).scope = s /\ Root(t) = Root(p)
    BY <2>1, <2>2, DelegateType
  <2>4. admins' = admins /\ invites' = invites
    BY <1>5 DEF Delegate
  <2>5. ASSUME b PROVE Inherits(t)'
    <3>1. Inherits(p) /\ Contains(Leaf(p).scope, s)
      BY <2>1, <2>5 DEF GrantInv
    <3>2. Root(t).scope = Leaf(t).scope \/ Contains(Root(t).scope, Leaf(t).scope)
      BY <2>3, <3>1, ContainsTransitive DEF Inherits
    <3>3. Root(t).aud \in admins \/ ~RoleCouldGainCapability(Leaf(t).role, Leaf(t).scope)
      BY <2>3, <3>1, NarrowingNeverGains DEF Inherits
    <3>4. QED BY <2>4, <3>2, <3>3 DEF Inherits, Root, Leaf
  <2>6. QED BY <2>1, <2>4, <2>5, GrantMint
<1>6. ASSUME NEW id \in 1..(nextId - 1), Revoke(id) PROVE GrantInv'
  BY <1>6, <1>same DEF Revoke
<1>7. CASE Tick
  BY <1>7, <1>same DEF Tick
<1>8. CASE UNCHANGED vars
  BY <1>8, <1>same DEF vars
<1>9. QED BY <1>1, <1>2, <1>3, <1>4, <1>5, <1>6, <1>7, <1>8 DEF Next

\* Delegated any number of times, a token reaches nothing its root did not.
THEOREM ReachCorrect == Spec => []ReachNeverWidens
<1>1. Init => TypeOK /\ ChainInv /\ GrantInv
  BY TypeInit DEF Init, ChainInv, GrantInv
<1>2. TypeOK /\ ChainInv /\ GrantInv /\ [Next]_vars => (TypeOK /\ ChainInv /\ GrantInv)'
  BY TypeStep, ChainStep, GrantStep
<1>3. TypeOK /\ ChainInv /\ GrantInv => ReachNeverWidens
  <2> SUFFICES ASSUME TypeOK, ChainInv, GrantInv, NEW t \in tokens, NEW d \in Desktop,
                      Accepted(t, d), NEW target \in ScopeSet,
                      Membership(t, Node, d, target, now, revoked)
               PROVE  Contains(Root(t).scope, target)
    BY DEF ReachNeverWidens
  <2>1. t \in lawful
    BY ChainExact DEF ChainCheckIsExact
  <2>2. Inherits(t) /\ Contains(Leaf(t).scope, target)
    BY <2>1 DEF GrantInv, Membership
  <2>3. QED BY <2>2, ContainsTransitive DEF Inherits
<1>4. QED BY <1>1, <1>2, <1>3, PTL DEF Spec

\* No chain that starts at an invite ever carries a platform capability.
THEOREM PowerCorrect == Spec => []PowerTracesToClaimant
<1>1. Init => TypeOK /\ ChainInv /\ GrantInv
  BY TypeInit DEF Init, ChainInv, GrantInv
<1>2. TypeOK /\ ChainInv /\ GrantInv /\ [Next]_vars => (TypeOK /\ ChainInv /\ GrantInv)'
  BY TypeStep, ChainStep, GrantStep
<1>3. TypeOK /\ ChainInv /\ GrantInv => PowerTracesToClaimant
  <2> SUFFICES ASSUME TypeOK, ChainInv, GrantInv, NEW t \in tokens, NEW d \in Desktop,
                      Accepted(t, d), Root(t).aud \notin admins,
                      NEW c \in Capability, NEW target \in ScopeSet,
                      Authorize(t, Node, d, c, target, now, revoked)
               PROVE  FALSE
    BY DEF PowerTracesToClaimant
  <2>1. t \in lawful
    BY ChainExact DEF ChainCheckIsExact
  <2>2. ~RoleCouldGainCapability(Leaf(t).role, Leaf(t).scope)
    BY <2>1 DEF GrantInv, Inherits
  <2>3. PlatformCapabilities(Leaf(t).role, Leaf(t).scope) # {}
    BY DEF Authorize
  <2>4. QED BY <2>2, <2>3 DEF RoleCouldGainCapability
<1>4. QED BY <1>1, <1>2, <1>3, PTL DEF Spec

-----------------------------------------------------------------------------
(* What scopes reach *)

\* What a scope reaches, element by element
LEMMA ReachIs ==
  ASSUME Narrow!NarrowingConstants, NEW s \in ScopeSet
  PROVE  /\ \A x \in Narrow!Reach(s) :
              \/ x = <<"node">>
              \/ \E w : x = <<"ws", w>>
              \/ \E a : x = <<"app", a>>
              \/ \E p : x = <<"at", p>>
         /\ <<"node">> \in Narrow!Reach(s) <=> s.level = "node"
         /\ \A w : <<"ws", w>> \in Narrow!Reach(s) <=>
              (s.level = "node" /\ w \in Workspace) \/ (s.level = "workspace" /\ w = s.ws)
         /\ \A a : <<"app", a>> \in Narrow!Reach(s) <=>
              \/ s.level = "node" /\ a \in App
              \/ s.level = "workspace" /\ a \in App /\ a[1] = s.ws
              \/ s.level = "app" /\ a = <<s.ws, s.app>>
         /\ \A p : <<"at", p>> \in Narrow!Reach(s) <=>
              /\ p \in Address
              /\ \/ s.level = "node"
                 \/ s.level = "workspace" /\ p[1] = s.ws
                 \/ s.level = "resource" /\ Narrow!Parses(s) /\ Narrow!Covers(s, p)
<1>1. CASE s.level = "node"
  <2>1. Narrow!Reach(s) = {<<"node">>} \cup {<<"ws", w>> : w \in Workspace}
                            \cup {<<"app", a>> : a \in App} \cup {<<"at", p>> : p \in Address}
    BY <1>1 DEF Narrow!Reach
  <2> QED BY <1>1, <2>1
<1>2. CASE s.level = "workspace"
  <2>1. Narrow!Reach(s) = {<<"ws", s.ws>>} \cup {<<"app", a>> : a \in {b \in App : b[1] = s.ws}}
                            \cup {<<"at", p>> : p \in {q \in Address : q[1] = s.ws}}
    BY <1>2 DEF Narrow!Reach
  <2> QED BY <1>2, <2>1
<1>3. CASE s.level = "app"
  <2>1. Narrow!Reach(s) = {<<"app", <<s.ws, s.app>>>>}
    BY <1>3 DEF Narrow!Reach
  <2> QED BY <1>3, <2>1
<1>4. CASE s.level = "resource"
  <2>1. Narrow!Reach(s) = IF Narrow!Parses(s) THEN {<<"at", p>> : p \in {q \in Address : Narrow!Covers(s, q)}} ELSE {}
    BY <1>4 DEF Narrow!Reach
  <2> QED BY <1>4, <2>1
<1> QED BY <1>1, <1>2, <1>3, <1>4 DEF Narrow!NarrowingConstants

\* What lies below what lies below a path
LEMMA BelowTransitive ==
  ASSUME NEW a \in Seq(ValidId), NEW b \in Seq(ValidId), NEW p,
         Narrow!Below(b, p), a = b \/ Narrow!Below(a, b)
  PROVE  Narrow!Below(a, p)
<1>1. Len(a) \in Nat /\ Len(b) \in Nat /\ Len(a) <= Len(b) /\ \A i \in 1..Len(a) : a[i] = b[i]
  BY DEF Narrow!Below
<1>2. Len(b) < Len(p) /\ \A i \in 1..Len(b) : p[i] = b[i]
  BY DEF Narrow!Below
<1> QED BY <1>1, <1>2 DEF Narrow!Below

\* What is contained is reached.
LEMMA ContainedIsReached ==
  ASSUME Narrow!NarrowingConstants, NEW s \in ScopeSet, NEW o \in ScopeSet, Narrow!Contains(s, o)
  PROVE  Narrow!Reach(o) \subseteq Narrow!Reach(s)
<1> USE ReachIs
<1>0. s.level \in {"node", "workspace", "app", "resource"} /\ o.level \in {"node", "workspace", "app", "resource"}
  BY DEF Narrow!NarrowingConstants
<1>1. <<"node">> \in Narrow!Reach(o) => <<"node">> \in Narrow!Reach(s)
  BY DEF Narrow!Contains
<1>2. ASSUME NEW w, <<"ws", w>> \in Narrow!Reach(o) PROVE <<"ws", w>> \in Narrow!Reach(s)
  <2>1. o.level = "workspace" => o.ws \in Workspace
    BY DEF Narrow!NarrowingConstants
  <2> QED BY <1>0, <1>2, <2>1 DEF Narrow!Contains
<1>3. ASSUME NEW a, <<"app", a>> \in Narrow!Reach(o) PROVE <<"app", a>> \in Narrow!Reach(s)
  <2>1. o.level = "app" => <<o.ws, o.app>> \in App
    BY DEF Narrow!NarrowingConstants
  <2> QED BY <1>0, <1>3, <2>1 DEF Narrow!Contains
<1>4. ASSUME NEW p, <<"at", p>> \in Narrow!Reach(o) PROVE <<"at", p>> \in Narrow!Reach(s)
  <2>1. p \in Address
    BY <1>4
  <2>2. CASE o.level \in {"node", "workspace"}
    BY <1>0, <1>4, <2>1, <2>2 DEF Narrow!Contains
  <2>3. CASE o.level = "resource"
    <3>1. Narrow!Parses(o) /\ Narrow!Covers(o, p)
      BY <1>4, <2>3
    <3>2. CASE s.level = "node"
      BY <2>1, <3>2
    <3>3. CASE s.level = "workspace"
      <4>1. o.path[1] = s.ws /\ Len(o.path) >= 2
        BY <2>3, <3>1, <3>3 DEF Narrow!Contains, Narrow!Parses
      <4>2. p[1] = o.path[1]
        <5>1. o.path \in Seq(ValidId)
          BY <2>3, <3>1 DEF Narrow!NarrowingConstants
        <5>2. 1 \in 1..Len(o.path)
          BY <4>1, <5>1
        <5> QED BY <3>1, <5>2 DEF Narrow!Covers, Narrow!Below
      <4> QED BY <2>1, <3>3, <4>1, <4>2
    <3>4. CASE s.level = "resource"
      <4>1. Narrow!Parses(s) /\ Narrow!ResourceContains(s, o)
        BY <2>3, <3>4 DEF Narrow!Contains
      <4>2. s.path \in Seq(ValidId) /\ o.path \in Seq(ValidId)
        BY <2>3, <3>1, <3>4, <4>1 DEF Narrow!NarrowingConstants
      <4>3. Narrow!Covers(s, p)
        <5>1. CASE o.form = "exact"
          BY <3>1, <4>1, <5>1 DEF Narrow!Covers, Narrow!ResourceContains
        <5>2. CASE o.form = "subtree"
          <6>1. /\ s.form = "subtree" /\ Narrow!Below(o.path, p)
                /\ s.path = o.path \/ Narrow!Below(s.path, o.path)
            BY <3>1, <4>1, <5>2 DEF Narrow!Covers, Narrow!ResourceContains
          <6>2. Narrow!Below(s.path, p)
            BY <4>2, <6>1, BelowTransitive
          <6> QED BY <6>1, <6>2 DEF Narrow!Covers
        <5> QED BY <3>1, <5>1, <5>2 DEF Narrow!Parses
      <4> QED BY <2>1, <3>4, <4>1, <4>3
    <3> QED BY <1>0, <2>3, <3>2, <3>3, <3>4 DEF Narrow!Contains
  <2> QED BY <1>0, <1>4, <2>2, <2>3
<1> QED BY <1>1, <1>2, <1>3, <1>4

\* Two different addresses lie directly below a subtree, and below nothing that
\* the subtree is not below.
LEMMA JustBelow ==
  ASSUME Narrow!NarrowingConstants, NEW o \in ScopeSet, o.level = "resource", Narrow!Parses(o), o.form = "subtree"
  PROVE  \E p, q \in Address :
           /\ p # q /\ <<"at", p>> \in Narrow!Reach(o) /\ <<"at", q>> \in Narrow!Reach(o)
           /\ p[1] = o.path[1]
           /\ \A base \in Seq(ValidId) : Narrow!Below(base, p) => base = o.path \/ Narrow!Below(base, o.path)
<1>1. PICK x \in ValidId, y \in ValidId : x # y
  BY DEF Narrow!NarrowingConstants
<1> DEFINE p == Append(o.path, x)
           q == Append(o.path, y)
<1>2. o.path \in Seq(ValidId) /\ p \in Address /\ q \in Address /\ Len(o.path) >= 2
  BY DEF Narrow!NarrowingConstants, Narrow!Parses
<1>3. /\ Len(p) = Len(o.path) + 1 /\ Len(q) = Len(o.path) + 1 /\ Len(o.path) \in Nat
      /\ p[Len(o.path) + 1] = x /\ q[Len(o.path) + 1] = y
      /\ \A i \in 1..Len(o.path) : p[i] = o.path[i] /\ q[i] = o.path[i]
      /\ p \in Seq(ValidId)
  BY <1>1, <1>2, AppendProperties
<1> HIDE DEF p, q
<1>4. Narrow!Below(o.path, p) /\ Narrow!Below(o.path, q) /\ p # q
  BY <1>1, <1>3 DEF Narrow!Below
<1>5. <<"at", p>> \in Narrow!Reach(o) /\ <<"at", q>> \in Narrow!Reach(o)
  BY <1>2, <1>4, ReachIs DEF Narrow!Covers
<1>6. ASSUME NEW base \in Seq(ValidId), Narrow!Below(base, p)
      PROVE  base = o.path \/ Narrow!Below(base, o.path)
  <2>1. Len(base) \in Nat /\ Len(base) <= Len(o.path) /\ \A i \in 1..Len(base) : base[i] = o.path[i]
    BY <1>3, <1>6 DEF Narrow!Below
  <2>2. CASE Len(base) = Len(o.path)
    BY <1>2, <2>1, <2>2, SeqEqual
  <2>3. CASE Len(base) < Len(o.path)
    BY <2>1, <2>3 DEF Narrow!Below
  <2> QED BY <1>3, <2>1, <2>2, <2>3
<1>7. p[1] = o.path[1]
  BY <1>2, <1>3
<1> QED BY <1>2, <1>4, <1>5, <1>6, <1>7

\* What is reached is contained, of scopes that are well-formed.
LEMMA ReachedIsContained ==
  ASSUME Narrow!NarrowingConstants, NEW s \in ScopeSet, NEW o \in ScopeSet,
         Narrow!WellFormed(s), Narrow!WellFormed(o), Narrow!Reach(o) \subseteq Narrow!Reach(s)
  PROVE  Narrow!Contains(s, o)
<1>0. s.level \in {"node", "workspace", "app", "resource"} /\ o.level \in {"node", "workspace", "app", "resource"}
  BY DEF Narrow!NarrowingConstants
<1>1. CASE o.level = "node"
  BY <1>1, ReachIs DEF Narrow!Contains
<1>2. CASE o.level = "workspace"
  <2>1. <<"ws", o.ws>> \in Narrow!Reach(o)
    BY <1>2, ReachIs
  <2>2. <<"ws", o.ws>> \in Narrow!Reach(s)
    BY <2>1
  <2> QED BY <1>2, <2>2, ReachIs DEF Narrow!Contains
<1>3. CASE o.level = "app"
  <2>1. PICK a : a = <<o.ws, o.app>>
    OBVIOUS
  <2>2. <<"app", a>> \in Narrow!Reach(s)
    BY <1>3, <2>1, ReachIs
  <2>3. \/ s.level = "node"
        \/ s.level = "workspace" /\ a[1] = s.ws
        \/ s.level = "app" /\ a = <<s.ws, s.app>>
    BY <2>2, ReachIs
  <2> QED BY <1>3, <2>1, <2>3 DEF Narrow!Contains
<1>4. CASE o.level = "resource"
  <2>1. Narrow!Parses(o) /\ o.path \in Seq(ValidId)
    BY <1>4 DEF Narrow!WellFormed, Narrow!NarrowingConstants
  <2>2. CASE o.form = "exact"
    <3>1. o.path \in Address /\ <<"at", o.path>> \in Narrow!Reach(o)
      <4>1. o.path \in Address
        BY <1>4, <2>1, <2>2 DEF Narrow!NarrowingConstants
      <4> QED BY <1>4, <2>1, <2>2, <4>1, ReachIs DEF Narrow!Covers
    <3>2. PICK p : p = o.path /\ <<"at", p>> \in Narrow!Reach(s)
      BY <3>1
    <3>3. \/ s.level = "node"
          \/ s.level = "workspace" /\ p[1] = s.ws
          \/ s.level = "resource" /\ Narrow!Parses(s) /\ Narrow!Covers(s, p)
      BY <3>2, ReachIs
    <3> QED BY <1>4, <2>1, <2>2, <3>2, <3>3 DEF Narrow!Contains, Narrow!ResourceContains
  <2>3. CASE o.form = "subtree"
    <3>1. PICK p \in Address, q \in Address :
            /\ p # q /\ <<"at", p>> \in Narrow!Reach(s) /\ <<"at", q>> \in Narrow!Reach(s)
            /\ p[1] = o.path[1]
            /\ \A base \in Seq(ValidId) : Narrow!Below(base, p) => base = o.path \/ Narrow!Below(base, o.path)
      BY <1>4, <2>1, <2>3, JustBelow
    <3>2. CASE s.level \in {"node", "workspace", "app"}
      BY <1>4, <2>1, <3>1, <3>2, ReachIs DEF Narrow!Contains
    <3>3. CASE s.level = "resource"
      <4>1. Narrow!Parses(s) /\ Narrow!Covers(s, p) /\ Narrow!Covers(s, q) /\ s.path \in Seq(ValidId)
        BY <3>1, <3>3, ReachIs DEF Narrow!NarrowingConstants
      <4>2. s.form = "subtree" /\ Narrow!Below(s.path, p)
        BY <3>1, <4>1 DEF Narrow!Covers
      <4>3. s.path = o.path \/ Narrow!Below(s.path, o.path)
        BY <3>1, <4>1, <4>2
      <4> QED BY <1>4, <2>1, <2>3, <3>3, <4>1, <4>2, <4>3 DEF Narrow!Contains, Narrow!ResourceContains, Narrow!Covers
    <3> QED BY <1>0, <3>2, <3>3
  <2> QED BY <2>1, <2>2, <2>3 DEF Narrow!Parses
<1> QED BY <1>0, <1>1, <1>2, <1>3, <1>4

\* Contains is inclusion of what is reached, at every level and for every scope; and a
\* role handed on any number of times, each time at a scope that the last one contains,
\* never comes to reach more (Scope::contains, verify_chain).
THEOREM NarrowingCorrect ==
  ASSUME Narrow!NarrowingConstants
  PROVE  Narrow!Spec => []Narrow!ScopesNarrow
<1> DEFINE Chain == held \in Seq(ScopeSet) /\ Len(held) >= 1 /\ Narrow!ReachShrinks
<1>1. Narrow!Init => Chain
  <2> SUFFICES ASSUME NEW s \in ScopeSet, held = <<s>> PROVE Chain
    BY DEF Narrow!Init
  <2>1. held \in Seq(ScopeSet) /\ Len(held) = 1 /\ DOMAIN held = {1}
    OBVIOUS
  <2> QED BY <2>1 DEF Narrow!ReachShrinks
<1>2. Chain /\ [Narrow!Next]_(Narrow!vars) => Chain'
  <2> SUFFICES ASSUME Chain, [Narrow!Next]_(Narrow!vars) PROVE Chain'
    OBVIOUS
  <2>1. CASE UNCHANGED Narrow!vars
    BY <2>1 DEF Narrow!vars, Narrow!ReachShrinks, Narrow!Reach
  <2>2. ASSUME NEW s \in ScopeSet, Narrow!Narrow(s) PROVE Chain'
    <3> DEFINE n == Len(held)
    <3>1. n \in Nat /\ n >= 1 /\ held[n] \in ScopeSet /\ Narrow!Contains(held[n], s) /\ held' = Append(held, s)
      BY <2>2 DEF Narrow!Narrow
    <3>2. Narrow!Reach(s) \subseteq Narrow!Reach(held[n])
      BY <3>1, ContainedIsReached
    <3>3. /\ held' \in Seq(ScopeSet) /\ Len(held') = n + 1 /\ held'[n + 1] = s
          /\ \A i \in 1..n : held'[i] = held[i]
      BY <3>1, AppendProperties
    <3> HIDE DEF n
    <3>4. ASSUME NEW i \in 1..(n + 1), NEW j \in 1..(n + 1), i <= j
          PROVE  Narrow!Reach(held'[j]) \subseteq Narrow!Reach(held'[i])
      <4>1. CASE j <= n
        <5>1. i \in DOMAIN held /\ j \in DOMAIN held
          BY <3>1, <3>4, <4>1 DEF n
        <5>2. held'[i] = held[i] /\ held'[j] = held[j]
          BY <3>1, <3>3, <3>4, <4>1
        <5> QED BY <3>4, <5>1, <5>2 DEF Narrow!ReachShrinks
      <4>2. CASE j = n + 1 /\ i <= n
        <5>1. i \in DOMAIN held /\ n \in DOMAIN held /\ i <= n
          BY <3>1, <3>4, <4>2 DEF n
        <5>2. Narrow!Reach(held[n]) \subseteq Narrow!Reach(held[i])
          BY <5>1 DEF Narrow!ReachShrinks
        <5>3. held'[i] = held[i] /\ held'[j] = s
          BY <3>1, <3>3, <3>4, <4>2
        <5> QED BY <3>2, <5>2, <5>3
      <4>3. CASE i = j
        BY <4>3
      <4>4. j <= n \/ (j = n + 1 /\ i <= n) \/ i = j
        BY <3>1, <3>4
      <4> QED BY <4>1, <4>2, <4>3, <4>4
    <3>5. Narrow!ReachShrinks'
      <4>1. DOMAIN held' = 1..(n + 1)
        BY <3>3
      <4> QED BY <3>4, <4>1 DEF Narrow!ReachShrinks, Narrow!Reach
    <3> QED BY <3>1, <3>3, <3>5
  <2> QED BY <2>1, <2>2 DEF Narrow!Next
<1>3. Chain => Narrow!ScopesNarrow
  <2> SUFFICES ASSUME Chain PROVE Narrow!ContainsIsInclusion
    BY DEF Narrow!ScopesNarrow
  <2> DEFINE s == held[Len(held)]
  <2>1. s \in ScopeSet
    OBVIOUS
  <2> SUFFICES ASSUME NEW o \in ScopeSet
               PROVE  /\ Narrow!WellFormed(s) /\ Narrow!WellFormed(o) =>
                           (Narrow!Contains(s, o) <=> Narrow!Reach(o) \subseteq Narrow!Reach(s))
                      /\ o.level = "resource" /\ ~Narrow!Parses(o) =>
                           (Narrow!Contains(s, o) <=> s.level = "node")
    BY DEF Narrow!ContainsIsInclusion
  <2> HIDE DEF s
  <2>2. Narrow!WellFormed(s) /\ Narrow!WellFormed(o) => (Narrow!Contains(s, o) <=> Narrow!Reach(o) \subseteq Narrow!Reach(s))
    BY <2>1, ContainedIsReached, ReachedIsContained
  <2>3. o.level = "resource" /\ ~Narrow!Parses(o) => (Narrow!Contains(s, o) <=> s.level = "node")
    BY DEF Narrow!Contains
  <2> QED BY <2>2, <2>3
<1> HIDE DEF Chain
<1> QED BY <1>1, <1>2, <1>3, PTL DEF Narrow!Spec
=============================================================================
