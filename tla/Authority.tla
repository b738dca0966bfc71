------------------------------ MODULE Authority ------------------------------
(***************************************************************************)
(* Who may do what on one node.  Desktops claim the node, are invited to   *)
(* it, reconnect, and delegate their tokens among themselves without       *)
(* asking; the node revokes by id, time passes.  Every handler of the node *)
(* runs alone on its accept loop, so each is one action here; NodeStore    *)
(* opens them up into their separate writes.                               *)
(*                                                                         *)
(* The node is stateless about delegations: it sees a chain when it is     *)
(* presented and decides from the chain alone.  `lawful' is the history it *)
(* cannot see: the tokens that came about the way they should have.        *)
(***************************************************************************)
EXTENDS TokenChain

CONSTANTS Node,             \* the node's DID
          Desktop,          \* the desktops' DIDs
          RoleName,         \* role names an inviter may ask for
          ScopeSet,         \* scopes a desktop may name
          Ttl,              \* CLAIM_TTL, in ticks of the clock
          Lifetime,         \* how long a delegation may be given to live
          MaxTime,          \* bound: ticks of the clock
          Nonce,            \* nonces of invite tickets (their number is a bound)
          MaxTokens         \* bound: grants and delegations ever minted

ASSUME AuthorityAssumption ==
  /\ Node \notin Desktop
  /\ Ttl \in Nat /\ MaxTime \in Nat /\ MaxTokens \in Nat
  /\ Lifetime \subseteq Nat
  /\ NodeScope \in ScopeSet
  /\ \A s \in ScopeSet : s.level \in {"node", "workspace", "app", "resource"}

VARIABLES now,              \* the wall clock both sides read
          nextId,           \* the next unused token id
          tokens,           \* every token ever minted
          admins,           \* users/<did>/relationship
          revoked,          \* revoked/<id>
          invites,          \* every ticket ever minted
          redeemed,         \* invites/<nonce>
          lawful            \* history: tokens each link of which was granted
vars == <<now, nextId, tokens, admins, revoked, invites, redeemed, lawful>>

Init ==
  /\ now = 0 /\ nextId = 1
  /\ tokens = {} /\ admins = {} /\ revoked = {}
  /\ invites = {} /\ redeemed = {} /\ lawful = {}

\* Mutant: the nonce does not move on, so two grants may have one id
MintAgain(token, isLawful) ==
  /\ tokens' = tokens \cup {token}
  /\ lawful' = IF isLawful THEN lawful \cup {token} ELSE lawful
  /\ UNCHANGED nextId

Mint(token, isLawful) ==
  /\ nextId <= MaxTokens
  /\ nextId' = nextId + 1
  /\ tokens' = tokens \cup {token}
  /\ lawful' = IF isLawful THEN lawful \cup {token} ELSE lawful

\* issue_claim_token
ClaimToken(d) == IssueRoot(Node, d, "owner", NodeScope, TRUE, now + Ttl, nextId)

\* The claimant's statement about its keys, which desktop_start_claim and
\* desktop_start_invite_claim sign at some moment before it is presented.  It
\* is no grant of the node's: id 0, and no member of `tokens'.
Attestation(d, signedAt) == Attest(d, Node, signedAt + Ttl, 0)

\* node_accept_claim and accept_claim: the first claimant, and no other
AcceptClaim(d, signedAt) ==
  /\ admins = {}
  /\ VerifyChain(Attestation(d, signedAt), d, Node, now, {})
  /\ Mint(ClaimToken(d), TRUE)
  /\ admins' = admins \cup {d}
  /\ UNCHANGED <<now, revoked, invites, redeemed>>

\* node_accept_reconnect: a known admin with any token of its own that still
\* verifies is handed a fresh flat one (the challenge is NodeStore's)
AcceptReconnect(d, token) ==
  /\ d \in admins
  /\ VerifyChain(token, Node, d, now, revoked)
  /\ Mint(ClaimToken(d), TRUE)
  /\ UNCHANGED <<now, admins, revoked, invites, redeemed>>

\* issue_invite_ticket
IssueInvite(d, token, role, scope, public, nonce) ==
  /\ \A i \in invites : i.nonce # nonce
  /\ Authorize(token, Node, d, "MemberInvite", scope, now, revoked)
  /\ ~RoleCouldGainCapability(role, scope)
  /\ invites' = invites \cup
       {[nonce |-> nonce, role |-> role, scope |-> scope, public |-> public]}
  /\ UNCHANGED <<now, nextId, tokens, admins, revoked, redeemed, lawful>>

\* node_accept_invite: a public ticket is never spent
AcceptInvite(d, invite, signedAt) ==
  /\ invite.nonce \notin redeemed
  /\ VerifyChain(Attestation(d, signedAt), d, Node, now, {})
  /\ Mint(IssueRoot(Node, d, invite.role, invite.scope, TRUE, now + Ttl, nextId), TRUE)
  /\ redeemed' = IF invite.public THEN redeemed ELSE redeemed \cup {invite.nonce}
  /\ UNCHANGED <<now, admins, revoked, invites>>

\* token::delegate: minted by any holder, of any token, to anyone, unchecked
Delegate(d, parent, aud, scope, delegable, exp) ==
  /\ Mint(DelegateToken(parent, d, aud, scope, delegable, exp, nextId),
          /\ parent \in lawful
          /\ Leaf(parent).aud = d
          /\ Leaf(parent).delegable
          /\ Contains(Leaf(parent).scope, scope))
  /\ UNCHANGED <<now, admins, revoked, invites, redeemed>>

\* revoke: by id, whether or not the node ever saw the token
Revoke(id) ==
  /\ revoked' = revoked \cup {id}
  /\ UNCHANGED <<now, nextId, tokens, admins, invites, redeemed, lawful>>

Tick ==
  /\ now < MaxTime
  /\ now' = now + 1
  /\ UNCHANGED <<nextId, tokens, admins, revoked, invites, redeemed, lawful>>

Next ==
  \/ \E d \in Desktop :
       \/ \E signedAt \in 0..now : AcceptClaim(d, signedAt)
       \/ \E t \in tokens : AcceptReconnect(d, t)
       \/ \E t \in tokens, r \in RoleName, s \in ScopeSet, p \in BOOLEAN, n \in Nonce :
            IssueInvite(d, t, r, s, p, n)
       \/ \E i \in invites, signedAt \in 0..now : AcceptInvite(d, i, signedAt)
       \/ \E t \in tokens, aud \in Desktop, s \in ScopeSet, g \in BOOLEAN, e \in Lifetime :
            Delegate(d, t, aud, s, g, now + e)
  \/ \E id \in 1..(nextId - 1) : Revoke(id)
  \/ Tick

Spec == Init /\ [][Next]_vars

-----------------------------------------------------------------------------
\* Only the links' shape: the bound variables' ranges, for the proofs
Link == [id : 1..MaxTokens, iss : Desktop \cup {Node}, aud : Desktop \cup {Node},
         sub : Desktop \cup {Node}, role : RoleName \cup {"owner", "relationship"},
         scope : ScopeSet, delegable : BOOLEAN, exp : Nat, sig : Desktop \cup {Node}]

\* Every variable has its type, and ids are used once.
TypeOK ==
  /\ now \in Nat /\ nextId \in Nat \ {0}
  /\ tokens \subseteq Seq(Link) \ {<<>>} /\ lawful \subseteq tokens
  /\ \A t \in tokens : \A i \in DOMAIN t : t[i].id < nextId
  /\ admins \subseteq Desktop
  /\ revoked \subseteq Nat /\ redeemed \subseteq Nonce
  /\ invites \subseteq [nonce : Nonce, role : RoleName, scope : ScopeSet, public : BOOLEAN]

\* The attestations a desktop may have signed by now
Attestations == {Attestation(d, signedAt) : d \in Desktop, signedAt \in 0..now}

Accepted(t, d) == VerifyChain(t, Node, d, now, revoked)

\* The stateless check of a presented chain accepts exactly the lawful tokens
\* that are shown by their holder, short enough, current and unrevoked in every
\* link: verify_chain neither takes a statement about keys for a grant, admits
\* a token some holder had no right to mint, nor refuses one all had a right to.
ChainCheckIsExact ==
  /\ \A t \in tokens, d \in Desktop :
       Accepted(t, d) <=>
         /\ t \in lawful
         /\ Leaf(t).aud = d
         /\ Len(t) <= MaxChain
         /\ \A i \in DOMAIN t : now < t[i].exp /\ t[i].id \notin revoked
  /\ \A t \in Attestations : ~Accepted(t, Node)

\* However far a token was delegated, what it reaches its root grant reached:
\* membership of a chain is membership of the node's own grant at its end.
ReachNeverWidens ==
  \A t \in tokens, d \in Desktop : Accepted(t, d) =>
    \A target \in ScopeSet :
      Membership(t, Node, d, target, now, revoked) => Contains(Root(t).scope, target)

\* Every platform capability ever exercised on the node traces back to a grant
\* the node made to its one claimant: no invite, and nothing delegated from an
\* invite at any scope, carries one (role_could_gain_capability).
PowerTracesToClaimant ==
  \A t \in tokens, d \in Desktop : Accepted(t, d) /\ Root(t).aud \notin admins =>
    \A c \in Capability, target \in ScopeSet :
      ~Authorize(t, Node, d, c, target, now, revoked)
=============================================================================
