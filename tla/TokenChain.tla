----------------------------- MODULE TokenChain -----------------------------
(***************************************************************************)
(* Role tokens and the check the node makes of them.  A token carries its  *)
(* parent inside its signed payload, so a token is the sequence of its     *)
(* links, leaf first; `id' is the hash of a link's payload (which a fresh  *)
(* nonce makes unique) and names the grant for revocation.  `sig' is who   *)
(* signed the payload.                                                     *)
(***************************************************************************)
EXTENDS Policy

CONSTANT MaxChain           \* MAX_CHAIN
ASSUME MaxChainAssumption == MaxChain \in Nat \ {0}

Leaf(token) == token[1]
Root(token) == token[Len(token)]

\* The checks verify_chain makes of one link, whatever its place.  What the
\* error of a failed check is called is left out: a refusal changes nothing.
LinkStands(link, root, now, revoked) ==
  /\ link.sig = link.iss                 \* else BadSignature
  /\ link.sub = root                     \* else NodeMismatch
  /\ now < link.exp                      \* else Expired
  /\ link.id \notin revoked              \* else Revoked

\* Mutant: the parent's delegable flag is not read
PairStandsUndelegable(child, parent) ==
  child.iss = parent.aud /\ child.role = parent.role /\ Contains(parent.scope, child.scope)

\* Mutant: only the role is compared for escalation
PairStandsAnyScope(child, parent) ==
  child.iss = parent.aud /\ parent.delegable /\ child.role = parent.role

\* The checks it makes of a link against its parent
PairStands(child, parent) ==
  /\ child.iss = parent.aud              \* else BrokenChain
  /\ parent.delegable                    \* else NotDelegable
  /\ child.role = parent.role            \* else Escalation
  /\ Contains(parent.scope, child.scope)

\* verify_chain answers Ok
VerifyChain(token, root, holder, now, revoked) ==
  /\ Len(token) <= MaxChain              \* else ChainTooLong
  /\ \A i \in DOMAIN token : LinkStands(token[i], root, now, revoked)
  /\ \A i \in 1..(Len(token) - 1) : PairStands(token[i], token[i + 1])
  /\ Root(token).iss = Root(token).sub   \* else BrokenChain
  /\ Leaf(token).aud = holder            \* else WrongHolder

\* policy::membership answers Ok
Membership(token, node, holder, target, now, revoked) ==
  /\ WellFormed(target)                  \* else BadScope
  /\ VerifyChain(token, node, holder, now, revoked)
  /\ Contains(Leaf(token).scope, target) \* else OutOfScope

\* policy::authorize answers Ok
Authorize(token, node, holder, capability, target, now, revoked) ==
  /\ Membership(token, node, holder, target, now, revoked)
  /\ capability \in PlatformCapabilities(Leaf(token).role, Leaf(token).scope)

\* token::issue_root: the issuer is its own subject
IssueRoot(issuer, aud, role, scope, delegable, exp, id) ==
  << [id |-> id, iss |-> issuer, aud |-> aud, sub |-> issuer, role |-> role,
      scope |-> scope, delegable |-> delegable, exp |-> exp, sig |-> issuer] >>

\* token::attest: a root token about its holder's keys, not delegable
Attest(holder, aud, exp, id) ==
  IssueRoot(holder, aud, "relationship", NodeScope, FALSE, exp, id)

\* token::delegate, unchecked: role and subject are the parent's
DelegateToken(parent, holder, aud, scope, delegable, exp, id) ==
  << [id |-> id, iss |-> holder, aud |-> aud, sub |-> Leaf(parent).sub,
      role |-> Leaf(parent).role, scope |-> scope, delegable |-> delegable,
      exp |-> exp, sig |-> holder] >> \o parent
=============================================================================
