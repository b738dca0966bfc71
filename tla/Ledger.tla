------------------------------- MODULE Ledger -------------------------------
(***************************************************************************)
(* What a node promises about the tokens it grants, and nothing of how: no *)
(* store, no crash, no request.  A node has one claimant; each reason to   *)
(* grant is good for one token, but for the public invites; and a token is *)
(* granted, on the record, before anyone is handed it.  NodeStore          *)
(* implements this.                                                        *)
(*                                                                         *)
(* A reason is a pair: <<"claim", 0>>, <<"invite", nonce>> or              *)
(* <<"reconnect", challenge>>.                                             *)
(***************************************************************************)
CONSTANTS Desktop, Public, Token

VARIABLES claimant,         \* who claimed the node
          spent,            \* single-use invites that are used up
          granted,          \* tokens on the record
          handed            \* tokens somebody holds
vars == <<claimant, spent, granted, handed>>

OneShot(why) == ~(why[1] = "invite" /\ why[2] \in Public)

Init == claimant = {} /\ spent = {} /\ granted = {} /\ handed = {}

Claim(d) ==
  /\ claimant = {}
  /\ claimant' = {d}
  /\ UNCHANGED <<spent, granted, handed>>

Spend(n) ==
  /\ n \notin Public
  /\ spent' = spent \cup {n}
  /\ UNCHANGED <<claimant, granted, handed>>

Grant(t) ==
  /\ OneShot(t.why) => \A u \in granted : u.why # t.why
  /\ t.why[1] \in {"claim", "reconnect"} => t.holder \in claimant
  /\ t.why[1] = "invite" /\ OneShot(t.why) => t.why[2] \in spent
  /\ granted' = granted \cup {t}
  /\ UNCHANGED <<claimant, spent, handed>>

HandOut(t) ==
  /\ t \in granted
  /\ handed' = handed \cup {t}
  /\ UNCHANGED <<claimant, spent, granted>>

Next ==
  \/ \E d \in Desktop : Claim(d)
  \/ \E t \in Token : t.why[1] = "invite" /\ Spend(t.why[2])
  \/ \E t \in Token : Grant(t) \/ HandOut(t)

Spec == Init /\ [][Next]_vars
=============================================================================
