------------------------------ MODULE Narrowing ------------------------------
(***************************************************************************)
(* Scope containment against what it is for.  `Reach' says, level by       *)
(* level, what a role held at a scope can touch: the node, workspaces,     *)
(* apps, addresses.  A role is handed on, each time at a scope the last    *)
(* one contains, as verify_chain demands of every link.                    *)
(***************************************************************************)
EXTENDS Policy

CONSTANTS ScopeSet,         \* scopes a role may be held at
          Address,          \* addresses there are to reach
          Workspace,        \* workspace ids there are to reach
          App,              \* <<workspace, app>> pairs there are to reach
          MaxLinks          \* bound: links of a chain

\* What the constants have to be: what there is to reach has all that the scopes
\* name, and every address one segment below a subtree
NarrowingConstants ==
  /\ MaxLinks \in Nat \ {0} /\ \E x, y \in ValidId : x # y
  /\ \A s \in ScopeSet :
       /\ s.level \in {"node", "workspace", "app", "resource"}
       /\ s.level = "workspace" => s.ws \in Workspace
       /\ s.level = "app" => <<s.ws, s.app>> \in App
       /\ s.level = "resource" /\ Parses(s) =>
            /\ s.path \in Seq(ValidId)
            /\ s.form = "exact" => s.path \in Address
            /\ s.form = "subtree" => \A x \in ValidId : Append(s.path, x) \in Address

VARIABLE held               \* the scopes of a chain, root first
vars == <<held>>

Init == held \in {<<s>> : s \in ScopeSet}

Narrow(s) ==
  /\ Len(held) < MaxLinks
  /\ Contains(held[Len(held)], s)
  /\ held' = Append(held, s)

Next == \E s \in ScopeSet : Narrow(s)

Spec == Init /\ [][Next]_vars

-----------------------------------------------------------------------------
\* What a scope reaches, by the rustdoc of Scope and ResourceScope
Reach(s) ==
  CASE s.level = "node" -> {<<"node">>} \cup {<<"ws", w>> : w \in Workspace}
                            \cup {<<"app", a>> : a \in App} \cup {<<"at", p>> : p \in Address}
    [] s.level = "workspace" -> {<<"ws", s.ws>>} \cup {<<"app", a>> : a \in {b \in App : b[1] = s.ws}}
                            \cup {<<"at", p>> : p \in {q \in Address : q[1] = s.ws}}
    [] s.level = "app" -> {<<"app", <<s.ws, s.app>>>>}
    [] s.level = "resource" /\ Parses(s) -> {<<"at", p>> : p \in {q \in Address : Covers(s, q)}}
    [] OTHER -> {}

TypeOK == held \in Seq(ScopeSet) /\ Len(held) \in 1..MaxLinks

\* "Whether every address this scope covers includes every address `other`
\* covers", at every level: contains is inclusion of what is reached, for all
\* well-formed scopes; an address that does not parse is under the node only.
ContainsIsInclusion ==
  LET s == held[Len(held)] IN
  \A other \in ScopeSet :
    /\ WellFormed(s) /\ WellFormed(other) =>
         (Contains(s, other) <=> Reach(other) \subseteq Reach(s))
    /\ other.level = "resource" /\ ~Parses(other) =>
         (Contains(s, other) <=> s.level = "node")

\* Handing a role on any number of times never adds anything to its reach.
ReachShrinks ==
  \A i, j \in DOMAIN held : i <= j => Reach(held[j]) \subseteq Reach(held[i])

\* Contains is inclusion of what is reached, for all scopes; and handing a role on
\* never adds to its reach.
ScopesNarrow == ContainsIsInclusion /\ ReachShrinks
=============================================================================
