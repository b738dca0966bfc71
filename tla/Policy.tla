------------------------------- MODULE Policy -------------------------------
(***************************************************************************)
(* Scopes and the platform capability table: the levels a role is held at, *)
(* when a scope reaches another, and what a role name is worth.            *)
(*                                                                         *)
(* A scope is a record tagged with its level.  A resource address is the   *)
(* sequence of its segments after "ws" (workspace first, at least two), so *)
(* the string prefix "base/" is the proper prefix relation on sequences.   *)
(***************************************************************************)
EXTENDS Naturals, Sequences

CONSTANT ValidId            \* the identifiers valid_segment admits

NodeScope == [level |-> "node"]
WsScope(ws) == [level |-> "workspace", ws |-> ws]
AppScope(ws, app) == [level |-> "app", ws |-> ws, app |-> app]
\* form is "exact", "subtree" (a trailing "/*") or "invalid" (does not parse)
ResScope(form, path) == [level |-> "resource", form |-> form, path |-> path]

\* ResourceScope::parse succeeds
Parses(s) == /\ s.form \in {"exact", "subtree"}
             /\ Len(s.path) >= 2
             /\ \A i \in DOMAIN s.path : s.path[i] \in ValidId

\* path lies strictly below base: strip_prefix leaves a rest that starts with "/"
Below(base, path) == /\ Len(base) < Len(path)
                     /\ \A i \in 1..Len(base) : path[i] = base[i]

\* ResourceScope::covers, of an address
Covers(s, path) == \/ s.form = "exact" /\ s.path = path
                   \/ s.form = "subtree" /\ Below(s.path, path)

\* Mutant: the two forms are told apart for the scope asked about only
ResourceContainsAnyBase(s, other) ==
  \/ other.form = "exact" /\ Covers(s, other.path)
  \/ other.form = "subtree" /\ (s.path = other.path \/ Covers(s, other.path))

\* ResourceScope::contains, of a parsed scope
ResourceContains(s, other) ==
  \/ other.form = "exact" /\ Covers(s, other.path)
  \/ /\ other.form = "subtree" /\ s.form = "subtree"
     /\ s.path = other.path \/ Covers(s, other.path)

\* Scope::contains: levels nest downward, never sideways
Contains(s, other) ==
  \/ s.level = "node"
  \/ s.level = "workspace" /\ other.level \in {"workspace", "app"} /\ s.ws = other.ws
  \/ /\ s.level = "workspace" /\ other.level = "resource"
     /\ Parses(other) /\ other.path[1] = s.ws
  \/ s.level = "app" /\ other.level = "app" /\ s.ws = other.ws /\ s.app = other.app
  \/ /\ s.level = "resource" /\ other.level = "resource"
     /\ Parses(s) /\ Parses(other) /\ ResourceContains(s, other)

\* well_formed: a target the caller supplies is checked before it is compared
WellFormed(s) ==
  \/ s.level = "node"
  \/ s.level = "workspace" /\ s.ws \in ValidId
  \/ s.level = "app" /\ s.ws \in ValidId /\ s.app \in ValidId
  \/ s.level = "resource" /\ Parses(s)

-----------------------------------------------------------------------------
InWorkspace == {"AppInstall", "AppRemove", "NamespaceDeclare",
                "PolicyPublish", "MemberInvite", "RoleAssign"}
Capability == InWorkspace \cup {"WorkspaceCreate", "WorkspaceDelete"}

\* platform_capabilities: any role and level the table does not name has none
PlatformCapabilities(role, s) ==
  CASE s.level = "node" /\ role = "owner" -> Capability
    [] s.level = "node" /\ role = "admin" -> {"WorkspaceCreate", "RoleAssign"}
    [] s.level = "workspace" /\ role = "owner" -> InWorkspace \cup {"WorkspaceDelete"}
    [] s.level = "workspace" /\ role = "maintainer" -> InWorkspace
    [] OTHER -> {}

\* Mutant: the literal cell alone
RoleHasCapability(role, s) == PlatformCapabilities(role, s) # {}

\* role_could_gain_capability: the literal cell and, at node scope, the
\* workspace cell a holder could narrow into.  The probe's id is the empty
\* string, of which the table reads only the level.
RoleCouldGainCapability(role, s) ==
  \/ PlatformCapabilities(role, s) # {}
  \/ s.level = "node" /\ PlatformCapabilities(role, WsScope("")) # {}
=============================================================================
