---------------------------- MODULE MCAuthority ----------------------------
(* A node and two desktops, in two scenes: `platform', with one workspace, *)
(* an app of it and an invite; `chains', with the node's scope alone, for  *)
(* chains longer than the node takes.  A third scene, `narrowing', has the *)
(* scopes on their own: two workspaces, and addresses one segment longer   *)
(* than the longest scope, so that every subtree has something in it.      *)
(* A behaviour is of one scene.                                            *)
EXTENDS Authority, TLC

VARIABLES scene, held

MCScopes == {NodeScope, WsScope("w"), AppScope("w", "a")}
DesktopSymmetry == Permutations(Desktop)

Platform == INSTANCE Authority WITH MaxTokens <- 3, Lifetime <- {2}
Chains == INSTANCE Authority WITH ScopeSet <- {NodeScope}, RoleName <- {}, Nonce <- {}, Lifetime <- {1}

Id == {"w", "v"}
Paths(lengths) == UNION {[1..n -> Id] : n \in lengths}
Narrow == INSTANCE Narrowing WITH
  ValidId <- Id, MaxLinks <- 3, Address <- Paths(2..5),
  Workspace <- Id \cup {"."}, App <- Id \X (Id \cup {"."}),
  ScopeSet <- {NodeScope} \cup {WsScope(w) : w \in Id \cup {"."}}
              \cup {AppScope(w, a) : w \in Id, a \in Id \cup {"."}}
              \cup {ResScope(f, p) : f \in {"exact", "subtree"}, p \in Paths(2..4)}
              \cup {ResScope("invalid", <<>>), ResScope("exact", <<"w", ".">>),
                    ResScope("subtree", <<"w">>)}
ASSUME Narrow!NarrowingConstants

MCInit ==
  /\ Init /\ scene \in {"platform", "chains", "narrowing"}
  /\ IF scene = "narrowing" THEN Narrow!Init ELSE held = <<NodeScope>>
MCNext ==
  \/ scene = "platform" /\ Platform!Next /\ UNCHANGED <<scene, held>>
  \/ scene = "chains" /\ Chains!Next /\ UNCHANGED <<scene, held>>
  \/ scene = "narrowing" /\ Narrow!Next /\ UNCHANGED <<scene, vars>>
MCSpec == MCInit /\ [][MCNext]_<<vars, scene, held>>

\* Narrowing: contains is inclusion of what is reached, for all scopes; and
\* handing a role on never adds to its reach
ScopesNarrow == scene = "narrowing" => Narrow!ScopesNarrow
=============================================================================
