---------------------------- MODULE MCNodeStore ----------------------------
EXTENDS NodeStore, TLC
VARIABLE scene

Batches == {<<"a", "b">>, <<"a", "bad", "b">>, <<"b">>}
Grants == INSTANCE NodeStore WITH Batch <- {}, Item <- {}, BadKind <- {}, MaxBacklog <- 1
Publishes == INSTANCE NodeStore WITH Invite <- {}, Public <- {}, MaxTokens <- 1, MaxChallenges <- 0
DesktopSymmetry == Permutations(Desktop)

MCInit == Init /\ scene \in {"grants", "publishes"}
MCNext == \/ scene = "grants" /\ Grants!Next /\ UNCHANGED scene
          \/ scene = "publishes" /\ Publishes!Next /\ UNCHANGED scene
MCSpec == MCInit /\ [][MCNext]_<<vars, scene>>
=============================================================================
