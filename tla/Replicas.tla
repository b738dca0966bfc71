------------------------------ MODULE Replicas ------------------------------
(***************************************************************************)
(* What replication of documents promises, and nothing of how: an edit is  *)
(* made once, replicas learn edits that were made, and a replica never     *)
(* forgets.  Sync implements this with its vaults and the node's layers.   *)
(***************************************************************************)
CONSTANTS Edit, Replica

VARIABLES made,             \* the edits ever made
          durable           \* the edits each replica has stored
vars == <<made, durable>>

Init == made = {} /\ durable = [r \in Replica |-> {}]

Make(e) ==
  /\ e \notin made
  /\ made' = made \cup {e}

Learn(r, edits) == durable' = [durable EXCEPT ![r] = @ \cup edits]

\* A step may make an edit and store some at one replica
Next ==
  /\ UNCHANGED made \/ \E e \in Edit : Make(e)
  /\ UNCHANGED durable \/ \E r \in Replica, edits \in SUBSET made' : Learn(r, edits)

Spec == Init /\ [][Next]_vars
=============================================================================
