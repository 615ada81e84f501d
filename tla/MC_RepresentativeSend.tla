------------------------ MODULE MC_RepresentativeSend ------------------------
(***************************************************************************)
(* The representative's send and read tools, and the database they keep     *)
(* their state in, on small instances.  The tools' transactions are atomic  *)
(* because of what the database promises, and the ledger and the delivery   *)
(* rows share no table, so the three are explored one at a time: `scene`    *)
(* says which.                                                              *)
(***************************************************************************)
EXTENDS RepresentativeSend, RepresentativeDelivery, RepresentativeState, TLC

VARIABLE scene

MCInit ==
  /\ Init /\ DeliveryInit /\ StateInit
  /\ scene \in {"send", "read", "database"}
  /\ scene # "send" => selection = CHOOSE s \in Selections : TRUE
  /\ scene # "read" => delivery[boundGeneration].kind = "absent"

MCNext ==
  \/ scene = "send" /\ Next /\ UNCHANGED <<deliveryVars, stateVars, scene>>
  \/ scene = "read" /\ DeliveryNext /\ UNCHANGED <<vars, stateVars, scene>>
  \/ scene = "database" /\ StateNext /\ UNCHANGED <<vars, deliveryVars, scene>>

MCSpec == MCInit /\ [][MCNext]_<<vars, deliveryVars, stateVars, scene>>

\* Readers and DbProcs are the same two processes as Calls.
Symmetry == Permutations(Calls) \cup Permutations(Ids) \cup Permutations(Contents)
=============================================================================
