------------------------- MODULE MC_RepositoryCube -------------------------
(***************************************************************************)
(* The server client for TLC: two processes that run three commands of     *)
(* enrolment and repository cube between them, or two synchronisations of  *)
(* a cube's roles.  The two share no state and are explored one at a time: *)
(* `scene` says which.                                                     *)
(***************************************************************************)
EXTENDS RepositoryCube, RoleSync, TLC

VARIABLE scene

MCInit ==
    /\ Init /\ SyncInit
    /\ scene \in {"session", "roles"}
    /\ scene = "session" => ~ role /\ value["class"] = Missing
    /\ scene = "roles" => pointer = None

MCNext ==
    \/ scene = "session" /\ Next /\ UNCHANGED <<syncVars, scene>>
    \/ scene = "roles" /\ SyncNext /\ UNCHANGED <<vars, scene>>

MCSpec == MCInit /\ [][MCNext]_<<vars, syncVars, scene>>

\* Syncers are the same two processes as Procs.
Symmetry == Permutations(Procs) \cup Permutations(Evolved)
=============================================================================
