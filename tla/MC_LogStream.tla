---------------------------- MODULE MC_LogStream ----------------------------
(***************************************************************************)
(* The stream over an atomic cursor (LogStream), and the file and lock     *)
(* that stand for that cursor, with the unread reads that share them       *)
(* (UnreadLog), on small instances.  They are explored one at a time:      *)
(* `scene` says which.                                                     *)
(***************************************************************************)
EXTENDS LogStream, UnreadLog, TLC

VARIABLE scene

MCInit == Init /\ UnreadInit /\ scene \in {"stream", "cursors"}

MCNext ==
    \/ scene = "stream" /\ Next /\ UNCHANGED <<unreadVars, scene>>
    \/ scene = "cursors" /\ UnreadNext /\ UNCHANGED <<vars, scene>>

MCSpec == MCInit /\ [][MCNext]_<<vars, unreadVars, scene>>

\* The stream alone, under its fairness.
LiveInit == MCInit /\ scene = "stream"
LiveSpec == LiveInit /\ [][MCNext]_<<vars, unreadVars, scene>> /\ Fairness

\* Readers are the same two processes as Procs.
Symmetry == Permutations(Procs)
=============================================================================
