---------------------------- MODULE MC_StreamLease ----------------------------
(* Small instances of StreamLease for TLC.                                 *)
EXTENDS StreamLease

=============================================================================
