---------------------------- MODULE MC_SeatStore ----------------------------
(***************************************************************************)
(* Three pids: a holder, a waiter and one that takes over.                 *)
(***************************************************************************)
EXTENDS SeatStore, TLC
CONSTANTS p1, p2, p3
==============================================================================
