---------------------------- MODULE MCCheckQueue ----------------------------
(* CheckQueue for TLC: the constants are given in the configurations. *)
EXTENDS CheckQueue
=============================================================================
