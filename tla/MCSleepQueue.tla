---------------------------- MODULE MCSleepQueue ----------------------------
(* Instances of SleepQueue for TLC. *)
EXTENDS SleepQueue

CONSTANTS t1, t2, t3
=============================================================================
