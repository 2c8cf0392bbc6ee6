---------------------------- MODULE MCWaitObjects ----------------------------
(* Instances of WaitObjects for TLC. *)
EXTENDS WaitObjects

CONSTANTS t1, t2, t3, e1, e2, e3
==============================================================================
