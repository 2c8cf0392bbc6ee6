--------------------------- MODULE MCCriticalSection ---------------------------
(* Instances of CriticalSection for TLC. *)
EXTENDS CriticalSection, TLC

CONSTANTS t1, t2, t3, s1, s2

\* The threads are alike.
Symmetry == Permutations(Threads)
===============================================================================
