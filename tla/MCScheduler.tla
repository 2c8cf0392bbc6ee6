----------------------------- MODULE MCScheduler -----------------------------
(* Instances of Scheduler for TLC. *)
EXTENDS Scheduler

CONSTANTS t1, t2, t3, t4

\* Applications have the default priority and the system thread the highest one:
\* the same ring.  One thread of priority zero.
TwoRings == [t \in Threads |-> IF t = t1 THEN 0 ELSE IF t = t2 THEN 5 ELSE 2]

\* Bound: a behaviour is not followed once a tick has strayed.
NotStrayed == ~strayed
==============================================================================
