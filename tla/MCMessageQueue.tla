---------------------------- MODULE MCMessageQueue ----------------------------
(* Instances of MessageQueue for TLC. *)
EXTENDS MessageQueue, TLC

CONSTANTS s1, s2, r1, m1, m2

\* A message of its own for each sender, to tell their order.
ItsOwn == s1 :> {m1} @@ s2 :> {m2}
===============================================================================
