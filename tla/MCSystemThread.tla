--------------------------- MODULE MCSystemThread ---------------------------
(* The system thread with two timers and one keyboard. *)
EXTENDS SystemThread
CONSTANTS t1, t2

OnlyKeyboard == <<"kbd">>
\* An application with two timers; one with a timer and keys, which may end.
TwoWorkloads ==
    {[sets |-> {<<t1, 2, TRUE>>, <<t2, 3, FALSE>>}, dies |-> FALSE, keys |-> FALSE],
     [sets |-> {t1} \X {2} \X BOOLEAN, dies |-> TRUE, keys |-> TRUE]}
=============================================================================
