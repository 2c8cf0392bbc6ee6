--------------------------- MODULE MCKeyboardDriver ---------------------------
(* Two readers, of which one blocks. *)
EXTENDS KeyboardDriver

CONSTANTS r1, r2, c1, c2
===============================================================================
