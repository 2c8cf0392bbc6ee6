----------------------------- MODULE LineEditor -----------------------------
(***************************************************************************)
(* What a user may expect of an input field: the characters before the     *)
(* cursor and those after it.                                              *)
(***************************************************************************)
EXTENDS Integers, Sequences, SequencesExt

VARIABLES before, after

Type(s) == before' = before \o s /\ after' = after

\* Two halves of a text with the cursor between them.
TypeAround(s, n) ==
    /\ before' = before \o SubSeq(s, 1, Len(s) - n)
    /\ after' = SubSeq(s, Len(s) - n + 1, Len(s)) \o after

MoveLeft ==
    IF before = <<>> THEN UNCHANGED <<before, after>>
    ELSE before' = Front(before) /\ after' = <<Last(before)>> \o after
MoveRight ==
    IF after = <<>> THEN UNCHANGED <<before, after>>
    ELSE before' = Append(before, Head(after)) /\ after' = Tail(after)

EraseLeft == before' = (IF before = <<>> THEN <<>> ELSE Front(before)) /\ after' = after
EraseRight == after' = (IF after = <<>> THEN <<>> ELSE Tail(after)) /\ before' = before

\* The character typed last is another one instead.
Retype(c) == before' = Append(IF before = <<>> THEN <<>> ELSE Front(before), c) /\ after' = after

\* A word that is set apart by blanks, the one that follows included.
TypeApart(s, blank) ==
    LET word == (IF before = <<>> \/ Last(before) = blank THEN <<>> ELSE <<blank>>) \o s
    IN  IF after = <<>> THEN before' = before \o word /\ after' = after
        ELSE /\ before' = before \o word \o <<blank>>
             /\ after' = IF Head(after) = blank THEN Tail(after) ELSE after

Clear == before' = <<>> /\ after' = <<>>
Stay == before' = before /\ after' = after
=============================================================================
