------------------------------ MODULE RplStack ------------------------------
(***************************************************************************)
(* What the commands of an RPL calculator do to its stack, by their stack  *)
(* diagrams; level 1 is the first of the sequence.  A command that cannot  *)
(* be carried out leaves the stack as it is.                               *)
(***************************************************************************)
EXTENDS Naturals, Sequences

CONSTANT Objects      \* [type, val]

VARIABLE levels

\* For n levels there come others.
Become(n, others) == levels' = others \o SubSeq(levels, n + 1, Len(levels))
Refused == UNCHANGED levels

Push(o) == Become(0, <<o>>)

\* What a command looks at, takes, and leaves, whatever the objects are.
Diagrams == {"SWAP", "DROP", "DROP2", "DUP", "DUPDUP", "DUP2", "OVER", "PICK3", "ROT"}
Reach(c) == CASE c \in {"DROP", "DUP", "DUPDUP"} -> 1
              [] c \in {"SWAP", "DROP2", "DUP2", "OVER"} -> 2
              [] c \in {"PICK3", "ROT"} -> 3
Taken(c) == IF c \in {"SWAP", "DROP", "DROP2", "ROT"} THEN Reach(c) ELSE 0
Left(c) ==
    CASE c = "SWAP" -> <<levels[2], levels[1]>>
      [] c \in {"DROP", "DROP2"} -> <<>>
      [] c = "DUP" -> <<levels[1]>>
      [] c = "DUPDUP" -> <<levels[1], levels[1]>>
      [] c = "DUP2" -> <<levels[1], levels[2]>>
      [] c = "OVER" -> <<levels[2]>>
      [] c = "PICK3" -> <<levels[3]>>
      [] c = "ROT" -> <<levels[3], levels[1], levels[2]>>

\* Commands that take a number n from level 1, and what is under it then reach down to
\* level n: 2 DUPN is DUP2, 3 PICK is PICK3, 3 ROLL is ROT.  Nothing but the number goes if
\* it is 0 or less.  Reaching d, the last level, is a parameter: a calculator may count
\* otherwise.
Counted == {"DROPN", "DUPN", "PICK", "ROLL", "ROLLD"}
Under == Tail(levels)
Moves(c, d) == IF c \in {"DROPN", "ROLL", "ROLLD"} THEN d ELSE 0     \* levels under the number
LeftBy(c, n, d) ==
    CASE c = "DROPN" -> <<>>
      [] c = "DUPN" -> SubSeq(Under, d - n + 1, d)
      [] c = "PICK" -> <<Under[d]>>
      [] c = "ROLL" -> <<Under[d]>> \o SubSeq(Under, 1, d - 1)
      [] c = "ROLLD" -> Append(SubSeq(Under, 2, d), Under[1])
Reaches(c, n, d) ==
    IF n <= 0 THEN Become(1, <<>>)
    ELSE IF Len(Under) >= d THEN Become(1 + Moves(c, d), LeftBy(c, n, d)) ELSE Refused

Computes(n) == Len(levels) >= n /\ \E o \in Objects : Become(n, <<o>>)

\* Counted commands reach deeper by so many levels.
Command(c, deeper) ==
    CASE c \in Diagrams ->
            IF Len(levels) >= Reach(c) THEN Become(Taken(c), Left(c)) ELSE Refused
      [] c \in Counted ->
            IF levels # <<>> /\ levels[1].type = "real"
            THEN Reaches(c, levels[1].val, levels[1].val + deeper) ELSE Refused
      [] OTHER -> Refused \/ Computes(IF c \in {"NEG", "NOT"} THEN 1 ELSE 2)
=============================================================================
