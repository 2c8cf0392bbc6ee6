------------------------------ MODULE CircBuffer ------------------------------
(***************************************************************************)
(* The ring of a driver (user/include/util/circbuffer.h), an item at a     *)
(* time.  The start is brought back into the array only by the read that   *)
(* follows: a ring read to its end starts at Size.                         *)
(***************************************************************************)
EXTENDS Naturals

CONSTANT Size

EmptyRing(item) == [items |-> [i \in 0 .. Size - 1 |-> item], start |-> 0, length |-> 0]

IsFull(b) == b.length = Size
IsEmpty(b) == b.length = 0

\* The place of the n-th item after the start, from 0.
Place(b, n) == LET i == b.start + n IN IF i >= Size THEN i - Size ELSE i
WrittenAt(b) == Place(b, b.length)

\* write, of one item: an item that finds the ring full is dropped.
Written(b, item) ==
    IF IsFull(b) THEN b
    ELSE [b EXCEPT !.items[WrittenAt(b)] = item, !.length = @ + 1]

\* read, of one item
First(b) == Place(b, 0)
ItemRead(b) == b.items[First(b)]
AfterRead(b) == [b EXCEPT !.start = First(b) + 1, !.length = @ - 1]

\* What is inside, oldest first.
Contents(b) == [n \in 1 .. b.length |-> b.items[Place(b, n - 1)]]
===============================================================================
