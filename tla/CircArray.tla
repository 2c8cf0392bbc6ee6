------------------------------ MODULE CircArray ------------------------------
(***************************************************************************)
(* A ring in an array (util/circarray.h).  An operation that walks through *)
(* the array is given by what the walk leaves behind.                      *)
(***************************************************************************)
EXTENDS Integers, Sequences

CONSTANTS Size,    \* slots of the array
          NONE     \* the value of a slot that was never used, or cleared: T()

Indices == 0 .. Size - 1

Empty == [items |-> [k \in Indices |-> NONE], start |-> 0, length |-> 0]

\* The slot of the item at i; one step on and back.
Slot(r, i) == (r.start + i) % Size
Next(k) == (k + 1) % Size
Prev(k) == (k - 1) % Size

At(r, i) == r.items[Slot(r, i)]
SetAt(r, i, object) == [r EXCEPT !.items[Slot(r, i)] = object]
Contents(r) == [n \in 1 .. r.length |-> At(r, n - 1)]

Front(r) == At(r, 0)
Back(r) == At(r, r.length - 1)

PushFront(r, object) ==
    [r EXCEPT !.items[Prev(r.start)] = object, !.start = Prev(@), !.length = @ + 1]
PushBack(r, object) ==
    [r EXCEPT !.items[Slot(r, r.length)] = object, !.length = @ + 1]
RemoveFront(r) ==
    [r EXCEPT !.items[r.start] = NONE, !.start = Next(@), !.length = @ - 1]
RemoveBack(r) ==
    [r EXCEPT !.items[Slot(r, r.length - 1)] = NONE, !.length = @ - 1]

\* The items from the front to i move to the front, or those from i to the end move
\* to the back.  The first of the two includes the item at i itself: the new one
\* comes behind it.
InFrontHalf(r, i) == i < r.length \div 2

InsertAt(r, i, object) ==
    LET moved == IF InFrontHalf(r, i)
                 THEN [k \in 0 .. i |-> Prev(Slot(r, k))]
                 ELSE [k \in i .. r.length - 1 |-> Next(Slot(r, k))]
        target(s) == {k \in DOMAIN moved : moved[k] = s}
        start == IF InFrontHalf(r, i) THEN Prev(r.start) ELSE r.start
    IN  [items |-> [s \in Indices |->
                      IF s = Slot(r, i) THEN object
                      ELSE IF target(s) # {} THEN At(r, CHOOSE k \in target(s) : TRUE)
                      ELSE r.items[s]],
         start |-> start, length |-> r.length + 1]

\* Going back from slot 0 the walk visits items[size], which is the field "start".
Overruns(r, i) == InFrontHalf(r, i) /\ r.start + i >= Size

RemoveAt(r, i) ==
    LET front == InFrontHalf(r, i)
        moved == IF front THEN [k \in 0 .. i - 1 |-> Next(Slot(r, k))]
                 ELSE [k \in i + 1 .. r.length - 1 |-> Prev(Slot(r, k))]
        target(s) == {k \in DOMAIN moved : moved[k] = s}
        cleared == IF front THEN r.start ELSE Slot(r, r.length - 1)
    IN  [items |-> [s \in Indices |->
                      IF s = cleared THEN NONE
                      ELSE IF target(s) # {} THEN At(r, CHOOSE k \in target(s) : TRUE)
                      ELSE r.items[s]],
         start |-> IF front THEN Next(r.start) ELSE r.start, length |-> r.length - 1]

FindIndexOf(r, object) ==
    LET found == {i \in 0 .. r.length - 1 : At(r, i) = object}
    IN  IF found = {} THEN -1 ELSE CHOOSE i \in found : \A j \in found : i <= j
=============================================================================
