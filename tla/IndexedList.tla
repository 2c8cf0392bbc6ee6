----------------------------- MODULE IndexedList -----------------------------
(***************************************************************************)
(* What util/list.h promises its users: a sequence with an index, and an   *)
(* iterator that goes through it and may change it where it stands.        *)
(***************************************************************************)
EXTENDS Integers, Sequences, SequencesExt

CONSTANTS NULL      \* the iterator is past the end

VARIABLES items,
          position  \* of the iterator, counted from 0

Insert(i, x) == items' = InsertAt(items, i + 1, x) /\ UNCHANGED position
Replace(i, x) == items' = [items EXCEPT ![i + 1] = x] /\ UNCHANGED position
RemoveIndex(i) == items' = RemoveAt(items, i + 1) /\ UNCHANGED position
Clear == items' = <<>> /\ UNCHANGED position

Point(p) ==
    /\ position' = IF p \in 0 .. Len(items) - 1 THEN p ELSE NULL
    /\ UNCHANGED items

\* The iterator then stands on the item that followed the one removed.
RemoveItem == /\ items' = RemoveAt(items, position + 1)
              /\ position' = IF position + 1 = Len(items) THEN NULL ELSE position
=============================================================================
