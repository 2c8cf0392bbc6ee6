------------------------------ MODULE BlockList ------------------------------
(***************************************************************************)
(* Lists (util/list.h): a circle of blocks, each a ring of up to BlockSize *)
(* + 1 items, and all but the last with at least BlockSize - 1; and the    *)
(* iterator a loop changes the list with.  The links of the circle are the *)
(* order of the sequence "blocks".                                         *)
(***************************************************************************)
EXTENDS Integers, Sequences, SequencesExt, FiniteSetsExt

CONSTANTS Items,
          NONE,         \* no item; the iterator is past the end
          BlockSize,    \* 8
          MaxLength     \* bound: items in the list

ASSUME ListAssumption == /\ BlockSize \in Nat \ {0, 1} /\ NONE \notin Items
                         /\ NONE \notin [block : Nat, i : Nat] /\ MaxLength \in Nat

VARIABLES blocks, length,
          cursor        \* an iterator: a block and an index in it

listVars == <<blocks, length, cursor>>

Ring == INSTANCE CircArray WITH Size <- BlockSize + 1, NONE <- NONE

ListInit == blocks = <<>> /\ length = 0 /\ cursor = NONE

LastBlock == Len(blocks)

-------------------------------------------------------------------------------
(* Places. *)

\* The items in the blocks from b to c, added up block by block.
Count(b, c) ==
    LET sum[n \in 0 .. LastBlock] == IF n < b THEN 0 ELSE sum[n - 1] + blocks[n].length
    IN  sum[c]

\* getLocation: counted from the nearer end.
FromFront(i) ==
    LET b == Min({c \in 1 .. LastBlock : i < Count(1, c)})
    IN  [block |-> b, i |-> i - Count(1, b - 1)]
FromBack(j) ==
    LET b == Max({c \in 1 .. LastBlock : j < Count(c, LastBlock)})
    IN  [block |-> b, i |-> blocks[b].length - 1 - (j - Count(b + 1, LastBlock))]
Location_SameEnd(i) == IF i < length \div 2 THEN FromFront(i) ELSE FromBack(i)  \* fault
Location(i) == IF i < length \div 2 THEN FromFront(i) ELSE FromBack(length - 1 - i)

GetAt(i) == LET p == Location(i) IN Ring!At(blocks[p.block], p.i)

\* How far the blocks from b on have this many items, no further than BlockSize.
Reach(b, full) ==
    Min({u \in b .. LastBlock : u = b + BlockSize \/ u = LastBlock \/ blocks[u].length # full})

\* There are too many such blocks: a block is put in between, or gathered.  The loops
\* that do it do not come to an end: they move on only from a block that is not
\* full, which there is no more after the first (line 147), or go round the circle
\* looking for one that is (line 107).
Spreads(b) == Reach(b, BlockSize + 1) = b + BlockSize /\ b + BlockSize < LastBlock
Gathers(b) == Reach(b, BlockSize - 1) = b + BlockSize /\ b + BlockSize < LastBlock

-------------------------------------------------------------------------------
(* The operations. *)

\* insertAt(i, lu, object): the first block that is not full, or a new one, takes an
\* item from its predecessor, and so on down to block b.
Passed(bs, c) == Ring!Back(bs[c])

InsertedAt(b, i, object) ==
    LET r == Reach(b, BlockSize + 1)
        full == blocks[r].length = BlockSize + 1
        bs == IF full THEN Append(blocks, Ring!Empty) ELSE blocks
        u == IF full THEN r + 1 ELSE r
        given(c) == IF b <= c /\ c < u THEN Ring!RemoveBack(bs[c]) ELSE bs[c]
        taken(c) == IF b < c /\ c <= u THEN Ring!PushFront(given(c), Passed(bs, c - 1))
                                       ELSE given(c)
    IN  [c \in 1 .. Len(bs) |->
           IF c = b THEN Ring!InsertAt(given(c), i, object) ELSE taken(c)]

\* The block an item is put into has room by then.  In its front half the new item comes
\* behind the one that is there (CircArray!InsertAt).
IntoFront(b, i) == i < Min({blocks[b].length, BlockSize}) \div 2

\* Neither is what a ring does when its walk overruns the array.
MayRemove(b, i) == ~Gathers(b) /\ ~Ring!Overruns(blocks[b], i)

\* removeAt(i, lu): a block with too few takes the first item of the next, and so on.
TooFew(n) == n < BlockSize - 1

RemovedAt(b, i) ==
    LET stop == Min({c \in b .. LastBlock : c = LastBlock \/ ~TooFew(blocks[c].length - 1)})
        lost(c) == IF c = b THEN Ring!RemoveAt(blocks[c], i)
                   ELSE IF b < c /\ c <= stop THEN Ring!RemoveFront(blocks[c]) ELSE blocks[c]
        bs == [c \in 1 .. LastBlock |->
                 IF b <= c /\ c < stop
                 THEN Ring!PushBack(lost(c), Ring!Front(blocks[c + 1])) ELSE lost(c)]
    IN  IF stop = LastBlock /\ bs[LastBlock].length = 0 THEN SubSeq(bs, 1, LastBlock - 1) ELSE bs

Appended(object) ==
    IF blocks # <<>> /\ blocks[LastBlock].length <= BlockSize
    THEN [blocks EXCEPT ![LastBlock] = Ring!PushBack(@, object)]
    ELSE Append(blocks, Ring!PushBack(Ring!Empty, object))

AppendItem(x) ==
    /\ blocks' = Appended(x)
    /\ length' = length + 1
    /\ UNCHANGED cursor

Insert(i, x) ==
    /\ i < length
    /\ LET p == Location(i)
       IN  /\ ~Spreads(p.block)
           /\ blocks' = InsertedAt(p.block, p.i, x)
    /\ length' = length + 1
    /\ UNCHANGED cursor

RemoveIndex(i) ==
    /\ LET p == Location(i)
       IN  MayRemove(p.block, p.i) /\ blocks' = RemovedAt(p.block, p.i)
    /\ length' = length - 1
    /\ UNCHANGED cursor

Replace(i, x) ==
    /\ LET p == Location(i)
       IN  blocks' = [blocks EXCEPT ![p.block] = Ring!SetAt(@, p.i, x)]
    /\ UNCHANGED <<length, cursor>>

Clear == blocks' = <<>> /\ length' = 0 /\ UNCHANGED cursor

\* remove(object): the first block that has it, and find(object), which adds up the
\* lengths of the wrong blocks: those behind the one it has looked through.
Holding(x) == {b \in 1 .. LastBlock : Ring!FindIndexOf(blocks[b], x) # -1}

RemoveObject(x) ==
    /\ Holding(x) # {}
    /\ LET b == Min(Holding(x))
           i == Ring!FindIndexOf(blocks[b], x)
       IN  MayRemove(b, i) /\ blocks' = RemovedAt(b, i)
    /\ length' = length - 1
    /\ UNCHANGED cursor

Find(x) ==
    IF Holding(x) = {} THEN -1
    ELSE LET b == Min(Holding(x)) IN Count(2, b) + Ring!FindIndexOf(blocks[b], x)

-------------------------------------------------------------------------------
(* The iterator. *)

Place(b, i) == [block |-> b, i |-> i]

Moved(place) == cursor' = place /\ UNCHANGED <<blocks, length>>

IteratorStart == blocks # <<>> /\ Moved(Place(1, 0))
IteratorEnd == blocks # <<>> /\ Moved(Place(LastBlock, blocks[LastBlock].length - 1))

\* The iterator is behind the items of its block, for as long as it is not moved back.
\* Assertions then end the program where an item is read or removed, and where one is
\* inserted further behind (circarray.h:58, 85, 130).
Behind == cursor # NONE /\ cursor.i >= blocks[cursor.block].length
FurtherBehind == cursor # NONE /\ cursor.i > blocks[cursor.block].length

IncrementIndex ==
    /\ cursor.i <= BlockSize       \* bound: behind its block, it is not moved on for ever
    /\ Moved(IF cursor.i + 1 # blocks[cursor.block].length
             THEN Place(cursor.block, cursor.i + 1)
             ELSE IF cursor.block = LastBlock THEN NONE ELSE Place(cursor.block + 1, 0))
DecrementIndex ==
    Moved(IF cursor.i > 0 THEN Place(cursor.block, cursor.i - 1)
          ELSE IF cursor.block = 1 THEN NONE
          ELSE Place(cursor.block - 1, blocks[cursor.block - 1].length - 1))

\* removeItem: at the end of the list the iterator is over.  Elsewhere it stays where
\* it is, and falls off when the last item of its block is removed and the next block is
\* not asked to fill it up.
AtEnd_OfBlock == cursor.i = blocks[cursor.block].length - 1   \* fault: ends with its block
AtEnd == cursor.block = LastBlock /\ cursor.i = blocks[LastBlock].length - 1

FallsOff == /\ cursor.block < LastBlock /\ cursor.i = blocks[cursor.block].length - 1
            /\ ~TooFew(blocks[cursor.block].length - 1)

RemoveItem ==
    /\ cursor # NONE /\ ~Behind
    /\ MayRemove(cursor.block, cursor.i)
    /\ blocks' = RemovedAt(cursor.block, cursor.i)
    /\ length' = length - 1
    /\ cursor' = IF AtEnd THEN NONE ELSE cursor

InsertItem(x) ==
    /\ cursor # NONE /\ ~FurtherBehind
    /\ ~Spreads(cursor.block)
    /\ blocks' = InsertedAt(cursor.block, cursor.i, x)
    /\ length' = length + 1
    /\ UNCHANGED cursor

\* The list must not be modified otherwise while an iterator is used.
ListNext ==
    \/ /\ cursor = NONE
       /\ \/ \E i \in 0 .. length - 1 : RemoveIndex(i) \/ \E x \in Items : Replace(i, x)
          \/ \E x \in Items : RemoveObject(x)
          \/ Clear
    \/ /\ cursor = NONE /\ length < MaxLength
       /\ \E x \in Items : AppendItem(x) \/ \E i \in 0 .. length - 1 : Insert(i, x)
    \/ length < MaxLength /\ \E x \in Items : InsertItem(x)
    \/ IteratorStart \/ IteratorEnd
    \/ cursor # NONE /\ (IncrementIndex \/ DecrementIndex)
    \/ RemoveItem

ListSpec == ListInit /\ [][ListNext]_listVars

-------------------------------------------------------------------------------
(* Properties. *)

Contents == FlattenSeq([b \in 1 .. LastBlock |-> Ring!Contents(blocks[b])])

\* No operation leaves a block out of its bounds, an item that can no longer be
\* counted from either end, or a cleared slot among the items: however items wander
\* between blocks, getAt finds at i what the sequence has there.
EveryItemIsFound ==
    /\ length = Len(Contents)
    /\ \A b \in 1 .. LastBlock :
         /\ blocks[b].length \in 1 .. BlockSize + 1
         /\ b < LastBlock => blocks[b].length >= BlockSize - 1
    /\ \A i \in 0 .. length - 1 : GetAt(i) = Contents[i + 1] /\ GetAt(i) # NONE

\* Every call does what it says to the sequence of the items: the index it was given
\* names the same item for the caller and for the blocks, and an iterator goes on with
\* the item that follows, whatever was moved from block to block meanwhile.  Two things
\* it does not do: an item that comes into the front half of a block comes one place
\* further back than it should, and an iterator that removes the last item of a block
\* may be behind it then, where it finds nothing, and goes back but not on.
Position == IF cursor = NONE THEN NONE ELSE Count(1, cursor.block - 1) + cursor.i
Promised == INSTANCE IndexedList WITH items <- Contents, NULL <- NONE, position <- Position
FirstOf(x) == Min({i \in 0 .. length - 1 : Contents[i + 1] = x})
TooFar(place) == IF IntoFront(place.block, place.i) THEN 1 ELSE 0

ByIndex(i) ==
    /\ RemoveIndex(i) => Promised!RemoveIndex(i)
    /\ \A x \in Items : Insert(i, x) => Promised!Insert(i + TooFar(Location(i)), x)
    /\ \A x \in Items : Replace(i, x) => Promised!Replace(i, x)
ByItem(x) ==
    /\ AppendItem(x) => Promised!Insert(length, x)
    /\ RemoveObject(x) => Promised!RemoveIndex(FirstOf(x))
ByIterator ==
    /\ \A x \in Items : InsertItem(x) => Promised!Insert(Position + TooFar(cursor), x)
    /\ RemoveItem => Promised!RemoveItem
    /\ IncrementIndex => Behind \/ Promised!Point(Position + 1)
    /\ DecrementIndex => FurtherBehind \/ Promised!Point(Position - 1)
    /\ Behind' => Behind \/ (RemoveItem /\ FallsOff)

ImplementsList ==
    [][IF cursor = NONE THEN /\ \A i \in 0 .. length - 1 : ByIndex(i)
                             /\ \A x \in Items : ByItem(x)
       ELSE ByIterator]_listVars
=============================================================================
