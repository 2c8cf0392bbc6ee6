-------------------------------- MODULE Heap --------------------------------
(***************************************************************************)
(* The heap (kernel/memory/allocator.cpp): blocks with headers that follow *)
(* each other in a pool, free lists by size class, blocks that are freed   *)
(* by the program ("static") and blocks that are collected ("gc"), the     *)
(* collector.  Sizes and addresses are counted in words of 32 bits: a      *)
(* header is one word and an address is that of a header.                  *)
(*                                                                         *)
(* Each operation runs with context switches disabled, so it is a step.    *)
(* The program is whatever holds addresses: static blocks until it frees   *)
(* them, collected ones through references on stacks (roots) and in        *)
(* objects.  An object has one field of each kind here, a reference and a  *)
(* weak one.  The statistic lastFreeMem is left out.                       *)
(***************************************************************************)
EXTENDS Integers, Sequences, FiniteSets, SequencesExt, FiniteSetsExt

Word == 1073741824         \* 2^32 bytes

CONSTANTS Pool,        \* the words of the pool
          Sizes,       \* the sizes asked for; zero is answered without the heap
          NULL,        \* no block
          MaxObjects   \* bound: objects in the pool at once, garbage included

ASSUME PoolAssumption == Pool \in Nat /\ Pool > 1 /\ Pool < Word
ASSUME SizesAssumption == Sizes \subseteq Nat \ {0}
ASSUME NullAssumption == NULL \notin Nat
ASSUME BoundAssumption == MaxObjects \in Nat

VARIABLES
    heap,    \* the headers (size and flags), the free lists, the fields of objects
    roots,   \* the objects the program holds in references on its stacks
    asked,   \* the blocks the program has got, and how much it asked for
    harmed   \* history: the heap has handed out what it does not have (see harm below);
             \*   headers may be overwritten from then on

vars == <<heap, roots, asked, harmed>>

-------------------------------------------------------------------------------
(* Size classes. *)

Log2(n) == CHOOSE i \in 0 .. 30 : 2^i <= n /\ n < 2^(i + 1)

\* getTLSFSlot: exact below 16 words, then eight classes for each power of two.
Slot(size) ==
    IF size < 8 THEN size
    ELSE LET i == Log2(size)
         IN  8 * (i + 2) + ((size \div 2^(i - 3)) % 8) - 32

\* Classes above that of the whole pool are never used.
Classes == 0 .. Slot(Pool - 1)

-------------------------------------------------------------------------------
(* Blocks. *)

Blocks(h) == DOMAIN h.size
Used(h) == {b \in Blocks(h) : h.use[b] # "free"}
Objects(h) == {b \in Blocks(h) : h.use[b] = "gc"}
End(h, b) == b + 1 + h.size[b]

Init ==
    /\ heap = [size |-> [b \in {0} |-> Pool - 1], use |-> [b \in {0} |-> "free"],
               table |-> [i \in Classes |-> IF i = Slot(Pool - 1) THEN <<0>> ELSE <<>>],
               ref |-> [b \in {} |-> NULL], weak |-> [b \in {} |-> NULL]]
    /\ roots = {}
    /\ asked = [b \in {} |-> 0]
    /\ harmed = FALSE

With(f, b, x) == [c \in DOMAIN f \cup {b} |-> IF c = b THEN x ELSE f[c]]

\* A header is written.
Header(h, b, size, use) ==
    [h EXCEPT !.size = With(h.size, b, size), !.use = With(h.use, b, use)]

\* A block that has become free is put in front of its list.
Push(h, b) ==
    LET i == Slot(h.size[b])
    IN  IF i \in Classes THEN [h EXCEPT !.table[i] = <<b>> \o @] ELSE h

NewFree(h, b, size) == Push(Header(h, b, size, "free"), b)

\* The block is too small to be cut in two.
TooSmall(blockSize, size) == blockSize < size + 2

\* What is left of a block that is cut, without its header.
Rest_NoHeader(blockSize, size) == blockSize - size   \* fault: it needs one, too
Rest(blockSize, size) == blockSize - size - 1

\* tryAlloc: the first block of the first list that has one.  That of the class of the
\* request itself may be smaller than what is asked, and is handed out all the same
\* (allocator.cpp:72, where a build with assertions stops): the program comes to harm.
TryAlloc(h, size, use) ==
    LET lists == {i \in Classes : i >= Slot(size) /\ h.table[i] # <<>>}
        i == Min(lists)
        b == Head(h.table[i])
        taken == [h EXCEPT !.table[i] = Tail(@)]
    IN  IF lists = {} THEN [at |-> NULL, heap |-> h, harm |-> FALSE]
        ELSE [at |-> b,
              heap |-> IF TooSmall(h.size[b], size) THEN Header(taken, b, h.size[b], use)
                       ELSE NewFree(Header(taken, b, size, use), b + 1 + size,
                                    Rest(h.size[b], size)),
              harm |-> h.size[b] < size]

-------------------------------------------------------------------------------
(* The collector. *)

\* What is reachable from the roots through the fields of objects.
Closed(h, C) == \A b \in C : h.ref[b] # NULL => h.ref[b] \in C
Reachable(h) ==
    {b \in Objects(h) : \A C \in SUBSET Objects(h) : roots \subseteq C /\ Closed(h, C) => b \in C}

\* doGC: the roots are marked, and an object marked for the first time marks its fields.
Marked_RootsOnly(h) == roots               \* fault: fields are not followed
Marked(h) == Reachable(h)

Kept(h) == {b \in Blocks(h) : h.use[b] = "static"} \cup Marked(h)

\* A free or unmarked block takes over those that follow it.
Swallowed_None(h, b) == FALSE               \* fault: blocks are not put together
Swallowed(h, b) == \E p \in Blocks(h) \ Kept(h) : End(h, p) = b

\* Weak fields of marked objects are cleared when what they name is not marked.
WeakAfter_Same(h, b) == h.weak[b]           \* fault: they are not
WeakAfter(h, b) == IF h.weak[b] \in Marked(h) THEN h.weak[b] ELSE NULL

\* Blocks that are put in front of a list one by one, as they come in the pool.
Listed(S) ==
    CHOOSE s \in [1 .. Cardinality(S) -> S] : \A m, n \in DOMAIN s : m < n => s[m] > s[n]

\* releaseUnmarked, for the blocks marked.
Collected(h) ==
    LET kept == Kept(h)
        free == {b \in Blocks(h) \ kept : ~Swallowed(h, b)}
        end(b) == Min({p \in kept \cup free \cup {Pool} : p > b})
        size == [b \in kept \cup free |-> IF b \in kept THEN h.size[b] ELSE end(b) - b - 1]
    IN  [size |-> size,
         use |-> [b \in kept \cup free |-> IF b \in kept THEN h.use[b] ELSE "free"],
         table |-> [i \in Classes |-> Listed({b \in free : Slot(size[b]) = i})],
         ref |-> [b \in Marked(h) |-> h.ref[b]],
         weak |-> [b \in Marked(h) |-> WeakAfter(h, b)]]

\* alloc: collect when there is no block, and try again.
Alloc(size, use) ==
    LET first == TryAlloc(heap, size, use)
    IN  IF first.at # NULL THEN first ELSE TryAlloc(Collected(heap), size, use)

-------------------------------------------------------------------------------
(* The operations. *)

\* The program has lost a block, or moved it, or got one; and what it can no longer
\* reach it has forgotten.
Remember(gone, at, size) ==
    LET held == {b \in DOMAIN asked : b \in Objects(heap) => b \in Reachable(heap)}
    IN  asked' = [b \in (held \ {gone}) \cup ({at} \ {NULL}) |-> IF b = at THEN size ELSE asked[b]]

Harm(r) == harmed' = (harmed \/ r.harm)

Malloc(size) ==
    LET r == Alloc(size, "static")
    IN  /\ heap' = r.heap
        /\ Remember(NULL, r.at, size)
        /\ Harm(r)
        /\ UNCHANGED roots

\* gcAlloc, with memory that is zero; the new object is held by its creator.
GcAlloc(size) ==
    LET r == Alloc(size, "gc")
    IN  /\ Cardinality(Objects(heap)) < MaxObjects
        /\ heap' = IF r.at = NULL THEN r.heap
                   ELSE [r.heap EXCEPT !.ref = With(@, r.at, NULL), !.weak = With(@, r.at, NULL)]
        /\ roots' = IF r.at = NULL THEN roots ELSE roots \cup {r.at}
        /\ Remember(NULL, r.at, size)
        /\ Harm(r)

Freed(h, b) == NewFree(h, b, h.size[b])

Free(b) ==
    /\ heap.use[b] = "static"
    /\ heap' = Freed(heap, b)
    /\ Remember(b, NULL, 0)
    /\ UNCHANGED <<roots, harmed>>

\* tryExpand: the free block that follows is taken, and the rest of it given back.
Unlisted(h, b) ==
    LET list == h.table[Slot(h.size[b])]
        n == CHOOSE m \in DOMAIN list : list[m] = b
    IN  [h.table EXCEPT ![Slot(h.size[b])] =
           [m \in 1 .. Len(list) - 1 |-> IF m < n THEN list[m] ELSE list[m + 1]]]

CanExpand(h, b, size) ==
    LET next == End(h, b)
    IN  /\ next < Pool
        /\ h.use[next] = "free"
        /\ size <= h.size[b] + h.size[next] + 1

Expanded(h, b, size) ==
    LET next == End(h, b)
        both == h.size[b] + h.size[next]
        rest == (both - size) % Word
        Only(f) == [c \in Blocks(h) \ {next} |-> f[c]]
        merged == [h EXCEPT !.table = Unlisted(h, next), !.size = Only(h.size), !.use = Only(h.use)]
    IN  IF rest < 1 THEN Header(merged, b, both + 1, "static")
        ELSE NewFree(Header(merged, b, size, "static"), b + 1 + size, rest)

\* A block that takes the next one and its header exactly leaves a rest that is a word
\* less than nothing: the test in Expanded takes it for a large one (allocator.cpp:121),
\* whose header is written over what follows.
InPlace(h, b, size) ==
    [at |-> b, heap |-> Expanded(h, b, size),
     harm |-> size = h.size[b] + h.size[End(h, b)] + 1]

\* The block grows in its place, or else moves.  What stands after it may be free
\* only after a collection.
Grown(b, size) ==
    LET c == Collected(heap)
        last == End(heap, b) = Pool
        Moved(r) == IF r.at = NULL THEN r ELSE [r EXCEPT !.heap = Freed(@, b)]
        now == TryAlloc(heap, size, "static")
    IN  IF CanExpand(heap, b, size) THEN InPlace(heap, b, size)
        ELSE IF ~last /\ CanExpand(c, b, size) THEN InPlace(c, b, size)
        ELSE IF last /\ now.at # NULL THEN Moved(now)
        ELSE Moved(TryAlloc(c, size, "static"))

\* What is left over is given back when it makes a block.
Shrunk(b, size) ==
    IF size + 2 < heap.size[b]
    THEN NewFree(Header(heap, b, size, "static"), b + 1 + size, Rest(heap.size[b], size))
    ELSE heap

\* realloc of a static block; it stays as it was when there is no room.
Realloc(b, size) ==
    LET r == IF size > heap.size[b] THEN Grown(b, size)
             ELSE [at |-> b, heap |-> Shrunk(b, size), harm |-> FALSE]
    IN  /\ heap.use[b] = "static"
        /\ heap' = r.heap
        /\ Remember(IF r.at = NULL THEN NULL ELSE b, r.at, size)
        /\ Harm(r)
        /\ UNCHANGED roots

-------------------------------------------------------------------------------
(* The program and its references. *)

Drop(b) == roots' = roots \ {b} /\ UNCHANGED <<heap, asked, harmed>>

Assign(b, c) ==
    /\ heap' = [heap EXCEPT !.ref[b] = c]
    /\ UNCHANGED <<roots, asked, harmed>>

AssignWeak(b, c) ==
    /\ heap' = [heap EXCEPT !.weak[b] = c]
    /\ UNCHANGED <<roots, asked, harmed>>

\* Reading a field; WeakRef::get protects what it reads until it is a root.
Load(b) ==
    \E c \in {heap.ref[b], heap.weak[b]} \ {NULL} :
       roots' = roots \cup {c} /\ UNCHANGED <<heap, asked, harmed>>

Next ==
    \/ \E size \in Sizes : Malloc(size) \/ GcAlloc(size)
    \/ \E b \in Blocks(heap) : Free(b) \/ \E size \in Sizes : Realloc(b, size)
    \/ \E b \in roots : \/ Drop(b) \/ Load(b)
                        \/ \E c \in roots \cup {NULL} : Assign(b, c) \/ AssignWeak(b, c)

Spec == Init /\ [][Next]_vars

-------------------------------------------------------------------------------
(* Properties: of a heap that has not been harmed. *)

\* Bound: a behaviour is not followed once the heap is harmed.
NotHarmed == ~harmed

\* The blocks fill the pool from its first word to its last: the walk of the
\* collector ends at the end of the pool (allocator.cpp:283 and 320 assert it).
\* Every free block is on the list of its class, once, and nothing else is on a
\* list: room that is on none is lost until the next collection.
HeapIsWhole ==
    ~harmed =>
    /\ 0 \in Blocks(heap)
    /\ {End(heap, b) : b \in Blocks(heap)} = (Blocks(heap) \ {0}) \cup {Pool}
    /\ \A i \in Classes :
          /\ ToSet(heap.table[i]) = {b \in Blocks(heap) : heap.use[b] = "free"
                                                        /\ Slot(heap.size[b]) = i}
          /\ IsInjective(heap.table[i])

\* What the program can reach is there, with the room that was asked for, through
\* every collection and every move.
ReachableIsKept ==
    ~harmed =>
    /\ roots \subseteq Objects(heap)
    /\ \A b \in Reachable(heap) : heap.ref[b] # NULL => heap.ref[b] \in Objects(heap)
    /\ \A b \in DOMAIN asked : b \in Used(heap) /\ asked[b] <= heap.size[b]

\* A weak field names an object that is there or nothing.
WeakNeverDangles ==
    ~harmed => \A b \in Reachable(heap) : heap.weak[b] # NULL => heap.weak[b] \in Objects(heap)

\* A request is refused only when nothing the program has left makes room for it,
\* however the pool is cut up.
RoomIsFound ==
    ~harmed => \A size \in Sizes :
       (\E a \in 0 .. Pool - size - 1 :
           \A b \in Kept(heap) : End(heap, b) <= a \/ b >= a + 1 + size)
       => Alloc(size, "static").at # NULL
===============================================================================
