\* Three blocks of eight words and seven more.  A request for seventeen words may meet a
\* free block of sixteen, which is of the same class, and a block of eight that grows to
\* seventeen may use up one of eight behind it.  Two objects.
CONSTANTS
    NULL = NULL
    Pool = 35
    Sizes = {8, 16, 17}
    MaxObjects = 2
CONSTRAINT NotHarmed
SPECIFICATION Spec
INVARIANTS HeapIsWhole ReachableIsKept WeakNeverDangles RoomIsFound
