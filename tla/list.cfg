\* Lists of up to five items, on blocks of two.
CONSTANTS
    NONE = NONE
    Items = {one, two}
    BlockSize = 2
    MaxLength = 5
SPECIFICATION ListSpec
INVARIANT EveryItemIsFound
PROPERTY ImplementsList
