\* One thread that waits for keys, another that reads without waiting, a ring of two.
CONSTANTS
    r1 = r1   r2 = r2   c1 = c1   c2 = c2
    NULL = NULL
    Readers = {r1, r2}
    Blocking = {r1}
    Codes = {c1, c2}
    Size = 2
    MaxAsked = 2
SPECIFICATION FairSpec
PROPERTIES ImplementsKeyRing
