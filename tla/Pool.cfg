SPECIFICATION Spec
CONSTANTS
    Threads = {t1, t2}
    Blocks = {b1, b2, b3}
    Events = {e1, e2}
    Sizes <- RequestedSizes
    MaxHostBytes = 3600
    AlignLimit = 1500
    NoEvent = NoEvent
    NoBlock = NoBlock
SYMMETRY Interchangeable
INVARIANTS
    TypeOK
    PlacedOnce
    NoReuseInTransfer
    TotalExact
