SPECIFICATION FairSpec
CONSTANTS
    RADIX = 2
    EscCount = 2
    LoadOrders = {"lo", "hi"}
    PreallocSectors = 3
    MaxBytes = 14
    MaxEscapes = 3
    Blank = Blank
INVARIANTS
    TypeOK
    NoOverdrain
    PendingInRing
    LogInOrder
    NothingLost
    EscapeExact
PROPERTIES
    Drains
    ImplementsSectorLog
\* The loop stops in command mode and at the end of the extent.
CHECK_DEADLOCK FALSE
