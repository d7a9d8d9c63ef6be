SPECIFICATION Spec
CONSTANTS
    Builds = {"main"}
    RADIX = 2
    EscCount = 1
    LoadOrders = {"lo", "hi"}
    MaxBytes = 6
    IdleMaxBytes = 0
    EscapeBytes = {3}
    StartSlots = {0}
    IdleSlots = {0}
    Extent = 3
    Cluster = 1
    Behind = {0}
    StartCounts = {15}
    Blank = Blank
    Zero = Zero
    DirByte = DirByte
    FatByte = FatByte
INVARIANT
    EntryCommitsAll
CHECK_DEADLOCK FALSE
