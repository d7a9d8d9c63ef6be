SPECIFICATION FairSpec
CONSTANTS
    Builds = {"main"}
    RADIX = 2
    EscCount = 1
    LoadOrders = {"lo", "hi"}
    MaxBytes = 3
    IdleMaxBytes = 0
    EscapeBytes = {3}
    StartSlots = {0}
    IdleSlots = {0}
    Extent = 3
    Cluster = 1
    Behind = {0}
    StartCounts = {15}
    Blank = Blank
    Zero = Zero
    DirByte = DirByte
    FatByte = FatByte
PROPERTY
    IdleFlush
CHECK_DEADLOCK FALSE
