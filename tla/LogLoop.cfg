SPECIFICATION FairSpec
CONSTANTS
    Builds = {"main", "main_new"}
    RADIX = 2
    EscCount = 1
    LoadOrders = {"lo", "hi"}
    MaxBytes = 10
    IdleMaxBytes = 4
    StartSlots = {0, 4}
    IdleSlots = {6}
    EscapeBytes = {3, 7}
    Extent = 2
    Cluster = 1
    Behind = {1}
    StartCounts = {5}
    Blank = Blank
    Zero = Zero
    DirByte = DirByte
    FatByte = FatByte
INVARIANTS
    TypeOK
    Accounting
    SectorsFaithful
    PromptRingEmpty
    RecordNotAhead
PROPERTIES
    RewriteFlushes
\* The processor stops at reset.
CHECK_DEADLOCK FALSE
