SPECIFICATION FairSpec
CONSTANTS
    BLOCK = 2
    LastSector = 2
    Lbas = {0, 1}
    Data = {"d1", "d2"}
    Kinds = {"v1", "sc", "hc"}
    R1Polls = 2
    TokenPolls = 2
    ReadyPolls = 2
    IdleTries = 2
    OpTries = 2
INVARIANTS TypeOK WriteTruth ReadTruth AddressingAgrees
PROPERTIES OnlyAddressed CallsReturn
\* The program stops if the first sd_init() fails.
CHECK_DEADLOCK FALSE
