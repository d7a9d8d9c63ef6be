SPECIFICATION Spec
CONSTANTS
    LRADIX = 3
    SecPerClus = 1
    NSectors = 2
    NumFats = 2
    LastCluster = 8
    LastEntry = 9
    Occupied = {3}
    DirSlots = 4
    MaxBoots = 3
    MaxAppends = 4
    MaxRefusals = 1
INVARIANT PowerLossResumes
CHECK_DEADLOCK FALSE
