SPECIFICATION Spec
CONSTANTS
    CardSet = {"high", "low", "fat16", "empty"}
    HighCapacity = {"high", "fat16"}
    LastSector = 9
    EPS = 4
    BYTES = 2
    MaxCommands = 2
    Table <- MCTable
    BootSector <- MCBootSector
    Used <- MCUsed
INVARIANTS TypeOK VolOfOneCard StructureKept
