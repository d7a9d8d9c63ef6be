SPECIFICATION Spec
CONSTANTS
    EPS = 4
    FatSz = 2
    SecPerClus = 2
    DataLba = 5
    MASK = 2
    Values = {0, 1, 2}
INVARIANTS TypeOK OnlyFreeErased NothingSkipped FewestCalls
CHECK_DEADLOCK FALSE
