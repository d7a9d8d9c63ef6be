SPECIFICATION Spec
CONSTANTS
    NumSlots = 4
    Bytes = 2
    Erased = 1
    Unused = 15
    Program <- MCProgram
INVARIANTS TypeOK Recoverable ReusedOnlyWhenFull
