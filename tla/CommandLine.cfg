SPECIFICATION Spec
CONSTANTS
    Letters = {"t", "f"}
    LINE_MAX = 2
    RxDepth = 2
    Builds = {"main", "main_new"}
    MaxKeys = 5
    Commands <- MCCommands
INVARIANTS TypeOK CommandsAsTyped ScreenShowsLine
CHECK_DEADLOCK FALSE
