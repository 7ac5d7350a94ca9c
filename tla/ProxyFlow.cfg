SPECIFICATION FairSpec
CONSTANTS
    MaxLines = 3
    BufLines = 2
    UpdateCap = 1
    MaxBody = 2
    Limit = 1
    None = None
INVARIANTS Inv RecordIsComplete RecordTellsWire ExitKeepsAnswered
PROPERTIES PushesGoForward StreamEnds ShutdownEnds
CHECK_DEADLOCK FALSE
