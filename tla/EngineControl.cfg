SPECIFICATION FairSpec
CONSTANTS
    Engines = {s1, s2, boot}
    Starters = {s1, s2}
    Stoppers = {p1}
    Boot = boot
    None = None
INVARIANTS Inv CaptureNeverPauses
PROPERTIES RequestsAnswered
CHECK_DEADLOCK FALSE
