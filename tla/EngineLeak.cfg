SPECIFICATION Spec
CONSTANTS
    Engines = {s1, boot}
    Starters = {s1}
    Stoppers = {p1}
    Boot = boot
    None = None
INVARIANTS NoEngineLeaks
CHECK_DEADLOCK FALSE
