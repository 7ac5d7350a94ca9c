SPECIFICATION FairSpec
CONSTANTS
    q1 = q1  q2 = q2  p1 = p1
    a1 = a1  a2 = a2
    i1 = i1  i2 = i2  i3 = i3
    Requests = {q1}
    Responses = {p1}
    Admins = {a1, a2}
    Ids = {i1, i2}
    ClockRepeats = TRUE
    Decisions = {"drop"}
    RuleLists <- MCRuleLists
    MaxPending = 1
    LogCap = 1
    None = None
INVARIANTS
    Inv
    PromptDecisionHonoured
    LogTellsOutcome
PROPERTIES EveryMessageLeaves
