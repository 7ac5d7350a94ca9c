SPECIFICATION FairSpec
CONSTANTS
    Migrations <- KindsMC
    Pairs = {p1, p2, p3}
    Days = {d0, d7}
    MaxFaults = 2
    MaxChanges = 2
    None = None
    Handlers = {h1, h2}
INVARIANTS Inv RulesEnforced ModeSurvives
PROPERTIES BootKeepsSettings ComesUp
