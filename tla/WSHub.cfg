SPECIFICATION FairSpec
CONSTANTS
    Clients = {c1, c2}
    Faulty = {c1}
    New = new
    update = update
    Kinds <- MCKinds
    Events <- MCEvents
    ChCap <- MCCap
    SendCap = 1
INVARIANTS Inv RegisteredAreServed
PROPERTIES HubNeverStalls PumpsEnd
CHECK_DEADLOCK FALSE
