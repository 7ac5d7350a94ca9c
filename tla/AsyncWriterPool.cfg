SPECIFICATION FairSpec
CONSTANTS
    r1 = r1  r2 = r2  r3 = r3
    w1 = w1  w2 = w2
    Reqs = {r1, r2, r3}
    Workers = {w1, w2}
    Stopper = stopper
    Cap = 2
    ChunkSize = 2
    MaxTries = 2
INVARIANTS Inv
PROPERTIES SinkSpec EveryRequestSettles
