CONSTANTS
    r1 = r1  r2 = r2  r3 = r3  r4 = r4
    w1 = w1  w2 = w2
    s1 = s1  s2 = s2
    Reqs = {r1, r2, r3, r4}
    Workers = {w1, w2}
    Stoppers = {s1, s2}
    ChanCap = 1
    BatchSize = 2
    MaxTries = 3
SPECIFICATION FairSpec
INVARIANTS Inv
PROPERTY SinkSpec EveryRequestSettles
