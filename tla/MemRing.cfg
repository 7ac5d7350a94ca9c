SPECIFICATION Spec
CONSTANTS
    r1 = r1  r2 = r2  r3 = r3  r4 = r4  r5 = r5  r6 = r6  r7 = r7
    c1 = c1  c2 = c2
    Recs = {r1, r2, r3, r4, r5, r6, r7}
    Consumers = {c1, c2}
    NoRec = NoRec
    Size <- MCSize
    MaxBytes = 4
    SizeOf <- MCSizeOf
SYMMETRY Symm
INVARIANTS
    Inv
    NoLostWakeup
PROPERTIES
    QueueSpec
