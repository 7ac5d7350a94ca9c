SPECIFICATION ViewsFairSpec
CONSTANTS
    Kinds <- KindsMC
    Readers = {r1, r2}
    MaxRows = 2
    TTL = 1
    None = None
INVARIANTS ViewsInv MapIsExact
PROPERTIES StaleListsEnd
