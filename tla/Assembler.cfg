CONSTANTS
    c1 = c1
    c2 = c2
    Conns <- MCConns
    MaxStreams = 1
    Kinds <- MCKinds
    Styles <- MCStyles
    MaxExchanges <- MCMaxExchanges
    MaxLen = 2
    FlushLen = 2
    Window = 1
SPECIFICATION Spec
INVARIANTS
    Inv
    PairsMatch
    NothingMissed
CHECK_DEADLOCK FALSE
