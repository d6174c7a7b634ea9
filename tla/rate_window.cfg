SPECIFICATION FairSpec
CONSTANTS
    Txns = {t1, t2, t3}
    Limit = 2
    Window = 3
    MaxCount = 5
    Faults = TRUE
INVARIANTS AtMostTwiceTheLimit
PROPERTIES WindowNotExtended WindowEnds
