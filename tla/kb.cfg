SPECIFICATION FairSpec
CONSTANTS
    Codes = {"orm8", "upk"}
    Fields = {"title", "text"}
    Values = {"old", "new"}
    Txns = {t1, t2}
    Workload = {"create", "update", "seed"}
    Bodies <- NewBodies
    SeedCodes = {"orm8", "upk"}
    SeedRank <- Rank
    SeedContent <- Seeded
    InitialCount = 2
    MaxVersion = 4
    None = None
INVARIANTS CurrentIsLatest UnsetFieldsFromOneAncestor KBInv
PROPERTIES HistoryImmutable ImplementsStore EveryRequestAnswered
