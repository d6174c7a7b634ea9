SPECIFICATION FairSpec
CONSTANTS
    Users = {"ann", "root"}
    Role <- RoleOf
    Checks = {"check", "unknown"}
    CheckOwner <- Owners
    Docs = {d1}
    Contents = {"template", "edited"}
    Template = "template"
    Txns = {t1, t2, t3}
    Workload = {"generate", "update", "finalize", "export"}
    Faults = {"audit", "crash"}
    Seeds = TRUE
    None = None
INVARIANTS RefusedLeavesNoTrace DocInv
PROPERTIES LifecycleOneWay EveryRequestEnds ImplementsArchive
