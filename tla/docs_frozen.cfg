SPECIFICATION Spec
CONSTANTS
    Users = {"ann", "root"}
    Role <- RoleOf
    Checks = {"check"}
    CheckOwner <- Owners
    Docs = {d1}
    Contents = {"template", "edited"}
    Template = "template"
    Txns = {t1, t2}
    Workload = {"update", "finalize"}
    Faults = {}
    Seeds = TRUE
    None = None
PROPERTIES FinalizedContentFrozen
