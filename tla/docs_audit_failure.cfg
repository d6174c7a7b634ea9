SPECIFICATION Spec
CONSTANTS
    Users = {"ann", "root"}
    Role <- RoleOf
    Checks = {"check"}
    CheckOwner <- Owners
    Docs = {d1}
    Contents = {"template", "edited"}
    Template = "template"
    Txns = {t1, t2}
    Workload = {"generate", "update", "finalize"}
    Faults = {"audit"}
    Seeds = TRUE
    None = None
INVARIANTS AuditFailureHarmless
