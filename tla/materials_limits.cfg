SPECIFICATION Spec
CONSTANTS
    Users = {"lawyer"}
    Role <- Roles
    Files = {}
    Payloads <- Limits
    Names = {n1}
    Ids = {i1, i2}
    Txns = {t1, t2}
    Faults = {}
    Words <- AnyWords
    None = None
SYMMETRY Symmetry
INVARIANTS LimitsEnforced
