SPECIFICATION Spec
CONSTANTS
    Users = {"lawyer", "admin"}
    Role <- Roles
    Files <- SomeFiles
    Payloads <- SomePayloads
    Names = {n1, n2, n3}
    Ids = {i1, i2, i3}
    Txns = {t1, t2, t3}
    Faults = {"audit", "crash"}
    Words <- AnyWords
    None = None
SYMMETRY Symmetry
INVARIANTS UploadsComplete OnlyFailuresLeaveFiles ChecksFromReadUploads ImportNeverExonerates LastDocumentDecides EvidenceNeverHurts MaterialsInv
PROPERTIES ImplementsRegister
