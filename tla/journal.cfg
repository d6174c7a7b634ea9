SPECIFICATION Spec
CONSTANTS
    q1 = q1
    q2 = q2
    q3 = q3
    q4 = q4
    Requests = {q1, q2, q3, q4}
    Users = {"ann", "bob", "root"}
    Admins = {"root"}
    Spellings = {"a@x", "A@x"}
    Lower <- LowerOf
    Scenarios <- All
    Retention = 1
    PerPage = 1
    MaxReportDocs = 2
    None = None
INVARIANTS JournalInv ReportTellsAll WalkMissesNothing
PROPERTIES ImplementsLedger
