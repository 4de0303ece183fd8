SPECIFICATION Spec
CHECK_DEADLOCK FALSE
CONSTANTS
    MaxInvocations = 4
    Resumes = {"task", "finalize"}
    ReportsLost = TRUE
INVARIANTS
    TypeOK
    DispatchedOnce
    NothingFabricated
    RecordedOnce
