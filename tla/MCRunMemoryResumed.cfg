SPECIFICATION Spec
CHECK_DEADLOCK FALSE
CONSTANTS
    MaxInvocations = 2
    Resumes = {"task"}
    ReportsLost = FALSE
INVARIANTS
    EvidenceAgrees
