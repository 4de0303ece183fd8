CONSTANTS
    Threads = {1, 2}
    Subagents = {1, 2}
    Runs = {"scheduled", "manual"}
    MinAge = 1
    Limit = 1
    MaxScan = 2
    MaxTime = 3
    MaxFaults = 2
    MaxUses = 2
SPECIFICATION Spec
INVARIANTS
    TypeOK
    OnceAndOnRecord
    SparesActive
PROPERTY
    FinishedAttempted
CHECK_DEADLOCK FALSE
