SPECIFICATION FairSpec
CONSTANTS
    p1 = p1
    p2 = p2
    noPath = noPath
    Harnesses = {"deepseek", "swift", "qwen"}
    TornWriters = {"deepseek"}
    Sigs = {"f1", "f2"}
    MaxTurns = 1
    MaxCalls = 4
    MaxEdits = 2
    MaxTests = 2
    MaxRepairs = 1
    PipeSize = 1
    Paths = {p1, p2}
    Existing = {p1}
    ManifestPath = noPath
    MaxFaults = 2
    MaxUserEdits = 1
CHECK_DEADLOCK FALSE
INVARIANTS
    TypeOK
    PromotedIsVerified
    Recoverable
    FailedPromotionRestores
    OutcomeTruthful
PROPERTIES
    RunEnds
