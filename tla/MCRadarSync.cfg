CONSTANTS
    Lookback = 2
    RecheckDays = 2
    MaxFrontier = 1
    MaxBacklog = 1
    MaxRecheck = 1
    MaxArtifacts = 1
    AttemptCap = 1
    Links <- MCLinks
    ObservationBound = 2
    MaxPapers = 3
    MaxTime = 3
    MaxLate = 1
    MaxFailures = 1
    MaxConfigs = 2
    MaxBarred = 1
SPECIFICATION Spec
INVARIANTS
    TypeOK
    NothingSkipped
PROPERTIES
    RetriesNeverReset
    CycleEnds
CHECK_DEADLOCK FALSE
