SPECIFICATION Spec
CONSTANTS
    t1 = t1
    t2 = t2
    Tasks = {t1, t2}
    Classes = {"scratch", "bulk", "evidence"}
    HotTTL = 1
    ArchiveTTL = 1
    MaxTime = 3
    MaxEvents = 5
    ArchiveExpires = FALSE
    ReuseAfterGC = FALSE
    LiveAfterFailure = FALSE
    NoPlan = NoPlan
    Failed = Failed
SYMMETRY AnyTask
INVARIANTS
    TypeOK
    NextOpenSucceeds
    CatalogMatches
PROPERTIES
    ProtectedKept
