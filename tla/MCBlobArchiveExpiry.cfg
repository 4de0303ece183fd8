SPECIFICATION Spec
CONSTANTS
    t1 = t1
    t2 = t2
    Tasks = {t1}
    Classes = {"bulk"}
    HotTTL = 1
    ArchiveTTL = 1
    MaxTime = 3
    MaxEvents = 5
    ArchiveExpires = TRUE
    ReuseAfterGC = FALSE
    LiveAfterFailure = FALSE
    NoPlan = NoPlan
    Failed = Failed
INVARIANTS
    ReceiptsHaveArchives
