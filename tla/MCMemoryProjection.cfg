SPECIFICATION ProjectionSpec
CONSTANTS
    s1 = s1
    s2 = s2
    t1 = t1
    Segments = {s1, s2}
    Memories = {1, 2, 3}
    Tasks = {t1}
    MaxEvents = 4
    SharedKeys = FALSE
    SupersedeDisputed = FALSE
    Failed = Failed
SYMMETRY Sessions
INVARIANTS
    ProjectionTypeOK
    RebuildMatches
    ReplaySucceeds
