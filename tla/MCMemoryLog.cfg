SPECIFICATION FairSpec
CONSTANTS
    p1 = p1
    p2 = p2
    s1 = s1
    s2 = s2
    c1 = c1
    c2 = c2
    c3 = c3
    Procs = {p1, p2}
    NoProc = NoProc
    Segments = {s1, s2}
    Claims = {c1, c2, c3}
    NoClaim = NoClaim
    NoRecord = NoRecord
    ClaimsOf <- PrivateClaims
    MaxLen = 2
    PowerFails = TRUE
INVARIANTS
    TypeOK
    ChainsIntact
    NoGapInIndex
    AcknowledgedKept
    ReadersSeeOnlyLogged
    Replayable
PROPERTIES
    ImplementsHistory
    CallsReturn
