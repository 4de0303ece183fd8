CONSTANTS
    alice = alice
    bob = bob
    Operators <- MCOperators
    Entries <- MCEntries
    MaxEvents = 4
    MaxTime = 0
    MaxCrashes = 1
    MaxAmends = 1
    MaxResponses = 2
    ReceiptBound = 1
SPECIFICATION MCSpec
INVARIANTS
    TypeOK
    LedgerLoads
PROPERTY
    IntakeConverges
CHECK_DEADLOCK FALSE
