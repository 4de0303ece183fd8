CONSTANTS
    Blobs = {1, 2, 3}
    Size <- MCSize
    Bulk = {2}
    Disposal <- MCDisposal
    Budget = 5
    MaxItems = 2
    MaxBytes = 2
    Runs = {"scheduled", "inspection"}
    Applying = {"scheduled"}
    MaxChanges = 3
    MaxFaults = 2
SPECIFICATION Spec
INVARIANTS
    TypeOK
    EvidenceTruthful
PROPERTIES
    CollectsEligible
    PressureRelieved
CHECK_DEADLOCK FALSE
