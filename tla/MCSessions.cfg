SPECIFICATION FairSpec
CONSTANTS
    Processes = {1, 2, 3}
    Requests <- Combinations
    NoTarget = NoTarget
    MaxFailures = 1
    MaxOrphans = 1
INVARIANTS
    OneOperation
    BoostUndisturbed
PROPERTIES
    LocksReleased
CHECK_DEADLOCK FALSE
