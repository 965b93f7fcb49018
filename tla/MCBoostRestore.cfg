SPECIFICATION Spec
CONSTANTS
    Processes = {1, 2}
    Requests <- BoostAndStartup
    NoTarget = NoTarget
    MaxFailures = 0
    MaxOrphans = 0
INVARIANTS
    BoostRestored
CHECK_DEADLOCK FALSE
