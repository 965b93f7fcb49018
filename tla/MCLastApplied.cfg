SPECIFICATION Spec
CONSTANTS
    Processes = {1, 2, 3, 4}
    Requests <- TweakAndProfile
    NoTarget = NoTarget
    MaxFailures = 0
    MaxOrphans = 0
PROPERTIES
    LastAppliedFirst
CHECK_DEADLOCK FALSE
