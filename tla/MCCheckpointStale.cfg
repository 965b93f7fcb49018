SPECIFICATION Spec
CONSTANTS
    Processes = {1, 2, 3}
    Requests <- CheckpointThenProfile
    NoTarget = NoTarget
    MaxFailures = 0
    MaxOrphans = 0
PROPERTIES
    CheckpointAtApply
CHECK_DEADLOCK FALSE
