SPECIFICATION UpdaterSpec
CONSTANTS
    Processes = {1, 2, 3}
    Releases <- Published
    Channel <- Line
    First <- Installed
    Original = Original
    Absent = Absent
INVARIANTS
    ExecutablePresent
PROPERTIES
    OnlyNewer
CHECK_DEADLOCK FALSE
