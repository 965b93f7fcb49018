SPECIFICATION FairSpec
CONSTANTS
    Streams = {"s1", "s2"}
    PhaseBudget = 4
    RequestSize = 2
    MaxSamples = 3
    MinTransfer = 2
    MaxLate = 1
    Pids = {1, 2}
    Services = {1, 2}
    ProtectedServices = {2}
    Images = {"user", "other"}
    StartupImages = {"user"}
    MaxProcesses = 2
    MaxLinks = 1
    Busy = 1
    MaxCreated = 2
    MaxCpu = 1
    None = None
    Metrics = {"fps", "frame"}
    LowerIsBetter = {"frame"}
    RunSets <- Sets
INVARIANTS
    QuietWhenReturned
    BytesBounded
    AdviceSafe
    VerdictRobust
PROPERTIES
    PhaseReturns
CHECK_DEADLOCK FALSE
