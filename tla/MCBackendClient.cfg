SPECIFICATION FairSpec
CONSTANTS
    Clients <- Windows
    Calls <- MCCalls
    Handshakes <- MCHandshakes
    Generations = {1, 2}
    PipeRoom = 1
    MaxFaults = 1
    MaxAsked = 2
INVARIANTS
    NoOrphan
    ConnectedToChild
PROPERTIES
    EverythingSettles
    KeepsPromise
CHECK_DEADLOCK FALSE
