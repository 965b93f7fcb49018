SPECIFICATION FairSpec
CONSTANTS
    Clients <- Windows
    Calls <- MCCalls
    Handshakes <- MCHandshakes
    Generations = {1, 2}
    PipeRoom = 1
    MaxFaults = 0
    MaxAsked = 2
PROPERTIES
    NotStranded
CHECK_DEADLOCK FALSE
