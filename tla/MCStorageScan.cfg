SPECIFICATION FairSpec
CONSTANTS
    Nodes = {"volume", "directory", "file"}
    Volumes = {"volume"}
    Directories = {"volume", "directory"}
    Parent <- Tree
    Protected = {}
    Jobs = {1, 2, 3}
    Tokens = {1}
    MaxCached = 1
    MaxPending = 1
    MaxWrites = 2
    None = None
    Test = Test
INVARIANTS
    ProbeHeld
    CancelHolds
    OrderMatchesCache
    NoDeletedUnlessRaced
    NodeReviewedUnlessSwapped
PROPERTIES
    HeavyReleased
CHECK_DEADLOCK FALSE
