SPECIFICATION FairSpec
CONSTANTS
    NKeys = 2
    MouseKeys = {2}
    Props = {p1}
    Values = {user, optimized}
    Optimized = optimized
    NotCaptured = notCaptured
    NoJournal = NoJournal
    Operations <- MostOperations
    MaxOperations = 2
    MaxFaults = 2
INVARIANTS
    SchemeJournalled
    AppliedHolds
    RollbackRetryable
PROPERTIES
    JournalBeforeMutation
    RestoreIsExact
    RollbackCompletes
CHECK_DEADLOCK FALSE
