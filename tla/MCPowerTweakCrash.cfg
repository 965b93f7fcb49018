SPECIFICATION Spec
CONSTANTS
    NKeys = 2
    MouseKeys = {2}
    Props = {p1}
    Values = {user, optimized}
    Optimized = optimized
    NotCaptured = notCaptured
    NoJournal = NoJournal
    Operations <- SettingOnly
    MaxOperations = 2
    MaxFaults = 1
INVARIANT
    RollbackRetryable
CHECK_DEADLOCK FALSE
