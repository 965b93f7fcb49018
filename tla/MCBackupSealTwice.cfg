SPECIFICATION Spec
CONSTANTS
    Digests = {d1, d2, d3}
    None = None
    MaxInterrupted = 2
INVARIANT
    JournalStaysRetryable
CHECK_DEADLOCK FALSE
