SPECIFICATION CacheSpec
CONSTANTS
    CachedMethods <- MCReads
    Mutations <- MCMutations
    Fills = {1, 2, 3}
INVARIANTS
    FreshOrRaced
    PendingInFlight
CHECK_DEADLOCK FALSE
