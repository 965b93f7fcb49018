SPECIFICATION CacheSpec
CONSTANTS
    CachedMethods <- MCReads
    Mutations <- MCMutations
    Fills = {1, 2, 3}
INVARIANTS
    AffectedInvalidated
CHECK_DEADLOCK FALSE
