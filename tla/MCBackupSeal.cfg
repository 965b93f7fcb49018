\* Every failure of a step, every crash, and at most one save that stops
\* between the seal and the rename before the next rename.
SPECIFICATION Spec
CONSTANTS
    Digests = {d1, d2, d3}
    None = None
    MaxInterrupted = 1
INVARIANTS
    TrustedUnlessTwiceInterrupted
PROPERTY
    ImplementsDurableRecord
CHECK_DEADLOCK FALSE
