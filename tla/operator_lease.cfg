SPECIFICATION LeaseSpec
CONSTANTS
    Operator = {p1, p2}
    MaxTokens = 3
    MaxStale = 1
CHECK_DEADLOCK FALSE
INVARIANTS
    ReleaseIsCompareAndDelete
