SPECIFICATION FairSpec
CONSTANTS
    Poller = {p1}
    Inline = {}
    NoOwner = NoOwner
    Calc = {y1, k1}
    NoCalc = NoCalc
    SummaryCalc = {}
    SyncCalc = {y1}
    CorruptCalc = {k1}
    MaxAttempts = 2
    BatchSize = 2
    MaxCaptures = 2
    MaxOverruns = 2
    MaxFaults = 2
CHECK_DEADLOCK FALSE
INVARIANTS
    TypeOK
    CancelledStaysFailed
    PayloadAttemptBudget
PROPERTIES
    LineageSettles
