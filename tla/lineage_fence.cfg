SPECIFICATION Spec
CONSTANTS
    Poller = {p1}
    Inline = {}
    NoOwner = NoOwner
    Calc = {y1}
    NoCalc = NoCalc
    SummaryCalc = {}
    SyncCalc = {y1}
    CorruptCalc = {}
    MaxAttempts = 2
    BatchSize = 2
    MaxCaptures = 2
    MaxOverruns = 0
    MaxFaults = 0
CHECK_DEADLOCK FALSE
INVARIANT
    CancelledLineageStaysFenced
