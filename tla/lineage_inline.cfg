SPECIFICATION Spec
CONSTANTS
    Poller = {p1}
    Inline = {i1}
    NoOwner = NoOwner
    Calc = {s1}
    NoCalc = NoCalc
    SummaryCalc = {s1}
    SyncCalc = {}
    CorruptCalc = {}
    MaxAttempts = 2
    BatchSize = 2
    MaxCaptures = 2
    MaxOverruns = 2
    MaxFaults = 2
CHECK_DEADLOCK FALSE
INVARIANTS
    CompleteMeansEvidence
    PayloadAttemptBudget
