SPECIFICATION LeaseSpec
CONSTANTS
    MaxAttempts = 2
    Worker = {w1, w2}
    Acquisition = {a1, a2}
    NoOwner = NoOwner
    Calc = {c1, c2}
    NoCalc = NoCalc
    CompositeCalc = {}
    SummaryCalc = {}
    CorruptCalc = {c2}
    CorrectionCalc = {c1}
    BatchSize = 1
    MaxCrashes = 1
SYMMETRY Symmetry
INVARIANTS
    TypeOK
    CompletedJobHasResult
    ActiveRowHasOwner
PROPERTIES
    SuccessResultPreserved
