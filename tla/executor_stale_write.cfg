SPECIFICATION LeaseSpec
CONSTANTS
    MaxAttempts = 2
    Worker = {w1, w2}
    Acquisition = {a1, a2}
    NoOwner = NoOwner
    Calc = {c1}
    NoCalc = NoCalc
    CompositeCalc = {}
    SummaryCalc = {}
    CorruptCalc = {}
    CorrectionCalc = {c1}
    BatchSize = 1
    MaxCrashes = 1
SYMMETRY Symmetry
PROPERTY
    StaleWorkerNeverWritesJob
