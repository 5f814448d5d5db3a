SPECIFICATION FairSpec
CONSTANTS
    MaxAttempts = 2
    Worker = {w1}
    Acquisition = {a1, a2}
    NoOwner = NoOwner
    Calc = {c1, c2}
    NoCalc = NoCalc
    CompositeCalc = {c2}
    SummaryCalc = {c1}
    CorruptCalc = {}
    CorrectionCalc = {c1}
    BatchSize = 2
    MaxCrashes = 1
INVARIANTS
    AttemptBudget
PROPERTIES
    AnsweredOnce
    SummaryPublishedAfterLineage
    EveryJobAnswered
