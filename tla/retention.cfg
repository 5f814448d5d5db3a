SPECIFICATION Spec
CONSTANTS
    Operator = {p1}
    Calculation = {c1}
    Worker = w
    Correlation = {x1}
    Retention = 1
    PreviewAge = 0
    MaxTime = 2
    MaxProtected = 1
    MaxFaults = 1
CHECK_DEADLOCK FALSE
INVARIANTS
    TypeOK
    ArtifactsHaveRecords
    AppliedMeansGone
    CleanupIsThorough
PROPERTIES
    ShieldedStays
    CustodyGoesTogether
    DeletionsAreAnnounced
