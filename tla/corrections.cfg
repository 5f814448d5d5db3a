SPECIFICATION Spec
CONSTANTS
    c1 = c1
    c2 = c2
    c3 = c3
    o1 = o1
    o2 = o2
    Client = {k1, k2}
    Correction = {c1, c2, c3}
    Request <- MCRequest
    Original = {o1, o2}
    Window <- MCWindow
    MaxGeneration = 1
    MaxRunning = 1
    MaxCalls = 3
    MaxFaults = 1
SYMMETRY Symmetry
CHECK_DEADLOCK FALSE
INVARIANTS
    TypeOK
    RecalculationSeesCorrection
    NoImpactLost
    CompleteMeansRecalculated
    
    SubmittedMeansQueued
    SingleSuccessor
PROPERTIES
    CancelledStaysCancelled
