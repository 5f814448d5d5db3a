SPECIFICATION Spec
CONSTANTS
    Submitter = {p1, p2}
    Calc = {c1}
    KeyedCalc = {k1, k2}
    Request = {r1, r2, s1}
    StatefulRequest = {s1}
    NoRequest = NoRequest
    Key = {key}
    NoKey = NoKey
    MaxSubmissions = 3
    MaxErrors = 1
    AnswerLost = FALSE
    MaxCutOffs = 1
SYMMETRY Symmetry
PROPERTY
    ExecutorWorkHasExecution
