SPECIFICATION Spec
CONSTANTS
    Materialization = {m1}
    Worker = {w1, w2}
    Seeder = seeder
    Portfolio = {p1, p2}
    Content = {a, b}
    Window <- Windows
    CommandWindow <- Months
    SeedFamilies <- Seeded
    MaxSequence = 2
    Request <- Requests
    MaxAttempts = 2
    None = none
    p1 = p1
SYMMETRY Symmetry
CHECK_DEADLOCK FALSE
INVARIANTS
    TypeOK
    PublicationIsExact
    LedgerMatchesFacts
    LatestReadIsPublished
    LatestReadIsFresh
PROPERTIES
    PublishedIsImmutable
