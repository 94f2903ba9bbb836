SPECIFICATION FairSpec
CONSTANTS
    NumConn = 2
    Weights <- OrdersOnly
    Limit = 1
    Interval = 1
    MaxRetry = 1
    Pauses = 1
    MaxAge = 2
    MaxDraws = 2
    None = None
INVARIANTS
    TypeOK
    SharedNotAboveSum
    RetriesTakenBackOnce
PROPERTIES
    ReportIsFinal
    RunEnds
