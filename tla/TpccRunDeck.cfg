SPECIFICATION Spec
CONSTANTS
    NumConn = 2
    Weights <- EqualWeights
    Limit = 2
    Interval = 1
    MaxRetry = 1
    Pauses = 0
    MaxAge = 2
    MaxDraws = 3
    None = None
INVARIANTS
    DeckDealtEvenly
