SPECIFICATION FairSpec
CONSTANTS
    Options <- AllRuns
    MaxThreads = 2
    RateWindow = 1
    MaxSecs = 2
    MaxAge = 4
    MaxFaults = 1
    Free = Free
    Destroyed = Destroyed
INVARIANTS
    TypeOK
    BarrierHolds
    RequestsServed
    ErrorStops
    RateHeld
PROPERTIES
    RunEnds
