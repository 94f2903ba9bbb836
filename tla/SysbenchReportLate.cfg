SPECIFICATION FairSpec
CONSTANTS
    Options <- Reported
    MaxThreads = 1
    RateWindow = 1
    MaxSecs = 2
    MaxAge = 4
    MaxFaults = 0
    Free = Free
    Destroyed = Destroyed
PROPERTIES
    SilencedReportEnds
