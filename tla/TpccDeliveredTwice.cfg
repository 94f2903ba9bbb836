SPECIFICATION Spec
CONSTANTS
    NumWare = 1
    DistPerWare = 1
    CustPerDist = 1
    MaxItems = 2
    MaxOrderId = 3
    DeliveredInit = 0
    InitStock = 10
    Names <- MC_Names
    LastName <- MC_LastName
    BadCredit = {1}
    t1 = t1
    t2 = t2
    t3 = t3
    Threads = {t1, t2}
    Null = Null
    Jobs <- WriterMix
    Window = 20
    MaxRetry = 2
    JobsPerThread = 1
    MaxFaults = 0
INVARIANTS
    DeliveredOnce
