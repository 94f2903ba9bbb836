SPECIFICATION FairSpec
CONSTANTS
    NumWare = 2
    DistPerWare = 2
    CustPerDist = 2
    MaxItems = 2
    MaxOrderId = 3
    DeliveredInit = 1
    InitStock = 10
    Names <- MC_Names
    LastName <- MC_LastName
    BadCredit = {}
    Loaders = {"load1", "load2"}
    Parts <- TwoLoaders
    MinWare <- FirstWarehouse
    MaxWare <- LastWarehouse
    OlCounts = {1, 2}
    MaxFaults = 2
INVARIANTS
    TypeOK
    CommittedWhole
    DoneIsLoaded
    LoadedIsConsistent
PROPERTIES
    EveryLoadEnds
