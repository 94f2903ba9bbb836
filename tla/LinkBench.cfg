SPECIFICATION FairSpec
CONSTANTS
    Threads = {t1, t2}
    Loaders = {t1, t2}
    Requesters = {t1, t2}
    Id1s <- TwoIds
    Id2s = {0, 1}
    Data = {d1, d2}
    Null = Null
    Calls <- FewRequests
    NLinks <- TwoAndOne
    BatchSizes = {0, 2}
    ChunkSize = 1
    LoadData = d1
    NumRequests = 1
    MaxFailed = 0
    MaxFaults = 2
INVARIANTS
    TypeOK
    LoadedCountsMatch
    NothingDropped
    LoadedAreStored
    IdleHoldsNothing
PROPERTIES
    FoundIsTrue
    GraphImplemented
    BenchEnds
