SPECIFICATION StoreSpec
CONSTANTS
    Threads = {t1, t2}
    Id1s = {1}
    Id2s = {0, 1}
    Data = {d1}
    Null = Null
    Calls <- RequestCalls
    MaxFaults = 1
INVARIANT CountsAlwaysMatch
