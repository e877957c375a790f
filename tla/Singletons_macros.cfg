SPECIFICATION FairSpec
CONSTANTS
    t1 = t1
    t2 = t2
    o1 = o1
    o2 = o2
    Threads <- MCThreads
    Objects <- MCObjects
    Null = Null
    latency = latency
    Names <- MCNames
    Values <- MCValues
    NaN = NaN
    Greatest = 9
    Tiniest = 1
    CounterBits = 2
    MaxCalls = 4
INVARIANTS NothingMiscounted ExtremesWereRecorded
PROPERTY UsesEnd
CHECK_DEADLOCK FALSE
