SPECIFICATION FairSpec
CONSTANTS
    t1 = t1
    t2 = t2
    o1 = o1
    o2 = o2
    o3 = o3
    fresh = fresh
    used = used
    Threads <- MCThreads
    Objects <- MCObjects
    Contents <- MCContents
    Fresh = fresh
    NoObject = NoObject
    NoThread = NoThread
    InitialSize = 1
    MaxSize = 2
    AllocFails = TRUE
INVARIANTS OneOwner NoNullWhenFree SizeBound
PROPERTIES DestroyedUnlocked ImplementsCache CallsReturn LockGivenBack
CHECK_DEADLOCK FALSE
