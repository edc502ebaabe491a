SPECIFICATION FairSpec
CONSTANTS
    t1 = t1
    t2 = t2
    t3 = t3
    p1 = p1
    p2 = p2
    None = None
    Threads = {t1, t2, t3}
    Processes = {p1, p2}
    ProcessOf <- MCProcessOf
    MaxNesting = 2
    MaxCrashes = 2
INVARIANTS
    TypeOK
    MutualExclusion
    NestedEntryFindsTheCount
PROPERTIES
    ImplementsMutex
    WaiterIsServed
