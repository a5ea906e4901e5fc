SPECIFICATION FairSpec
CONSTANTS
    None = None
    t1 = t1
    t2 = t2
    t3 = t3
    Threads <- MCThreads
    Frames = {f1, f2}
    Parts = 2
    WriteSlots = 1
    QueueCapacity = 2
    BatchCapacity = 1
    RetryBound = 1
    Setups <- MCSetups
INVARIANTS
    ArenasSettled
    FramesExact
    SlotExclusive
    OperationsServed
PROPERTY
    ReleaseReachesWaiter
