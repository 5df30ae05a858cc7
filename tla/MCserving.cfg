CONSTANTS
    Requests = {r1, r2}
    Hosts = {h1}
    Kinds <- SomeKinds
    Task = Task
    Free = Free
    PoolSize = 2
SPECIFICATION FairSpec
INVARIANTS TypeOK MutualExclusion LocksAreBounded WaitsEnd
PROPERTIES KeepsHostLock RequestsMoveOn CleanupGoesOn ShutdownEnds
