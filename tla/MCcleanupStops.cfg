CONSTANTS
    Requests = {r1}
    Hosts = {h1}
    Kinds <- SomeKinds
    Task = Task
    Free = Free
    PoolSize = 2
SPECIFICATION FairSpec
PROPERTIES CleanupNeverStops
