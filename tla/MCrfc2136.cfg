CONSTANTS
    Hosts = {h1}
    Updaters = {t1, t2}
    Deleters = {d1}
    a1 = a1
    a2 = a2
    Addr = {a1, a2}
    None = None
    Omitted = Omitted
    Requests <- MixedRequests
    Backend = "rfc2136"
    SharedSecret = FALSE
    Free = Free
    MaxFaults = 1
SPECIFICATION FairSpec
INVARIANTS StoreAndDnsAgree AnswerIsPublished
PROPERTIES LockIsReleased DeleteLeavesOnlyCrossed KeepsPromise
