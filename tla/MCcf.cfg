CONSTANTS
    Hosts = {h1}
    Updaters = {t1, t2}
    Deleters = {d1}
    a1 = a1
    a2 = a2
    Addr = {a1, a2}
    None = None
    Omitted = Omitted
    Requests <- AllRequests
    Backend = "cloudflare"
    SharedSecret = FALSE
    Free = Free
    MaxFaults = 1
SPECIFICATION Spec
SYMMETRY ThreadSymmetry
INVARIANTS TypeOK StoreAndDnsAgree AnswerIsPublished OneRecordPerFamily AuditCurrent
PROPERTIES StoredIsPublished DeleteLeavesOnlyCrossed KeepsPromise UsesHostLock LockHolderAdvances
