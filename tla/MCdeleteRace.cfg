CONSTANTS
    Hosts = {h1}
    Updaters = {t1}
    Deleters = {d1}
    a1 = a1
    a2 = a2
    Addr = {a1, a2}
    None = None
    Omitted = Omitted
    Requests <- SteadyRequests
    Backend = "cloudflare"
    SharedSecret = FALSE
    Free = Free
    MaxFaults = 0
SPECIFICATION Spec
PROPERTY DeleteLeavesNoRecords
