CONSTANTS
    Hosts = {h1}
    Updaters = {t1}
    Deleters = {}
    a1 = a1
    a2 = a2
    Addr = {a1, a2}
    None = None
    Omitted = Omitted
    Requests <- FlipRequests
    Backend = "cloudflare"
    SharedSecret = FALSE
    Free = Free
    MaxFaults = 1
SPECIFICATION Spec
INVARIANT AnsweredAddressIsPublished
