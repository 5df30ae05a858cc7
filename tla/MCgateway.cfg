CONSTANTS
    Threads = {t1, t2}
    Peers = {client, proxy}
    Proxies = {proxy}
    Forwarded = {other}
    NoHeader = NoHeader
    Slugs = {s1, s2}
    NoSlug = NoSlug
    Routes <- SomeRoutes
    PublicLimit = 2
    AdminLimit = 1
    MaxBody = 1
    MaxChunk = 2
    MaxRequests = 4
    Keys <- GatewayKeys
    Limit <- GatewayLimits
    Start <- ClockStart
    Horizon <- ClockHorizon
    Step = 60
    MaxLag = 2
    MaxCleanups = 1
SPECIFICATION GatewaySpec
SYMMETRY ThreadSymmetry
INVARIANTS GatewayTypeOK WithinLimitPerCleanup ClientLimited
PROPERTY RefusedAtLimit
CHECK_DEADLOCK FALSE
