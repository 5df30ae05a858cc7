CONSTANTS
    Domains <- OneDomain
    Hosts <- OneHost
    Zones <- ApexZone
    DnsConfigured = TRUE
    Threads = {t1, t2}
    MaxClaims = 2
SPECIFICATION Spec
INVARIANT VerifiedTokenWasFound
