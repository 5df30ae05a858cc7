CONSTANTS
    Domains <- TwoDomains
    Hosts <- TwoHosts
    Zones <- ApexZone
    DnsConfigured = TRUE
    Threads = {t1, t2}
    MaxClaims = 2
SPECIFICATION Spec
SYMMETRY ThreadSymmetry
INVARIANTS TypeOK HostUnderProvenDomain NoEarlierClaimVerified VerifiedInItsTime
PROPERTY VerifiedIsKept
