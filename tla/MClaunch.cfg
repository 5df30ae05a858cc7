CONSTANTS
    Hosts = {h1, h2}
    Old = 1
    MaxIssued = 3
SPECIFICATION Spec
SYMMETRY HostSymmetry
INVARIANTS TypeOK AccountsComplete ServesAsConfigured
PROPERTY StartKeepsSecrets
