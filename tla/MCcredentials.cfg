CONSTANTS
    Hosts = {h1}
    Threads = {t1, t2}
    Loop = loop
    MaxIssued = 3
SPECIFICATION Spec
SYMMETRY ThreadSymmetry
INVARIANTS TypeOK SecretsAreShown ActsOnItsAccount
PROPERTY UsedAccountStays
