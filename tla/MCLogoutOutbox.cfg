SPECIFICATION Spec
CONSTANTS
    p1 = p1
    p2 = p2
    a1 = a1
    rp = rp
    uri = uri
    unset = unset
    Procs = {p1, p2}
    Apps = {a1, a2}
    a2 = a2
    Registrations <- BackRegistration
    OpOf <- OneSession
    ClientOf <- OneClient
    ExpiresOf <- Expiry
    Endpoints = {uri}
    Unset = unset
    LeaseTTL = 1
    RetryWindow = 2
    MaxDelay = 2
    Retention = 3
    MaxTime = 5
    MaxEnd = 1
    MaxLate = 1
    MaxActs = 1
INVARIANTS
    LeaseHeld
    OutboxMatches
PROPERTIES
    Promise
SYMMETRY Interchangeable
