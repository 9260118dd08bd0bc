SPECIFICATION Spec
CONSTANTS
    p1 = p1
    p2 = p2
    a1 = a1
    rp = rp
    uri = uri
    unset = unset
    Procs = {p1}
    a2 = a2
    Registrations <- AnyRegistration
    Apps = {a1}
    OpOf <- OneSession
    ClientOf <- OneClient
    ExpiresOf <- Expiry
    Endpoints = {uri}
    Unset = unset
    LeaseTTL = 2
    RetryWindow = 3
    MaxDelay = 3
    Retention = 9
    MaxTime = 9
    MaxEnd = 1
    MaxLate = 1
    MaxActs = 1
INVARIANTS
    TypeOK
PROPERTIES
    
    Settled
    ExpirySwept
