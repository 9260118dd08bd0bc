SPECIFICATION PartSpec
CONSTANTS
    Parts = {"races", "requests"}
    c1 = c1
    offline = offline
    u1 = u1
    u2 = u2
    Users = {u1, u2}
    Clients = {c1}
    Roles = {"user"}
    Scopes = {offline}
    Offline = offline
    PolicyGrants = {"refresh_token", "password", "client_credentials"}
    LogoutRetention = 1
    SessionTTL = 2
    TransactionTTL = 2
    CodeTTL = 1
    AccessTokenTTL = 1
    RefreshMaxTTL = 2
    RefreshInactivityTTL = 1
    SessionCapacity = 10
    AppCapacity = 10
    MaxTime = 3
    MaxRev = 1
    MaxLag = 1
    MaxId <- ContentionKeys
    MaxAges <- SomeAges
SYMMETRY UserSymmetry
PROPERTIES
    ClaimKept
INVARIANTS
    CodeAnswersRequest
    GrantsCurrent
    PolicyCut
