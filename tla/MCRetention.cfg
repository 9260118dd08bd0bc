SPECIFICATION PartSpec
CONSTANTS
    Parts = {"pruning", "capacity"}
    u2 = u2
    c1 = c1
    offline = offline
    u1 = u1
    Users = {u1}
    Clients = {c1}
    Roles = {"user"}
    Scopes = {offline}
    Offline = offline
    PolicyGrants = {"refresh_token"}
    LogoutRetention = 0
    SessionTTL = 1
    TransactionTTL = 1
    CodeTTL = 1
    AccessTokenTTL = 1
    RefreshMaxTTL = 2
    RefreshInactivityTTL = 2
    SessionCapacity = 2
    AppCapacity = 1
    MaxTime = 4
    MaxRev = 0
    MaxLag = 0
    MaxId <- RetentionKeys
    MaxAges <- NoAges
INVARIANTS
    FamilyOutlivesTokens
    ReplayEvidence
    CapacityHeld
