SPECIFICATION GrantSpec
CONSTANTS
    c1 = c1
    offline = offline
    profile = profile
    u1 = u1
    Users = {u1}
    Clients = {c1}
    Roles = {"user"}
    Scopes = {offline, profile}
    Offline = offline
    PolicyGrants = {"refresh_token"}
    LogoutRetention = 1
    SessionTTL = 2
    TransactionTTL = 2
    CodeTTL = 1
    AccessTokenTTL = 1
    RefreshMaxTTL = 3
    RefreshInactivityTTL = 2
    SessionCapacity = 10
    AppCapacity = 10
    MaxTime = 2
    MaxRev = 0
    MaxLag = 0
    MaxId <- OfflineKeys
    MaxAges <- NoAges
INVARIANTS
    OneLiveRefreshToken
    MintedOnce
    WithdrawnConsent
PROPERTIES
    ScopesNeverWiden
