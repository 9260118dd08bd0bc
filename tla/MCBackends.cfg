SPECIFICATION BoundedSpec
CONSTANTS
    Null = Null
    c1 = c1
    offline = offline
    u1 = u1
    u2 = u2
    Users = {u1, u2}
    Clients = {c1}
    Roles = {"user"}
    Scopes = {offline}
    Offline = offline
    PolicyGrants = {"refresh_token", "client_credentials"}
    LogoutRetention = 0
    SessionTTL = 1
    TransactionTTL = 1
    CodeTTL = 1
    AccessTokenTTL = 1
    RefreshMaxTTL = 2
    RefreshInactivityTTL = 1
    SessionCapacity = 10
    AppCapacity = 10
    MaxTime = 2
    MaxRev = 1
    MaxLag = 0
    MaxId <- BackendKeys
    MaxAges <- NoAges
    Channels <- BothChannels
VIEW view
INVARIANTS
    PostgresAgrees
    MongoAnswersAlike
    
