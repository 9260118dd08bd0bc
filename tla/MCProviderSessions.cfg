SPECIFICATION RemovalSpec
CONSTANTS
    c1 = c1
    offline = offline
    u1 = u1
    u2 = u2
    Users = {u1, u2}
    Clients = {c1}
    Roles = {"user"}
    Scopes = {}
    Offline = offline
    PolicyGrants = {}
    LogoutRetention = 0
    SessionTTL = 1
    TransactionTTL = 2
    CodeTTL = 2
    AccessTokenTTL = 2
    RefreshMaxTTL = 2
    RefreshInactivityTTL = 1
    SessionCapacity = 10
    AppCapacity = 10
    MaxTime = 2
    MaxRev = 0
    MaxLag = 0
    MaxId <- SessionKeys
    MaxAges <- NoAges
SYMMETRY UserSymmetry
INVARIANTS
    TypeOK
    AppSessionLineage
    LogoutEndsOnlineGrants
    OneOfEach
PROPERTIES
    SignOutFinal
    FinalStatesStay
