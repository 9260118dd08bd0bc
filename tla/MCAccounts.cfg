SPECIFICATION PartSpec
CONSTANTS
    Absent = Absent
    Nobody = Nobody
    Procs = {p1, p2}
    Users = {u1, u2}
    Hashes = {h1, h2, h3}
    Initials = {i1}
    Clients = {c1, c2, c3}
    MaxUses = {1, 2}
    MaxWriteRetries = 2
    MaxCred = 1
    Parts = {"admins", "signins", "tokens", "clients"}
    On = {"file", "postgres", "mongodb"}
SYMMETRY Symmetry
CHECK_DEADLOCK FALSE
INVARIANTS TypeOK AdminRemains FirstRunOnce SignInsCurrent OneRecordPerID Quota NoOrphanCredential
PROPERTY RevokedFinal
