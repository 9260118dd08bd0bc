SPECIFICATION Spec
CONSTANTS
    p1 = p1
    p2 = p2
    k1 = k1
    k2 = k2
    k3 = k3
    none = none
    Procs = {p1, p2}
    Kids = {k1, k2, k3}
    None = none
    CertValidity = 2
    TokenTTL = 2
    MaxTime = 3
INVARIANTS
    StaysVerifiable
