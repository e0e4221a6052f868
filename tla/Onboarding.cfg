SPECIFICATION Spec
CONSTANTS
    d1 = d1
    d2 = d2
    None = None
    Tenants = {t1, t2}
    Pods = {d1, d2}
    Bridges = {b1, b2}
    Threads = {w1, w2}
    MaxMishaps = 1
    MaxTenants <- TwoPods
    Messages <- MCMessages
SYMMETRY TenantsBridgesThreads
INVARIANTS
    BridgesAgree
    ActiveHasVm
    PodsWithinLimit
CHECK_DEADLOCK FALSE
