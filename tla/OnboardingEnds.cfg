SPECIFICATION Spec
CONSTANTS
    d1 = d1
    d2 = d2
    None = None
    Tenants = {t1}
    Pods = {d2}
    Bridges = {b1}
    Threads = {w1, w2}
    MaxMishaps = 2
    MaxTenants <- OnePod
    Messages <- MCMessages
CHECK_DEADLOCK FALSE
INVARIANTS
    ActiveHasVm
PROPERTIES
    ProvisioningEnds
