SPECIFICATION Spec
CONSTANTS
    t1 = t1
    p1 = p1
    s1 = s1
    s2 = s2
    s3 = s3
    s4 = s4
    o1 = o1
    None = None
    Tenants = {t1}
    Pods = {p1}
    Safe = {s1, s2}
    Overflow = {s3, s4}
    OpnVms = {o1}
    DefaultOpnVm = o1
    Workers = {w1, w2}
    MaxRetries = 0
    MaxCrashes = 1
    PodOf <- OnePodOf
    DefaultNet <- OneDefaultNet
    DefaultSubnet <- OneDefaultSubnet
    OpnVmOf <- OneOpnVmOf
    NetIds <- OneNetIds
    VlanTags <- OneTags
SYMMETRY RowSymmetry
INVARIANTS
    NoLeak
    ExclusiveUnlessReopened
PROPERTIES
    Leased
