SPECIFICATION VlanSpec
CONSTANTS
    t1 = t1
    t2 = t2
    p1 = p1
    p2 = p2
    s1 = s1
    s2 = s2
    s3 = s3
    s4 = s4
    o1 = o1
    o2 = o2
    None = None
    Tenants = {t1, t2}
    Pods = {p1, p2}
    Safe = {s1, s2, s3, s4}
    Overflow = {}
    OpnVms = {o1, o2}
    DefaultOpnVm = o1
    Workers = {w1}
    MaxRetries = 0
    MaxCrashes = 0
    PodOf <- TwoPodsOf
    DefaultNet <- TwoDefaultNets
    DefaultSubnet <- TwoDefaultSubnets
    OpnVmOf <- TwoOpnVmsOf
    NetIds <- TwoNetIds
    VlanTags <- TwoTags
INVARIANTS
    NamesApart
    DoneIsWired
SYMMETRY SubnetSymmetry
