SPECIFICATION Spec
CONSTANTS
    t1 = t1
    t2 = t2
    None = None
    Ids = {i1, i2}
    Tenants = {t1, t2}
    Threads = {w1, w2}
    MaxMishaps = 1
    MaxVms <- OneAndNone
    Pids <- MCPids
SYMMETRY IdsThreads
INVARIANTS
    QuotaOvershoot
    RowKeepsItsVm
    DeletedRowLeavesNoVm
    StatusTellsPower
