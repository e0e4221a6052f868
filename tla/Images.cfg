SPECIFICATION Spec
CONSTANTS
    None = None
    Builds = {1, 2}
    Vmids <- MCVmids
    Retries = 1
    MaxMishaps = 1
CHECK_DEADLOCK FALSE
INVARIANTS
    TypeOK
    NoOrphanVm
    RowsHaveVms
PROPERTIES
    CancelSparesOthers
    BuildsEnd
