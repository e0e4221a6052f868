SPECIFICATION Spec
CONSTANTS
    None = None
    Rows = {v1, v2}
    Builds = {b1}
    Threads = {w1, w2}
    Steps = {1, 2}
    Sizes = {1, 2}
    Quota = 5
    Slack = 1
    MaxAsks = 2
    MaxMishaps = 1
SYMMETRY ThreadsRows
INVARIANTS
    TypeOK
    
    GrownOnce
    AnsweredIsGrown
    QuotaKept
CHECK_DEADLOCK FALSE
