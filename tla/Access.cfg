SPECIFICATION Spec
CONSTANTS
    None = None
    People = {u1, u2}
    Tenants = {t1, t2}
    Custom = {c1}
    Invitations = {i1, i2}
    Threads = {w1, w2}
    MaxMishaps = 1
SYMMETRY Symmetric
INVARIANTS
    OnePending
    GivenOnce
    PendingMeansNoAccess
    MembersHaveRoles
PROPERTIES
    RoleDeletedUnused
CHECK_DEADLOCK FALSE
