SPECIFICATION Spec
CONSTANTS
    None = None
    office = office
    office2 = office2
    Tunnels = {1, 2}
    Names = {office, office2}
    Nets = {n1}
    MaxUpdates = 2
    MaxMishaps = 1
    StartsWith <- MCStartsWith
CHECK_DEADLOCK FALSE
INVARIANTS
    
    InterfaceOfOne
    
