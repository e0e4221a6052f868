SPECIFICATION Spec
CONSTANTS
    None = None
    Tunnels = {1, 2}
    Peers = {p1}
    Subnets = {s1}
    Jobs = {1, 2}
    Hosts <- MCHosts
    Retries = 1
    MaxMishaps = 1
CHECK_DEADLOCK FALSE
INVARIANTS
    TypeOK
    ServersAgree
    ClientsAgree
PROPERTIES
    SubnetsLeased
    Settles
