SPECIFICATION Spec
CONSTANTS
    Rows <- MCRows
    Uuids <- MCUuids
    Values = {v1, v2}
    Applies = {1, 2}
    Syncs = {1}
    MaxRequests = 1
    MaxMishaps = 1
    MaxRetries = 1
    None = None
PROPERTIES
    Heals
