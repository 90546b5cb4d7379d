SPECIFICATION FairSpec
CONSTANTS
    r1 = r1
    r2 = r2
    r3 = r3
    default = default
    other = other
    c1 = c1
    c2 = c2
    c3 = c3
    NoRequest = NoRequest
    NoTenant = NoTenant
    NoList = NoList
    NoContext = NoContext
    Requests = {r1, r2, r3}
    Tenants = {default}
    Default = default
    Contexts = {c1, c2, c3}
    Uses <- Saving
    MaxSaves = 2
    Retries = 1
PROPERTIES
    RequestsEnd
