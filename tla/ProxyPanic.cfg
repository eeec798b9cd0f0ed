SPECIFICATION Spec
CONSTANTS
    Request = {r1, r2}
    NoRequest = NoRequest
    Key = {k1}
    Domain = {d1}
    DomainOf <- OneHost
    Converted = {k1}
    Asks <- OrdinaryAsks
    Blacklisted = {}
    Status = {404}
    L2Enabled = FALSE
    CanPanic = TRUE
    Threshold = 2
    Timeout = 1
    StaleAge = 1
    Ttl40X = 1
    Ttl5XX = 1
    MaxTime = 1
INVARIANT PanicsAreRecovered
