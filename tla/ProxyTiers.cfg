SPECIFICATION FairSpec
CONSTANTS
    Request = {r1, r2}
    NoRequest = NoRequest
    Key = {k1, k2, k3}
    Domain = {d1, d2}
    DomainOf <- ManyHosts
    Converted = {k1, k2}
    Asks <- AllAsks
    Blacklisted <- OneBlacklisted
    Status = {304, 410}
    L2Enabled = TRUE
    CanPanic = FALSE
    Threshold = 1
    Timeout = 0
    StaleAge = 0
    Ttl40X = 0
    Ttl5XX = 0
    MaxTime = 0
INVARIANTS LongCachingIsEarned
PROPERTIES EveryoneAnswered FlightsEnd
