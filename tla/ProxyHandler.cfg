SPECIFICATION Spec
CONSTANTS
    Request = {r1, r2, r3}
    NoRequest = NoRequest
    Key = {k1}
    Domain = {d1}
    DomainOf <- OneHost
    Converted = {k1}
    Asks <- DebugAsks
    Blacklisted = {}
    Status = {404, 503}
    L2Enabled = FALSE
    CanPanic = TRUE
    Threshold = 2
    Timeout = 0
    StaleAge = 1
    Ttl40X = 1
    Ttl5XX = 0
    MaxTime = 1
SYMMETRY RequestSymmetry
INVARIANTS TypeOK SingleFlight NoLostWaiter OnlyGoodMediaCached EachFailureCountedOnce
PROPERTIES BreakerProtocol NegativeEntriesLapse
CHECK_DEADLOCK FALSE
