SPECIFICATION Spec
CONSTANTS
    Line = {h1, a1}
    EnvRules = {h2}
    MaxEdits = 3
    Request = {r1}
    Host = {h1, h2}
    Address = {a1, a2}
    NoAddress = NoAddress
    BlockedCIDRs = {a1, a2}
    AllowedCIDRs = {a1}
    MaxRedirects = 2
    MaxFileSize = 1
INVARIANTS TypeOK FreshWhenWatched OneRuleSetDecides DialsAreVetted BodiesAreWhole
PROPERTY WatchedEditsTakeEffect
CHECK_DEADLOCK FALSE
