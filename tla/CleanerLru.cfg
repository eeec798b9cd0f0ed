SPECIFICATION Spec
CONSTANTS
    Key = {k1, k2}
    Size = {1}
    MaxBytes = 1
    TgtBytes = 1
    CanFail = FALSE
    MaxTime = 3
    MaxRequests = 3
PROPERTY EvictsLeastRecentlyUsed
