SPECIFICATION FairSpec
CONSTANTS
    Key = {k1, k2, k3}
    Size = {1}
    MaxBytes = 2
    TgtBytes = 1
    CanFail = TRUE
    MaxTime = 1
    MaxRequests = 1
INVARIANTS TypeOK DiskWithinLimit EvictsNoMoreThanNeeded
PROPERTIES StoredKeysStayTracked OrphansCollected
