SPECIFICATION FairSpec
CONSTANTS
    Domain = {d1, d2}
    Call = {c1, c2, c3, c4}
    Threshold = 2
    Timeout = 2
    StaleAge = 1
    MaxTime = 4
INVARIANTS TypeOK BlockedOnEvidence HalfOpenAfterTimeout
PROPERTIES OnlySuccessUnblocks FailedProbeReopens BlockEnds
