SPECIFICATION FairSpec
CONSTANTS
    ProxyRequest = {r1, r2, r3}
    AdminRequest = {a1}
    Background = {cleaner}
INVARIANTS TypeOK OrderlyExitCompletesAll
PROPERTIES NoAddDuringWait ShutdownEnds
CHECK_DEADLOCK FALSE
