SPECIFICATION Spec
CONSTANTS
    Key = {k1}
    Version = {v1, v2}
    None = None
    Writer = {w1, w2}
    Reader = {g1}
    Deleter = {d1}
    MaxCrashes = 1
INVARIANTS TypeOK HitsAreComplete MixedOnlyWhenDisturbed
PROPERTY PutsKeepTheOld
