SPECIFICATION BlacklistSpec
CONSTANTS
    Line = {l1, l2}
    EnvRules = {e1}
    MaxEdits = 3
PROPERTY EditsTakeEffect
CHECK_DEADLOCK FALSE
