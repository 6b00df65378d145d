SPECIFICATION Spec
CONSTANTS
    Creators = {c1}
    Sessions = {s1}
    MaxCrashes = 1
INVARIANT UpgradeSucceeds
CHECK_DEADLOCK FALSE
