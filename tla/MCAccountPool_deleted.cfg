\* A Delete and a flush of the pool, nothing else.
CONSTANTS
    Ids = {a1}
    Writers = {w1}
    MaxCred = 1
    MaxHot = 1
    MaxFaults = 0
    MaxCrashes = 0
    MaxExternal = 0
SPECIFICATION Spec
INVARIANT DeletedStaysDeleted
CHECK_DEADLOCK FALSE
