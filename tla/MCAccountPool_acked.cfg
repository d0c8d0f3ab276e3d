\* Two handlers that each save an account, nothing fails.
CONSTANTS
    Ids = {a1, a2}
    Writers = {w1, w2}
    MaxCred = 3
    MaxHot = 0
    MaxFaults = 0
    MaxCrashes = 0
    MaxExternal = 0
SPECIFICATION Spec
INVARIANT CredentialsNeverLost
CHECK_DEADLOCK FALSE
