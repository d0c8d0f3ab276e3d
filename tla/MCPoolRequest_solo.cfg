\* One chat or image request, bound or not, against every error upstream may
\* answer, an account switched on or off meanwhile, and pins that expire.
\* MaxRetries is 3 in place of 16 so that the depth limit is reached.
SPECIFICATION FairSpec
CONSTANTS
    NumAccounts = 2
    Models = {m}
    NoModel = NoModel
    MaxQuota = 0
    ShortCool = 1
    LongCool = 1
    Requests = {r1}
    Kinds = {"chat", "image"}
    Sessions = {s}
    NoSession = NoSession
    Bindings = {0, 1}
    Refreshable = {1}
    Failures = {"transport", "empty", "busy", "model", "quota", "auth", "policy", "other"}
    MaxRetries = 3
    MaxResets = 2
    MaxAdmin = 1
INVARIANTS
    BudgetsHold
PROPERTIES
    BoundStays
    TurnedAwayForCause
    DeliveredNotReplayed
    RequestsReturn
CHECK_DEADLOCK FALSE
