\* One search that streams its events, two accounts, the limits of the code.
SPECIFICATION Spec
CONSTANTS
    NumAccounts = 2
    Models = {m}
    NoModel = NoModel
    MaxQuota = 0
    ShortCool = 1
    LongCool = 1
    Requests = {r1}
    Kinds = {"search"}
    Sessions = {s}
    NoSession = NoSession
    Bindings = {0}
    Refreshable = {}
    Failures = {"busy", "quota"}
    MaxRetries = 16
    MaxResets = 2
    MaxAdmin = 0
PROPERTIES
    DeliveredNotReplayed
CHECK_DEADLOCK FALSE
