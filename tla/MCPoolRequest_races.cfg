\* Two chat requests that may share a session, two accounts that start fresh,
\* exhausted or limited for the model.  MaxRetries is 3 in place of 16: with two
\* accounts no chain of retries without transport errors is longer.
SPECIFICATION Spec
CONSTANTS
    NumAccounts = 2
    Models = {m}
    NoModel = NoModel
    MaxQuota = 1
    ShortCool = 1
    LongCool = 1
    Requests = {r1, r2}
    Kinds = {"chat"}
    Sessions = {s}
    NoSession = NoSession
    Bindings = {0}
    Refreshable = {}
    Failures = {"busy"}
    MaxRetries = 3
    MaxResets = 1
    MaxAdmin = 0
SYMMETRY Symmetric
INVARIANTS
    GivenUpForGood
PROPERTIES
    SelectionRespectsCooldowns
CHECK_DEADLOCK FALSE
