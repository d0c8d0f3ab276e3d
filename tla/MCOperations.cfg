\* The parts that share nothing but the process, each at the smallest instance in
\* which its properties can break; a behaviour of the run is one of one part.
SPECIFICATION OperationsSpec
CONSTANTS
    Parts = {"renew", "settings", "rounds", "batch", "pins", "conversations", "admission", "search", "egress", "exits", "tracker", "watch"}
    a1 = a1
    a2 = a2
    Users = {u1}
    AuthStates = {s1}
    Starters = {h1}
    Pollers = {h1}
    Renewers = {r1, r2}
    Egresses = {"proxy"}
    MaxSessions = 1
    MaxIssued = 3
    MaxEdits = 1
    Handlers = {g1, g2}
    Sites = {"global", "domestic"}
    Products = {"cli", "ide"}
    DefaultRouting <- MCDefaultRouting
    OuterKeys = {ok1}
    Unset = Unset
    MaxChanges = 2
    MaxStops = 2
    Members = {a1, a2}
    Windows <- MCWindows
    Draw <- MCDraw
    DayLength = 2
    Broken = Broken
    MaxInstant = 3
    MaxPlans = 2
    MaxProcesses = 1
    TableKeys = {k1, k2, k3}
    TableAccounts = {a1, a2}
    MaxEntries = 2
    TableTTL = 1
    MaxTableTime = 3
    MaxIDs = 4
    ApiKeys = {k0}
    MainKey = k0
    PoolAccounts = {a1, a2}
    RequestSites = {"global", "domestic"}
    Unnamed = Unnamed
    MaxAdmissionChanges = 1
    SearchAccounts = {a1, a2}
    BoundTo = {a1, Unbound}
    Unbound = Unbound
    Amounts = {1}
    MaxCalls = 2
    NameLengths = {0, 3}
    Payload = 2
    Exits = {x1, x2}
    Direct = Direct
    Editors = {e1, e2}
    ExitAccounts = {1, 2, 3}
    MaxExitEdits = 3
    Tracked = {a1, a2}
    Flights = {f1, f2}
    BucketSeconds = 2
    FiveMinutes = 2
    Hour = 4
    MaxEvents = 1
    MaxSeconds = 5
    MaxBegins = 2
    MaxLimits = 2
    MaxPanics = 1
    Samples <- MCSamples
    WindowSize = 2
    BaselineSize = 1
    MinSample = 1
    ErrorPercent = 25
    MissPercent = 50
    LatencyFactor = 3
    Reminder = 2
    Channels = {webhook}
    MaxMinutes = 5
    MaxSamples = 4
    MaxWatchRestarts = 1
INVARIANTS
    KeyDecides
    SearchStaysInside
    DialIsClean
    ExitsAddUp
    PoolHasTheWord
    SettingsSurvive
    DueIsTriedOnce
    BatchIsHonest
    TrackerAddsUp
PROPERTIES
    NewerCredentialStays
    LiveEntriesStay
    WatchKeepsItsWord
CHECK_DEADLOCK FALSE
