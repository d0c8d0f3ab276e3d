\* The self-update, the logins, the model lists and the journal,
\* each under its fairness; a behaviour of the run is one of one of them.
SPECIFICATION ServiceSpec
CONSTANTS
    MaxFaults = 2
    Users = {u1}
    AuthStates = {s1, s2}
    Starters = {h1, h2}
    Pollers = {h1, h2}
    Renewers = {r1}
    Egresses = {"proxy"}
    MaxSessions = 2
    MaxIssued = 2
    MaxEdits = 1
    CacheKeys = {k1}
    Hosts = {c1}
    CacheTTL = 1
    FailTTL = 1
    MaxClock = 2
    MaxLists = 3
    a1 = a1
    m1 = m1
    m2 = m2
    Accounts = {a1}
    Models = {m1, m2}
    Usages <- MCUsages
    JournalCapacity = 2
    HoursPerDay = 2
    WeekDays = 1
    MonthDays = 2
    RetentionDays = 1
    MaxHours = 4
    MaxDuration = 1
    MaxRecords = 3
    MaxMishaps = 1
INVARIANTS
    NeverTwoServices
    OriginalKept
    CancelHonoured
    ReadyIsFresh
    SuccessIsSaved
    ListingsAreYoung
    JournalIsTrue
PROPERTIES
    BusyEnds
    ServiceComesBack
    HandlersReturn
    JournalGetsFlushed
CHECK_DEADLOCK FALSE
