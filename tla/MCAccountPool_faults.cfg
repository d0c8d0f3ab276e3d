\* One account, one handler, the loop and Close, with a failing file operation, a
\* crash and restart, and another program that adds the account to the file.
CONSTANTS
    Ids = {a1}
    Writers = {w1}
    MaxCred = 3
    MaxHot = 2
    MaxFaults = 1
    MaxCrashes = 1
    MaxExternal = 1
SPECIFICATION FairSpec
INVARIANT CleanMeansSaved
PROPERTIES DirtyGetsFlushed CloseReturns
CHECK_DEADLOCK FALSE
