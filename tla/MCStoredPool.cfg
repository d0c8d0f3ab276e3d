\* One account, two handlers, the loop and Close, with a failing file operation, a
\* crash and restart, and another program that adds the account to the file.  Two
\* new versions and any number of deletions: enough for a handler to overtake the
\* other, for a flush to overtake both, and for a stale merge.
CONSTANTS
    Ids = {a1}
    Writers = {w1, w2}
    MaxCred = 3
    MaxHot = 1
    MaxFaults = 1
    MaxCrashes = 1
    MaxExternal = 1
SPECIFICATION StoredSpec
SYMMETRY Symmetric
PROPERTIES MemoryNeverRegresses StoreUntilRaced
CHECK_DEADLOCK FALSE
