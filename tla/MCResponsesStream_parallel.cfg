\* Two calls whose fragments upstream interleaves.
SPECIFICATION Spec
CONSTANTS
    Sinks = {"responses"}
    NumCalls = 2
    MaxLines = 4
    MaxTries = 1
INVARIANTS
    CallsKeepTheirArguments
CHECK_DEADLOCK FALSE
