\* Every kind of client, two calls of upstream, streams of up to four events.
SPECIFICATION FairSpec
CONSTANTS
    Sinks = {"json", "chat", "responses", "search"}
    NumCalls = 2
    MaxLines = 4
    MaxTries = 2
INVARIANTS
    ItemsDoneOnce
    StreamedHalfCallFails
    StreamedIsTheTurn
PROPERTIES
    AnswersOnce
    RequestEnds
CHECK_DEADLOCK FALSE
