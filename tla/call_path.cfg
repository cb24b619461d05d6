CONSTANTS
    Key = {k1}
    MaxCalls = 2
    MaxLinks = 2
    QueueLen = 1
    MaxTaps = 1
    None = None
    MaxTries = 2
    MaxDatabase = 3
    MaxErrors = 1
    MaxChains = 2
    MaxConns = 1
SPECIFICATION CallsSpec
INVARIANT AnswersTapped
PROPERTIES PageKept PageFollows CallGetsPage Discovers
CHECK_DEADLOCK FALSE
