CONSTANTS
    Key = {k1}
    MaxCalls = 2
    MaxLinks = 2
    QueueLen = 1
    MaxTaps = 1
    None = None
SPECIFICATION Spec
PROPERTY NoStaleCall
CHECK_DEADLOCK FALSE
