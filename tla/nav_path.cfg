CONSTANTS
    TelHold = 1
    ArrivedHold = 2
    NavHold = 3
    Kinds = {"android", "iphone"}
    Routes <- MCRoutes
    Notice <- MCNotice
    QueueLen = 1
    MaxMishaps = 1
    None = None
SPECIFICATION Spec
INVARIANTS HalvesKept ArrivalEarned LiveMeansHeard
PROPERTIES SpeedRunsOut RelayShown
CHECK_DEADLOCK FALSE
