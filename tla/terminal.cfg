CONSTANTS
    QuietTicks = 1
    MaxSets = 2
    MaxAvatars = 2
    MaxFlaws = 2
    MaxGap = 2
    MinStep = 3
    SaveEvery = 3
    MaxMeters = 14
    MaxHeading = 6
    MaxFaults = 1
    Sectors = 3
    PerSector = 2
    QueueLen = 2
    MaxIndex = 9
    MaxCuts = 2
    MaxEvents = 2
    Riders = 3
    MaxCard = 2
    MaxTurns = 3
    MaxRings = 4
    MaxTwists = 4
    MaxTurnings = 5
    Circle = 6
    Slew = 1
    MaxBends = 1
    MaxPockets = 1
    MaxReboots = 1
    OutboxLen = 2
    AdvertPasses = 2
    DedupLen = 2
    RxLen = 1
    MaxSent = 3
    MaxUpsets = 1
    RosterCap = 1
    MaxMishaps = 1
    MaxRoster = 2
    WaitRounds = 2
    SplashPasses = 7
    SavePasses = 2
    MaxResets = 1
    Drawables = {"straight", "turn_left", "turn_slight_right", "turn_sharp_left", "u_turn_right",
                 "roundabout_right", "roundabout_straight", "roundabout_left", "right_merge"}
    HeadDepth = 540
    Fine = 1000
    UnitParts = 44
    Middle = 120
    Raised = 440
    MaxLegs = 3
    Pack = {"near"}
    Pace = 1
    Leads = {1}
    OwnFixes = 2
    PosMaxAge = 1
    OffsetMaxAge = 1
    ShowFor = 1
    PeerTimeout = 1
    PhoneMaxAge = 2
    PeerSlots = 2
    MaxClock = 3
    MaxMarkers = 2
    Round = 2
    Presets = 2
    Fallback = 2
    Avatars = {0, 1}
    Accents = {0}
    MaxWhims = 1
    NoHeading = NoHeading
    Nothing = Nothing
    NotANumber = NotANumber
    Refused = Refused
    Absent = Absent
    Ignored = Ignored
SPECIFICATION Spec
INVARIANTS FlashKept BroughtUp FriendsTrue CardTrue AsWritten Understood ArrowTrue  AiredAndHeard
PROPERTIES StoresSettle PagesKept HoldsMeant CompassTrue FacesSettle
CHECK_DEADLOCK FALSE
