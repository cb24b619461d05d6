\* MCSpec 
SPECIFICATION MCSpec
CONSTANTS
    Rider = {ann, ben}
    Nobody = Nobody
    MaxBoots = 1
    MaxPeers = 2
    MaxFriends = 1
    AcceptTries = 1
    KeysTries = 1
    MaxLoss = 0
    OnAir = 1
INVARIANTS
    KeysOnlyToConsented
    AckMeansHeld
    PagesMatch
PROPERTIES
    KeepsPromise
SYMMETRY Riders
