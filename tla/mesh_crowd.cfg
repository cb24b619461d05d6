\* CrowdSpec 
SPECIFICATION CrowdSpec
CONSTANTS
    Rider = {ann, ben, cat}
    Nobody = Nobody
    MaxBoots = 0
    MaxPeers = 1
    MaxFriends = 1
    AcceptTries = 1
    KeysTries = 1
    MaxLoss = 0
    OnAir = 1
INVARIANTS
    FriendsAgreed
SYMMETRY Suitors
