\* PromptRadioSpec 
SPECIFICATION PromptRadioSpec
CONSTANTS
    Rider = {ann, ben}
    Nobody = Nobody
    MaxBoots = 0
    MaxPeers = 1
    MaxFriends = 1
    AcceptTries = 5
    KeysTries = 12
    MaxLoss = 11
    OnAir = 1
PROPERTIES
    Reciprocated
    HandshakesEnd
