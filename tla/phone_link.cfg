CONSTANTS
    NavFrags = 2
    CallFrags = 2
    IdCount = 4
    MaxAir = 1
    MaxOffers = 2
    MaxUpsets = 2
SPECIFICATION Spec
INVARIANTS OnePacket
PROPERTIES Reconnects NewestArrives
CHECK_DEADLOCK FALSE
