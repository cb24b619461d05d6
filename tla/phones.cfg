CONSTANTS
    Friend = {f1, f2, f3}
    Cap = 2
    OldFriends = {f1, f2, f3}
    NewFriends = {f1, f2, f3}
    RingSize = 1
    MaxDrops = 1
    MaxPosts = 2
    NoOp = NoOp
    NoReply = NoReply
    Slots = 2
    MaxUid = 3
    MaxChanges = 2
    MaxVersion = 2
    MaxSessions = 2
    Free = Free
SPECIFICATION PhonesSpec
SYMMETRY Symmetry
INVARIANTS AnsweredOnce NothingLost UpToDate CallIsReal
CHECK_DEADLOCK FALSE
