CONSTANTS
    Friend = {f1, f2}
    Cap = 2
    OldFriends = {f1, f2}
    NewFriends = {f1, f2}
    RingSize = 1
    MaxDrops = 0
    MaxPosts = 2
    NoOp = NoOp
    NoReply = NoReply
SPECIFICATION Spec
INVARIANT NobodyDropped
