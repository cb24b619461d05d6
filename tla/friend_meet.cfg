CONSTANTS
    Friend = {f1, f2, f3}
    Cap = 2
    OldFriends = {f1, f2}
    NewFriends = {f3}
    RingSize = 1
    MaxDrops = 1
    MaxPosts = 2
    NoOp = NoOp
    NoReply = NoReply
SPECIFICATION Spec
PROPERTIES ListsMeet WalkLearns
