CONSTANT MaxTwists = 4
SPECIFICATION DialSpec
PROPERTY LeavesEnd
CHECK_DEADLOCK FALSE
