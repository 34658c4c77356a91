SPECIFICATION InputFairSpec
CONSTANTS
    Limit = 3
    Sizes <- FittingSizes
    Room = 2
    MaxMsgs = 5
CHECK_DEADLOCK FALSE
INVARIANT Whole
PROPERTY Delivered
