SPECIFICATION FairSpec
CONSTANTS
    Subs = {w1, w2}
    N = 2
    MaxChanges = 2
    MaxFails = 1
    None = None
CHECK_DEADLOCK FALSE
INVARIANT UpToDate
PROPERTY ChangesSurvive
