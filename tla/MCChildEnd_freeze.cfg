SPECIFICATION EndFairSpec
CONSTANTS
    Terms = {t1}
    HupWait = 2
    TermWait = 5
    KillWait = 2
    Deaf <- Stubborn
    CanDetach = TRUE
CHECK_DEADLOCK FALSE
PROPERTY LoopRuns
