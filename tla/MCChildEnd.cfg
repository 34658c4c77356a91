SPECIFICATION EndFairSpec
CONSTANTS
    Terms = {t1, t2}
    HupWait = 2
    TermWait = 5
    KillWait = 2
    Deaf <- Stubborn
    CanDetach = TRUE
CHECK_DEADLOCK FALSE
INVARIANT NoZombie
INVARIANT Budget
PROPERTY Gone
