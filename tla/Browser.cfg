SPECIFICATION FairSpec
CONSTANTS
    Tabs = {t1}
    Status = Status
    MaxAttempts = 1
    MaxLogins = 2
    MaxLosses = 2
    None = None
CHECK_DEADLOCK FALSE
INVARIANT NoOrphans
INVARIANT NoReturn
INVARIANT LoggedOutIsQuiet
INVARIANT NeverStranded
PROPERTY StatusKeepsLogin
PROPERTY StatusComesBack
