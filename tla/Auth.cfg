SPECIFICATION FairSpec
CONSTANTS
    Socks = {w1, w2}
    MaxTokens = 1
    TTL = 2
    Interval = 1
    MaxLogins = 2
    None = None
CHECK_DEADLOCK FALSE
INVARIANT NoOverstay
INVARIANT EvictedAtOnce
PROPERTY NoLoginLost
PROPERTY LogoutCompletes
