SPECIFICATION ServerFairSpec
CONSTANTS
    Socks = {c1, c2}
    Buffer = 1
    High = 2
    Low = 1
    MaxOut = 2
    None = None
INVARIANT Seamless
INVARIANT ExitIsLast
INVARIANT Accounted
INVARIANT NeverDeaf
PROPERTY CloseBounded
