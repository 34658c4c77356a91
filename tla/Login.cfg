SPECIFICATION Spec
CONSTANTS
    Addrs = {a1, a2, a3}
    Reqs = {r1, r2}
    Free = 1
    MaxDelay = 2
    MaxExponent = 2
    Decay = 1
    Limit = 2
    Slots = 1
    Refused = {k1, k2}
    Window = 1
    Shelf = 1
    MaxHeld = 1
    None = None
INVARIANT BlockHolds
INVARIANT Folded
PROPERTY NotForgotten
