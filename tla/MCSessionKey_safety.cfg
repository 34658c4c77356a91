SPECIFICATION Spec
CONSTANTS
    Conns = {c1, c2}
    Enders = {e1}
    Sessions = {s1, s2}
    IdleOn = TRUE
    None = None
SYMMETRY MCSymmetry
INVARIANT OneProcess
INVARIANT NoneAttachedToDying
INVARIANT NobodyForgotten
INVARIANT ObserversKnow
INVARIANT ShutdownReaps
PROPERTY ImplementsSlot
