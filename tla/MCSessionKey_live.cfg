SPECIFICATION FairSpec
CONSTANTS
    Conns = {c1, c2}
    Enders = {e1}
    Sessions = {s1, s2}
    IdleOn = FALSE
    None = None
PROPERTY EndCompletes
PROPERTY ConnectSettles
PROPERTY AbandonedSettles
