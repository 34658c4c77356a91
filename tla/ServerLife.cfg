SPECIFICATION LifeSpec
CONSTANTS
    Servers = {s1, s2}
    Starts = {a1}
    Stops = {b1}
    Inodes = {i1, i2, i3}
    Nil = Nil
    MaxTries = 2
    Supervised = TRUE
    MaxCerts = 1
CHECK_DEADLOCK FALSE
INVARIANT OneUnlessTorn
INVARIANT CertCurrent
PROPERTY StopSticks
