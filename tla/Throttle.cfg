SPECIFICATION FairSpec
CONSTANTS
    Emails = {e1, e2}
    Ips = {i1, i2}
    Disabled = {e2}
    Reqs = {r1, r2}
    Threshold = 3
    IpThreshold = 2
    Window = 2
    Lock = 3
INVARIANTS
    FailuresBounded
    InnocentUnlocked
PROPERTIES
    LockEnds
