SPECIFICATION FairSpec
CONSTANTS
    Conns = {c1}
    Caps = {1, 3}
    Rates = {1, 2}
    MaxAudio = 4
    MaxSpent = 2
    None = None
CHECK_DEADLOCK FALSE
INVARIANTS
    ReasonsAgree
    AllAudioBilled
PROPERTIES
    CondemnedEnds
