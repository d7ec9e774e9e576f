SPECIFICATION Spec
CONSTANTS
    c1 = c1
    c2 = c2
    p = p
    Calls = {c1, c2}
    Limits = {"tokens"}
    MaxUse = 1
    Quotas = {1, 2}
    Params = {p}
    MaxMonth = 1
CONSTRAINT RetriesAlone
SYMMETRY Symmetry
INVARIANTS
    OvershootBounded
    ExactlyOneRecord
PROPERTIES
    BlockedStopsBilling
    LedgerSpec
