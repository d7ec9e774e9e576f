SPECIFICATION Spec
CONSTANTS
    Allocs = {1, 2}
    Jobs = {r1, r2}
    Quotas = {}
    Totals = {3}
    Floors = {1}
    Unlimited = Unlimited
    MaxUsage = 1
    MaxInt = 8
SYMMETRY Symmetry
CONSTRAINT Usual
INVARIANTS
    TypeOK
    NoCircle
PROPERTIES
    PinnedUntouched
    SharesSound
    ConservedWhenCurrent
    OneCronRun
