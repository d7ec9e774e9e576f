SPECIFICATION Spec
CONSTANTS
    Members = {m1}
    Tags = {t1}
    Rules = {x1, x2, x3}
    Reqs = {r1, r2}
    MaxOrder = 3
    None = None
CONSTRAINT Apart
SYMMETRY Interchangeable
CHECK_DEADLOCK FALSE
INVARIANTS
    RulesOrdered
    AdmittedWasVisible
