SPECIFICATION Spec
CONSTANTS
    Events = {e1, e2, e3}
    Reqs = {r1, r2}
    None = None
SYMMETRY Interchangeable
CHECK_DEADLOCK FALSE
INVARIANTS
    TypeOK
    OneWindowAtATime
    CountsAgree
    VerifiedWasTested
