SPECIFICATION Spec
CONSTANTS
    m1 = m1
    m2 = m2
    Members = {m1, m2}
    Provider <- OneLocal
    Sessions = {s1}
    Reqs = {r1, b}
    Bulks = {b}
    Tokens = {tok}
    None = None
CHECK_DEADLOCK FALSE
CONSTRAINT OneRoute
INVARIANTS
    TypeOK
    LastAdminKept
    DisabledHasNoSession
