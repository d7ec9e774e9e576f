SPECIFICATION Spec
CONSTANTS
    d = d
    o = o
    i = i
    m1 = m1
    Grants = {d, o, i}
    Kind <- OneOfEach
    Members = {m1}
    Allocs = {a1, a2}
    Owner <- OneOwner
    Secrets = {k1, k2}
    Codes = {c1, c2}
    Reqs = {r1, r2}
    None = None
CHECK_DEADLOCK FALSE
SYMMETRY Symmetry
INVARIANTS
    TypeOK
    SerialExactlyOnce
    KeyMatchesCode
    RowCoherent
PROPERTIES
    SpentStaysSpent
