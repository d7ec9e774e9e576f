SPECIFICATION Spec
CONSTANTS
    m1 = m1
    x = x
    a1 = a1
    a2 = a2
    Members = {m1}
    Models = {x}
    Allocs = {a1, a2}
    Owner <- OneOwner
    ModelOf <- OneModel
    Reqs = {r1, r2}
    Nobody = Nobody
PROPERTIES
    RevokedIsTerminal
