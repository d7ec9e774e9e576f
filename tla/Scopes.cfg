SPECIFICATION Spec
CONSTANTS
    m1 = m1
    x = x
    y = y
    a1 = a1
    a2 = a2
    a3 = a3
    Members = {m1}
    Models = {x, y}
    Allocs = {a1, a2, a3}
    Owner <- OneOwner
    ModelOf <- TwoModels
    Keys = {c1, c2, c3}
    Holder <- OneHolder
    Tokens = {t1, t2, t3}
    Reqs = {r1, r2}
    NoToken = NoToken
    NoKey = NoKey
CHECK_DEADLOCK FALSE
SYMMETRY Symmetry
CONSTRAINT AllActive
INVARIANTS
    ScopeModelsDistinct
    ScopeOwned
PROPERTIES
    DeadTokensStayDead
    RevokedKeyStaysRevoked
