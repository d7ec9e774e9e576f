SPECIFICATION Spec
CONSTANTS
    Reqs = {r1, r2}
    Vals = {v1, v2}
    Lists <- Typable
    None = None
SYMMETRY Interchangeable
CONSTRAINT Apart
CHECK_DEADLOCK FALSE
INVARIANTS
    DecisionStands
    ProvenanceTrue
