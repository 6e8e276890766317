CONSTANTS
    Calls = {c1, c2}
    Conns = {k1}
    None = None
    MaxId = 9
    WrapAt = 8
SYMMETRY Symmetry
SPECIFICATION Spec
INVARIANTS OwnAnswer
CHECK_DEADLOCK FALSE
