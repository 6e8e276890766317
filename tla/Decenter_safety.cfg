CONSTANTS
    m1 = m1
    g1 = g1
    Machines = {m1, m2}
    Groups = {g1}
    None = None
    MaxEdits = 1
    MaxFaults = 1
SYMMETRY Symmetry
SPECIFICATION Spec
INVARIANTS TypeOK NeverOutdated
CHECK_DEADLOCK FALSE
