CONSTANTS
    m1 = m1
    g1 = g1
    Machines = {m1, m2}
    Groups = {g1, g2}
    None = None
    MaxEdits = 0
    MaxFaults = 1
SPECIFICATION FairSpecFrom1
PROPERTIES  Discovers
CHECK_DEADLOCK FALSE
