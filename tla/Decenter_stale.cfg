CONSTANTS
    m1 = m1
    g1 = g1
    Machines = {m1, m2}
    Groups = {g1}
    None = None
    MaxEdits = 1
    MaxFaults = 0
SPECIFICATION FairSpec
PROPERTIES Converges
CHECK_DEADLOCK FALSE
