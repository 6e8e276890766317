CONSTANTS
    p1 = p1
    p2 = p2
    p3 = p3
    m1 = m1
    m2 = m2
    Peers = {p1}
    Machines = {m1}
    Groups = {g1, g2}
    MachineOf <- OneProgram
    Refused = {}
    Conns = {k1, k2, k3}
    Objs = {m1, o1}
    None = None
    MaxFaults = 2
SPECIFICATION FairSpec
PROPERTIES SelfHeals
CHECK_DEADLOCK FALSE
