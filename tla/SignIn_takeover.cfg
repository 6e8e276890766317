CONSTANTS
    p1 = p1
    p2 = p2
    p3 = p3
    m1 = m1
    m2 = m2
    Peers = {p1, p2}
    Machines = {m1}
    Groups = {g1}
    MachineOf <- CopiedConfig
    Refused = {}
    Conns = {k1, k2, k3}
    Objs = {m1, o1, o2}
    None = None
    MaxFaults = 0
SPECIFICATION Spec
PROPERTIES NoTakeover
CHECK_DEADLOCK FALSE
