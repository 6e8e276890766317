CONSTANTS
    p1 = p1
    p2 = p2
    p3 = p3
    m1 = m1
    m2 = m2
    Peers = {p1, p2, p3}
    Machines = {m1, m2}
    Groups = {g1}
    MachineOf <- TwoMachines
    Refused = {}
    Conns = {k1, k2, k3}
    Objs = {m1, m2, o1, o2}
    None = None
    MaxFaults = 1
SYMMETRY Symmetry
SPECIFICATION Spec
INVARIANTS TypeOK   RoutesToMachine
CHECK_DEADLOCK FALSE
