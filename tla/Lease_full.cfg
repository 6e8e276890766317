CONSTANTS
    Users = {u1, u2}
    Admins = {a1, a2}
    Networks <- Tiny
    Requests = {9}
    AnyIP = AnyIP
    None = None
    StaticDays = 0
    IPDays = 1
    MaxDays = 2
    Overlap = FALSE
SYMMETRY Symmetry
SPECIFICATION Spec
PROPERTIES NoSteal
CHECK_DEADLOCK FALSE
