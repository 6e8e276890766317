CONSTANTS
    Users = {u1, u2}
    Admins = {a1}
    Networks <- Shrinking
    Requests = {14}
    AnyIP = AnyIP
    None = None
    StaticDays = 0
    IPDays = 0
    MaxDays = 1
    Overlap = FALSE
SYMMETRY Symmetry
SPECIFICATION Spec
INVARIANTS TypeOK UniqueLeases
CHECK_DEADLOCK FALSE
