CONSTANTS
    Users = {u1, u2}
    Admins = {a1}
    Networks <- Shrinking
    Requests = {9, 14}
    AnyIP = AnyIP
    None = None
    StaticDays = 0
    IPDays = 0
    MaxDays = 1
    Overlap = TRUE
SPECIFICATION Spec
INVARIANTS UniqueLeases
CHECK_DEADLOCK FALSE
