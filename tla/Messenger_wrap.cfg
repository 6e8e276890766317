CONSTANTS
    Calls = {c1, c2}
    Conns = {k1, k2}
    None = None
    MaxId = 2
    WrapAt = 1
SPECIFICATION FairSpec
INVARIANTS TypeOK NoLeak AnswerCarriesKey SoleOwnerStaysRegistered
PROPERTIES WrittenReturns
CHECK_DEADLOCK FALSE
