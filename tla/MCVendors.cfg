CONSTANTS
    v1 = v1
    v2 = v2
    u1 = u1
    u2 = u2
    s1 = s1
    s2 = s2
    NoValue = NoValue
    NoUser = NoUser
    NoRequest = NoRequest
    Field <- Fields
    Value <- TwoValues
    User <- Users
    Slot <- TwoSlots
    Workloads <- EveryWorkload
SPECIFICATION Spec
INVARIANTS
    TwoPeople
    RequestTellsTruth
SYMMETRY Interchangeable
CHECK_DEADLOCK FALSE
