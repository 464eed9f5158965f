CONSTANTS
    u1 = u1
    u2 = u2
    u3 = u3
    root = root
    s1 = s1
    s2 = s2
    Anyone = Anyone
    NoUser = NoUser
    NoRequest = NoRequest
    User <- FourPeople
    Admin <- Root
    Chains <- FinanceFinal
    Slot <- OneSlot
    Target <- NoTarget
    MaxVersion = 6
    Overlap = FALSE
SPECIFICATION Spec
INVARIANTS
    ChainCanAdvance
