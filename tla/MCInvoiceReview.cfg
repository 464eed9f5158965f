CONSTANTS
    u1 = u1
    u2 = u2
    u3 = u3
    root = root
    s1 = s1
    s2 = s2
    Anyone = Anyone
    NoUser = NoUser
    NoRequest = NoRequest
    User <- Everybody
    Admin <- Root
    Chains <- UsualChains
    Slot <- OneSlot
    Target <- AnyTarget
    MaxVersion = 5
    Overlap = FALSE
SPECIFICATION Spec
INVARIANTS
    VersionIsSnapshot
    ChainSound
