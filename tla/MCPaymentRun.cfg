CONSTANTS
    i1 = i1
    i2 = i2
    r1 = r1
    r2 = r2
    u1 = u1
    u2 = u2
    root = root
    s1 = s1
    s2 = s2
    NoRun = NoRun
    NoUser = NoUser
    NoRequest = NoRequest
    Invoice <- OneInvoice
    Run <- TwoRuns
    User <- Everybody
    Admin <- Root
    Slot <- TwoSlots
    Total <- OneAmount
    Ops <- RunsOnly
    Target <- Disputes
    MaxRecords = 1
    MaxExports = 1
    Overlap = TRUE
SPECIFICATION Spec
INVARIANTS
    MakerChecker
    SettledOnce
    NoneStranded
PROPERTIES
    RunIsFinal
SYMMETRY Interchangeable
