CONSTANTS
    i1 = i1
    i2 = i2
    r1 = r1
    r2 = r2
    u1 = u1
    u2 = u2
    root = root
    s1 = s1
    s2 = s2
    NoRun = NoRun
    NoUser = NoUser
    NoRequest = NoRequest
    Invoice <- TwoInvoices
    Run <- TwoRuns
    User <- Root
    Admin <- Root
    Slot <- OneSlot
    Total <- SomeAmounts
    Ops <- EveryOp
    Target <- Rework
    MaxRecords = 1
    MaxExports = 0
    Overlap = FALSE
SPECIFICATION Spec
INVARIANTS
    LedgerMatches
    SettlementTraceable
SYMMETRY InterchangeableRows
