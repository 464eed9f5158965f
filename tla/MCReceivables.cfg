CONSTANTS
    d1 = d1
    d2 = d2
    d3 = d3
    r1 = r1
    r2 = r2
    l1 = l1
    l2 = l2
    k1 = k1
    k2 = k2
    s1 = s1
    s2 = s2
    Issuer = Issuer
    Schedule = Schedule
    NoKey = NoKey
    NoRequest = NoRequest
    NoReceipt = NoReceipt
    NoTarget = NoTarget
    Doc <- Documents
    Slot <- TwoSlots
    Key <- Keys
    Amount <- Cents
    MaxPeriod = 2
    CatchUpCap = 2
    Workloads <- EveryWorkload
    Receipt <- Receipts
    ReceiptAmount = 2
    Line <- Lines
    LineAmount = 2
    MaxEntries = 4
    MaxNotes = 2
SPECIFICATION Spec
INVARIANTS
    LedgerSound
    Numbering
    VoidStaysUnpaid
    OneLinePerTarget
PROPERTIES
    IssuedIsImmutable
    NeverOverpaid
SYMMETRY Interchangeable
CHECK_DEADLOCK FALSE
