CONSTANTS
    q1 = q1
    y1 = y1
    t1 = t1
    t2 = t2
    b1 = b1
    b2 = b2
    s1 = s1
    s2 = s2
    shell = shell
    NoJob = NoJob
    NoClaim = NoClaim
    NoBill = NoBill
    NoRate = NoRate
    NoRequest = NoRequest
    Unmatched = Unmatched
    Claim <- Claims
    Annual <- Annuals
    MonthsOf <- Months
    Txn <- Txns
    MonthOf <- Month
    VatOf <- Vat
    Bill <- Bills
    SupplierOf <- Suppliers
    NumberOf <- Numbers
    FeeRate <- Rates
    ManualCode = {"3"}
    Slot <- TwoSlots
    Workloads <- EveryWorkload
    BinDays = 1
    Included = 2
    Years <- TwoTiers
    NoticeDays = 1
    RetainDays <- NoneOrTwo
    MaxDay = 5
SPECIFICATION Spec
PROPERTIES
    FilingStands
    NothingLost
SYMMETRY Interchangeable
CHECK_DEADLOCK FALSE
