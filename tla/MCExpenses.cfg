CONSTANTS
    p1 = p1
    p2 = p2
    i1 = i1
    i2 = i2
    i3 = i3
    t1 = t1
    t2 = t2
    b1 = b1
    b2 = b2
    a1 = a1
    a2 = a2
    k1 = k1
    s1 = s1
    s2 = s2
    Membership = Membership
    Open = Open
    NoKey = NoKey
    NoTxn = NoTxn
    NoItem = NoItem
    NoReport = NoReport
    NoBatch = NoBatch
    NoRequest = NoRequest
    NoOne = NoOne
    Report <- Reports
    Item <- Items
    Txn <- Transactions
    Batch <- Batches
    Approver <- Approvers
    Admin = a2
    Slot <- TwoSlots
    Key <- Keys
    Amount <- Amounts
    TxnAmount = 2
    Policies <- SomePolicies
    MaxSteps = 2
    MaxGen = 4
    MaxVersion = 4
    MaxExports = 2
    Workloads <- EveryWorkload
SPECIFICATION Spec
INVARIANTS
    BatchesSound
    EntriesSound
    RetryFindsOutcome
    DecisionsSound
PROPERTIES
    DecidedStaysDecided
SYMMETRY Interchangeable
CHECK_DEADLOCK FALSE
