CONSTANTS
    w1 = w1
    w2 = w2
    c1 = c1
    c2 = c2
    r1 = r1
    s1 = s1
    s2 = s2
    NoWorker = NoWorker
    NoExec = NoExec
    NoTx = NoTx
    NoSweep = NoSweep
    Nothing = Nothing
    Job <- Jobs
    Worker <- TwoWorkers
    Client <- TwoClients
    Payment <- OnePayment
    Session <- TwoSessions
    MaxAttempts = 2
    Days = 3
    MonthOf <- MonthEnd
    MaxCount = 2
    Length = 1
    MaxEvents = 3
    MaxFaults = 2
    Workloads <- EveryWorkload
SPECIFICATION Spec
INVARIANTS
    DayIsScheduled
    MeteredOnce
    ChargedOnce
    NewestWins
SYMMETRY Interchangeable
CHECK_DEADLOCK FALSE
