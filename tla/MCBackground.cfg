CONSTANTS
    w1 = w1
    w2 = w2
    c1 = c1
    c2 = c2
    r1 = r1
    r2 = r2
    primary = primary
    resend = resend
    d1 = d1
    paid = paid
    Rule = Rule
    Invoice = Invoice
    NoWorker = NoWorker
    NoExec = NoExec
    NoTx = NoTx
    NoRun = NoRun
    NoStamp = NoStamp
    NoCapture = NoCapture
    Job <- Jobs
    Worker <- TwoWorkers
    Client <- TwoClients
    Run <- TwoRuns
    Msg <- Mails2
    InvMsg <- TwoMails
    Doc = d1
    Event <- Paid
    Delivery <- TwoRows
    Firings <- Rules
    MaxAttempts = 2
    MaxGen = 1
    MaxSeq = 1
    MaxFaults = 2
SPECIFICATION FairSpec
INVARIANTS
    WaitingHasJob
    RunSound
    CaptureSound
    EventsKept
PROPERTIES
    ImplementsSendOnce
    StampedOnce
    DiscardsOnRecord
    Decided
CHECK_DEADLOCK FALSE
