\* A resume whose start_ready fails on the task of another workspace.
SPECIFICATION SchedSpec
CONSTANTS
    FirstId = 1
    LastId = 2
    Workspaces <- TwoWorkspaces
    Home <- OneEach
    Messages <- OneMessage
    Requests <- NoRequests
    Outcome <- AllOutcomes
    Texts <- OneText
    Limit = 1
    MaxEpoch = 2
    MaxCrashes = 0
    Resumers <- OneResumer
    Cancellers <- NoCancellers
    NoAgent = NoAgent
    NoThread = NoThread
    NoMessage = NoMessage
    Loop = Loop
    Damaged <- Intact
    w1 = w1
    w2 = w2
    m1 = m1
    m2 = m2
    resumer = resumer
    canceller = canceller
    canceller2 = canceller2
PROPERTIES
    FailedResumeRestores
CHECK_DEADLOCK FALSE
