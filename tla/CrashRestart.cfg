\* A crash between the stop request of a task without a runtime and its result.
SPECIFICATION SchedSpec
CONSTANTS
    FirstId = 1
    LastId = 1
    Workspaces <- OneWorkspace
    Home <- AllInOne
    Messages <- NoMessages
    Requests <- NoRequests
    Outcome <- AllOutcomes
    Texts <- OneText
    Limit = 1
    MaxEpoch = 1
    MaxCrashes = 1
    Resumers <- NoResumers
    Cancellers <- OneCanceller
    NoAgent = NoAgent
    NoThread = NoThread
    NoMessage = NoMessage
    Loop = Loop
    Damaged <- Intact
    w1 = w1
    w2 = w2
    m1 = m1
    m2 = m2
    resumer = resumer
    canceller = canceller
    canceller2 = canceller2
INVARIANTS
    RestartSucceeds
CHECK_DEADLOCK FALSE
