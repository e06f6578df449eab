\* Two tasks that compete for one workspace, or one task with up to three messages and
\* two requests, or one that is run up to three times; and callers that resume them.
SPECIFICATION MCSpec
CONSTANTS
    FirstId = 1
    LastId = 2
    Workspaces <- OneWorkspace
    Home <- AllInOne
    Messages <- ThreeMessages
    Requests <- TwoRequests
    Outcome <- ThreeOutcomes
    Texts <- TwoTexts
    Limit = 1
    MaxEpoch = 3
    Resumers <- TwoResumers
    NoAgent = NoAgent
    w1 = w1
    m1 = m1
    m2 = m2
    m3 = m3
    r1 = r1
    r2 = r2
    resumer = resumer
    resumer2 = resumer2
INVARIANTS
    TypeOK
    OneTaskPerWorkspace
    TablesAgree
    WaitingIffOpenRequest
    NoOpenMessageAfterStop
    MessagesInOrder
PROPERTIES
    CancelWins
    ResultImmutable
    ImplementsLease
    CommandsSettleOnce
CHECK_DEADLOCK FALSE
