\* Two tasks and up to two cancellers, one resumer, two runs and two crashes, as the
\* scenarios allow.
SPECIFICATION MCSpec
CONSTANTS
    FirstId = 1
    LastId = 3
    Workspaces <- OneWorkspace
    Home <- AllInOne
    Messages <- TwoMessages
    Requests <- NoRequests
    Outcome <- AllOutcomes
    Texts <- OneText
    Limit = 1
    MaxEpoch = 2
    MaxCrashes = 2
    Resumers <- OneResumer
    Cancellers <- TwoCancellers
    NoAgent = NoAgent
    NoThread = NoThread
    NoMessage = NoMessage
    Loop = Loop
    Damaged <- LastDamaged
    w1 = w1
    w2 = w2
    m1 = m1
    m2 = m2
    resumer = resumer
    canceller = canceller
    canceller2 = canceller2
INVARIANTS
    OneActiveAgent
    NoAbandonedTask
    NoLeakedRuntime
PROPERTIES
    EveryTaskEnds
CHECK_DEADLOCK FALSE
