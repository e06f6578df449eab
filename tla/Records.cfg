\* Two runs of a task finished by two threads, or one finished by three while writes
\* fail; two callers and up to three permission requests; both channels of a runtime
\* with up to three deltas each; four session events; six diagnostic lines.
SPECIFICATION MCSpec
CONSTANTS
    Finishers = {f1, f2}
    MaxRuns = 2
    MaxEvents = 2
    StoreFaults = FALSE
    Nobody = Nobody
    FaultFinishers = {f1, f2, f3}
    FaultEvents = 3
    Responders = {t1, t2}
    Keys = {k1, k2, k3}
    k1 = k1
    k2 = k2
    k3 = k3
    CacheMax = 2
    MaxSeq = 3
    MaxAskRuns = 2
    Chunks = {x1, x2, x3, x4}
    Unnamed = {x4}
    Messages = {m1, m2}
    ToolCalls = {c1}
    ModelRequests = {r1}
    SampleMax = 2
    TextMax = 2
    MaxDeltas = 3
    MaxTurns = 2
    Events = {e1, e2, e3, e4}
    Calls = {c1, c2, c3}
    Names = {1, 2, 3}
    Arguments = {a1, a2}
    IdMax = 3
    TypeMax = 2
    RecentMax = 2
    RawMax = 2
    TailMax = 1
    ShownMax = 1
    MaxDropped = 1
    QueueMax = 2
    FileCap = 2
    MaxLines = 6
    MaxFaults = 2
INVARIANTS
    LogIsSound
    RequestsSettled
    ActivityIsTrue
    SnapshotIsTrue
    DiagnosticsKept
PROPERTIES
    ClosedGateFences
    ChangesAreNumbered
CHECK_DEADLOCK FALSE
