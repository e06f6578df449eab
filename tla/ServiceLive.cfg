\* As Service, with its threads running: the second client makes one kind of call, each
\* process starts once, the task is resumed once, and lists and texts are shorter.
SPECIFICATION MCFairSpec
CONSTANTS
    Clients = {c1, c2}
    MaxConnections = 1
    FrameCap = 1
    Wake = Wake
    c1 = c1
    c2 = c2
    SecondCalls = {"OP"}
    SecondBytes = 0
    Daemons = {d1, d2}
    d2 = d2
    Inodes = {i1, i2, i3}
    MaxStarts = 1
    None = None
    Callers = {w1}
    Resumers = {t1}
    Cap = 1
    MaxRequests = 2
    MaxResumes = 1
    MaxTasks = 3
    Limit = 2
    MaxFlips = 1
    Letters = {a, b}
    Rest = Rest
    Width = 2
    MaxBytes = 3
    Limits = {1, 2, 3}
    Chunk = 3
    Frame = 3
    MaxTexts = 2
    Submitters = {s1}
    Manifests <- ManifestSet
    Names = {n1, n2}
    Tries = 2
    MaxRuns = 2
    MaxFaults = 0
PROPERTIES
    DaemonReturns
    ReadsEnd
CHECK_DEADLOCK FALSE
