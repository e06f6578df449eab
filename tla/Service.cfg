\* Two clients and one slot; two processes on one database with two inode numbers and
\* one to spare; a call on a task that is resumed twice; six tasks in pages of two;
\* texts of up to four bytes; two submissions that may draw the same name.
SPECIFICATION MCSpec
CONSTANTS
    Clients = {c1, c2}
    MaxConnections = 1
    FrameCap = 1
    Wake = Wake
    c1 = c1
    c2 = c2
    SecondCalls = {"OP", "WAIT", "BAD"}
    SecondBytes = 1
    Daemons = {d1, d2}
    d2 = d2
    Inodes = {i1, i2, i3}
    MaxStarts = 2
    None = None
    Callers = {w1}
    Resumers = {t1, t2}
    Cap = 1
    MaxRequests = 2
    MaxResumes = 2
    MaxTasks = 6
    Limit = 2
    MaxFlips = 2
    Letters = {a, b}
    Rest = Rest
    Width = 2
    MaxBytes = 4
    Limits = {1, 2, 3}
    Chunk = 3
    Frame = 3
    MaxTexts = 2
    Submitters = {s1, s2}
    Manifests <- ManifestSet
    Names = {n1, n2}
    Tries = 2
    MaxRuns = 2
    MaxFaults = 2
INVARIANTS
    ServerIsSound
    SocketsAreShared
    ReadsAreTrue
    RowIsSubmission
    Undisturbed
CHECK_DEADLOCK FALSE
