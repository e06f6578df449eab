\* Three threads stop a driver whose leader may leave two descendants behind, two
\* requests while a descendant may keep the pipes open, three writers on a pipe that
\* holds less than a frame, two threads that finish a runtime, and three turns with
\* a message and a stop.
SPECIFICATION MCSpec
CONSTANTS
    Callers = {c1, c2, c3}
    Kids = {k1, k2}
    SetuidKids = {k2}
    ZombieVisible = TRUE
    MaxCalls = 2
    Free = Free
    StoredKids = {p1, p2, p3}
    Ids = {i1, i2}
    Descendants = TRUE
    MaxOutput = 2
    MaxBroadcasts = 2
    Blocking = {b1}
    Bounded = {b2, b3}
    FrameLength = 3
    Capacity = 2
    Nobody = Nobody
    Finishers = {f1, f2}
    TurnSenders = {}
    TurnStoppers = {s2}
    Dropper = dropper
    MaxEvents = 2
    SentEvents = {"turn.started", "turn.completed", "turn.failed", "preferences"}
    ExitCodes = {"ZERO", "OTHER"}
    MaxTurns = 3
    MaxMessages = 1
INVARIANTS
    StopsCoordinated
    StoppedMeansReaped
    TermOnlyUnreaped
    ReapIsSafe
    RequestsAccounted
    FramesWhole
    TerminalIsSound
    AcknowledgedTurn
    CompletedLeavesNothing
CHECK_DEADLOCK FALSE
