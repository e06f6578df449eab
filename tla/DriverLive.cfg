\* Two threads stop a driver where an exited leader cannot be observed, a request to a
\* runtime whose descendant may keep the pipes, a blocking and a bounded writer, the drop
\* of an owner and one send_turn while turns complete, and two turns with a message and a
\* stop.  An exit code other than zero is enough: only the kind of terminal depends on it.
SPECIFICATION MCFairSpec
CONSTANTS
    Callers = {c1, c2}
    Kids = {k1}
    SetuidKids = {}
    ZombieVisible = FALSE
    MaxCalls = 2
    Free = Free
    StoredKids = {p1, p2, p3}
    Ids = {i1}
    Descendants = TRUE
    MaxOutput = 2
    MaxBroadcasts = 1
    Blocking = {b1}
    Bounded = {b2}
    FrameLength = 2
    Capacity = 1
    Nobody = Nobody
    Finishers = {}
    TurnSenders = {s1}
    TurnStoppers = {}
    Dropper = dropper
    MaxEvents = 2
    SentEvents = {"turn.started", "turn.completed", "preferences"}
    ExitCodes = {"OTHER"}
    MaxTurns = 2
    MaxMessages = 1
PROPERTIES
    CallsReturn
    TurnsFollowedUp
    RuntimesEnd
CHECK_DEADLOCK FALSE
