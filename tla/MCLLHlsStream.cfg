SPECIFICATION FairSpec
CONSTANTS
    Connections = {c1, c2}
    Tracks = {video}
    None = None
    c1 = c1
    c2 = c2
    video = video
    Players <- MCPlayers
    Wants <- MCWants
    Parts <- MCParts
    MaxRequests = 1
    PartsPerSegment = 1
INVARIANTS
    TypeOK
    NoSessionLeft
    NothingWaits
    HeldIsAwaited
PROPERTIES
    ReleasedIsFound
    HeldIsReleased
    StopCompletes
CHECK_DEADLOCK FALSE
