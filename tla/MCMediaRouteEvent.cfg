SPECIFICATION Spec
CONSTANTS
    Streams = {s1}
    MaxPackets = 2
    MaxEvents = 1
    MaxBuffer = 1
    None = None
INVARIANTS
    PreparedIsLaunched
CHECK_DEADLOCK FALSE
