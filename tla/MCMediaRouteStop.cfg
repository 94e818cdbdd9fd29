SPECIFICATION Spec
CONSTANTS
    Streams = {s1}
    MaxPackets = 2
    MaxEvents = 0
    MaxBuffer = 1
    None = None
INVARIANTS
    DeletedIsStopped
CHECK_DEADLOCK FALSE
