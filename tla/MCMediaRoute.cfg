SPECIFICATION FairSpec
CONSTANTS
    Streams = {s1}
    MaxPackets = 3
    MaxEvents = 1
    MaxBuffer = 2
    None = None
INVARIANTS
    TypeOK
    InOrder
    NothingLeft
    OnePreparation
PROPERTIES
    NotStartedTwice
    DeletionCompletes
    ReadyIsPrepared
    OutputIsStarted
CHECK_DEADLOCK FALSE
