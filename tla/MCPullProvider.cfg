SPECIFICATION FairSpec
CONSTANTS
    Requests = {r1, r2}
    Names = {n1, n2}
    r1 = r1
    r2 = r2
    n1 = n1
    n2 = n2
    Wants <- MCWants
    MaxStreams = 2
    MotorCounts = {1, 2}
    MaxRestarts = 1
    Collector = collector
    None = None
INVARIANTS
    TypeOK
    OnePerName
    MotorSurvives
    StreamHasMotor
PROPERTIES
    RequestAnswered
    DeadOriginReleased
CHECK_DEADLOCK FALSE
