SPECIFICATION FairSpec
CONSTANTS
    Connections = {c1, c2}
    Names = {n1, n2}
    Handles = {h1, h2}
    None = None
    Runner = Runner
INVARIANTS
    TypeOK
    OneDeleter
    NoOrphan
PROPERTIES
    MaintainsExisting
    LeavesNothingBehind
    KeepsStreamLife
