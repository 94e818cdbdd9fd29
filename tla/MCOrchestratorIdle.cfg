SPECIFICATION FairSpec
CONSTANTS
  Pullers = {r1, r2}
  Admins = {}
  Names = {n1}
  Timer = timer
  None = None
PROPERTIES
  UnusedIsRemoved
CHECK_DEADLOCK FALSE
