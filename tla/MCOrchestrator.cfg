SPECIFICATION BoundedSpec
CONSTANTS
  Pullers = {r1, r2}
  Admins = {a1}
  Names = {n1}
  Timer = timer
  None = None
INVARIANTS
  TypeOK
  CreatedEverywhere
  DeletedEverywhere
  NoNullRoute
PROPERTIES
  KeepsApplicationLife
  SettledIsRemoved
CHECK_DEADLOCK FALSE
