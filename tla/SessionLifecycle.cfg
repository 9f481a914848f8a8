SPECIFICATION Spec
CONSTANTS
  a = a
  b = b
  MaxConns = 3
  Ids = {a, b}
  MaxConnections = 2
  ResumeEnabled = TRUE
  MayShutdown = TRUE
  MaxSessions = 2
INVARIANTS
  TypeOK
  OneFate
  TableIsActive
PROPERTIES
  OrphansSettle
