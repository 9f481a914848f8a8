SPECIFICATION Spec
CONSTANTS
  a = a
  b = b
  MaxConns = 2
  Ids = {a, b}
  MaxConnections = 2
  ResumeEnabled = TRUE
  MayShutdown = TRUE
  MaxSessions = 3
PROPERTIES
  SuspendedByItsOwn
