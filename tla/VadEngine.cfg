SPECIFICATION Spec
CONSTANTS
  c1 = c1
  c2 = c2
  c3 = c3
  Callers <- MCCallers
  ReloadAfter = 2
INVARIANTS
  TypeOK
  OneReload
  ModelHeldWhileUsed
PROPERTIES
  OutageEnds
