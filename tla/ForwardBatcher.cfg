SPECIFICATION Spec
CONSTANTS
  s1 = s1
  s2 = s2
  Streams <- MCStreams
  MaxBatch = 2
  MaxRequests <- MCMaxRequests
  ReloadAfter = 2
INVARIANTS
  TypeOK
  CachesIsolated
  NoneForgotten
PROPERTIES
  Served
