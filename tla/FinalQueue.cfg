SPECIFICATION Spec
CONSTANTS
  j1 = j1
  j2 = j2
  j3 = j3
  Arrivals <- MCArrivals
  MaxQueue = 2
  MaxBatch = 3
  MaxConcurrency = 1
  NoAnswer = NoAnswer
INVARIANTS
  TypeOK
  ConcurrencyBounded
  OwnAnswer
  CountedAsAnswered
PROPERTIES
  CallersAnswered
