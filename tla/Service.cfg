SPECIFICATION Spec
CONSTANTS
  Probes <- MCProbes
  Attribute <- Methods
  SaturateSec = 2
  RecoverSec = 2
  Auth = TRUE
  MaxFaults = 2
  MaxServed = 1
INVARIANTS
  TypeOK
  AdvertisedServing
PROPERTIES
  Relisted
  RefusalEnds
