SPECIFICATION Spec
CONSTANTS
  Probes <- MCProbes
  Attribute <- Properties
  SaturateSec = 2
  RecoverSec = 2
  Auth = TRUE
  MaxFaults = 2
  MaxServed = 1
PROPERTIES
  OverloadRefused
