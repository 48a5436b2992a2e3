SPECIFICATION Spec
CONSTANTS
  Callers = {c1, c2, c3, c4}
  FailureThreshold = 3
  SuccessThreshold = 2
  RecoveryTimeout = 2
  CountCap = 4
INVARIANTS
  TypeOK
  CountersAgree
PROPERTIES
  OnlyAPileUpTrips
  WindowEnds
  ImplementsContract
