CONSTANTS
  u1 = u1
  u2 = u2
  w1 = w1
  w2 = w2
  User = {u1, u2}
  Citizen = {u1}
  Worker = {w1, w2}
  MaxSerials = 3
  MaxCrashes = 1
SPECIFICATION LifecycleSpec
SYMMETRY Symmetry
CHECK_DEADLOCK FALSE
INVARIANTS
  CertTypeOK
  KeyIsOwned
  CrlComplete
PROPERTIES
  ImplementsTrust
