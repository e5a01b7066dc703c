CONSTANTS
  u1 = u1
  u2 = u2
  w1 = w1
  w2 = w2
  v1 = v1
  v2 = v2
  r1 = r1
  User = {u1}
  Citizen = {}
  Worker = {w1}
  Verifier = {v1, v2}
  Record = {r1}
  MaxSerials = 2
  MaxCrashes = 0
  MaxDeaths = 1
SPECIFICATION Spec
SYMMETRY Symmetry
CHECK_DEADLOCK FALSE
INVARIANTS
  TypeOK
  ResultKept
  RevocationSeen
  PublicRevocationSeen
