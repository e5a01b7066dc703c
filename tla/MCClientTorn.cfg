CONSTANTS
  w1 = w1  w2 = w2  r1 = r1  r2 = r2  d1 = d1
  Worker = {w1, w2}
  Request = {r1}
  Document = {d1}
  MaxPrepares = 2
  MaxEvents = 0
  MaxCrashes = 0
SPECIFICATION Spec
SYMMETRY Symmetry
INVARIANTS EmbeddedVerifies
CHECK_DEADLOCK FALSE
