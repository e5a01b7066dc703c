CONSTANTS
  w1 = w1  w2 = w2  r1 = r1  r2 = r2  d1 = d1
  Worker = {w1, w2}
  Request = {r1}
  Document = {d1}
  MaxPrepares = 2
  MaxEvents = 1
  MaxCrashes = 1
SPECIFICATION Spec
SYMMETRY Symmetry
INVARIANTS TypeOK SignedIsWithdrawn ConfirmedFirst RecordVerified
           UnfinishedIsOwned HandedOutHasPdf
PROPERTIES ImplementsOneShot
CHECK_DEADLOCK FALSE
