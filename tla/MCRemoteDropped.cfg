CONSTANTS
  c1 = c1  o1 = o1  o2 = o2  d1 = d1  w1 = w1  w2 = w2  r1 = r1  r2 = r2  r3 = r3
  Worker = {w1, w2}
  Request = {r1, r2}
  Document = {d1}
  Citizen = {c1}
  Officer = {o1}
  Owner <- OwnerOf
  MaxSerial = 2
  MaxEvents = 0
  MaxCrashes = 0
SPECIFICATION Spec
SYMMETRY Symmetry
PROPERTIES NoSignatureDropped
CHECK_DEADLOCK FALSE
