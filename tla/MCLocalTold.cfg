CONSTANTS
  r1 = r1  r2 = r2
  Request = {r1}
  MaxOdd = 2
SPECIFICATION Spec
INVARIANT ToldIsSigned
CHECK_DEADLOCK FALSE
