SPECIFICATION Spec
CONSTANTS
  Task = {t1}
  Key = {k1}
  Request = {q1}
  Server = {s1, s2}
  Run = {r1, r2}
  Lease = 1
  TTL = 3
  TombTTL = 1
  MaxRows = 1
  BytePressure = FALSE
  MayCrash = TRUE
  MaxTime = 4
  None = None
SYMMETRY Symmetry
INVARIANT CancelledHoldsNoAnswer
CHECK_DEADLOCK FALSE
