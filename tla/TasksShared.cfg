SPECIFICATION Spec
CONSTANTS
  Task = {t1, t2}
  Key = {k1, k2}
  Request = {q1}
  Server = {s1, s2}
  Run = {r1, r2}
  Lease = 1
  TTL = 2
  TombTTL = 1
  MaxRows = 1
  BytePressure = TRUE
  MayCrash = FALSE
  MaxTime = 3
  None = None
SYMMETRY Symmetry
INVARIANT TypeOK
INVARIANT LeaseExclusion
INVARIANT AnswerFromLastClaim
PROPERTY CancelledIsFinal
PROPERTY ActiveWorkIsKept
PROPERTY ImplementsSharedContract
CHECK_DEADLOCK FALSE
