SPECIFICATION FairSpec
CONSTANTS
  Task = {t1, t2}
  Key = {k1}
  Request = {q1}
  Server = {s1}
  Run = {r1, r2}
  Lease = 1
  TTL = 3
  TombTTL = 1
  MaxRows = 1
  BytePressure = FALSE
  MayCrash = TRUE
  MaxTime = 3
  None = None
PROPERTY ImplementsContract
PROPERTY WorkerEnds
PROPERTY TaskSettles
CHECK_DEADLOCK FALSE
