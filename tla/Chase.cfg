CONSTANTS
  p = p
  q = q
  r = r
  None = None
  Actor = {p, q, r}
  Speed <- MCSpeed
  FreeDashes <- MCFreeDashes
  Orders <- MCOrders
  Quarries <- MCQuarries
  Parties <- MCParties
  Gaps = {5}
  Closings = {0}
  Brought <- MCBrought
  Levels = {2}
  Immune = {p}
  MaxRound = 2
  MaxTroubles = 3
SPECIFICATION Spec
INVARIANTS
  ChaseIsOn
PROPERTIES
  EachTurnOnce
