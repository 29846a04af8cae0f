CONSTANTS
  p = p
  q = q
  r = r
  None = None
  Actor = {p, q, r}
  Speed <- MCSpeed
  FreeDashes <- MCFreeDashes
  Orders <- MCOrders
  Quarries <- MCQuarries
  Parties <- MCParties
  Gaps = {5}
  Closings = {0}
  Brought <- MCBrought
  Levels = {0}
  Immune = {}
  MaxRound = 1
  MaxTroubles = 4
SPECIFICATION Spec
INVARIANTS
  UnrelatedRemains
