SPECIFICATION Spec
CONSTANTS
  guard = guard
  ogre = ogre
  Start = 1
  LastCell = 3
  Speed = 6
  Threats <- MCThreats
  Rank <- MCRank
  Cell <- MCCell
  Side <- MCSide
  Reach <- MCReach
  Difficult = {}
  Sphere = {3}
  Payments = {}
  MaxPath = 3
  MaxMoves = 1
  MaxTroubles = 0
INVARIANT
  EntriesAreContacts
CHECK_DEADLOCK FALSE
