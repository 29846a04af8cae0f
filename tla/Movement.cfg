SPECIFICATION FairSpec
CONSTANTS
  guard = guard
  ogre = ogre
  Start = 2
  LastCell = 3
  Speed = 4
  Threats <- MCThreats
  Rank <- MCRank
  Cell <- MCCell
  Side <- MCSide
  Reach <- MCReach
  Difficult = {2}
  Sphere = {}
  Payments = {"movement", "reaction"}
  MaxPath = 3
  MaxMoves = 2
  MaxTroubles = 1
INVARIANTS
  TypeOK
  WalkedIsPaid
  NoFreeExit
  OfferedOnce
  GrantEndsWithMove
PROPERTY
  MovementEnds
CHECK_DEADLOCK FALSE
