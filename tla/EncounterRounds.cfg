SPECIFICATION Spec
CONSTANTS
  p = p
  m = m
  d1 = d1
  d2 = d2
  d3 = d3
  r = r
  Actor <- MCActor
  Rank <- MCRank
  HP <- MCHP
  Savers <- MCSavers
  Casters <- MCWatchers
  Watchers <- MCWatchers
  Ambushed <- MCAmbushed
  Oiled <- MCSavers
  Aflame <- MCWatchers
  Prompted <- MCSavers
  LineUps <- MCLineUps
  Blow <- MCBlow
  Cure <- MCCure
  MaxRound = 4
INVARIANTS
  TypeOK
  HeldEnergyHasEntry
  WindowsAreLive
  TallyWhileDying
  OneReaction
PROPERTIES
  OneTurnEachRound
  SaveEachTurn
