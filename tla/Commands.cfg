CONSTANTS
  l = l
  s = s
  dragon = dragon
  hero = hero
  fire = fire
  breath = breath
  back = back
  Damage = Damage
  None = None
  Local = l
  Proc = {l, s}
  Command = {fire, breath}
  Restore = {back}
  Saver <- MCSaver
  Script <- MCScript
  Legendary = {dragon}
  Uses <- MCUses
  Gifted = {hero}
  Home <- MCHome
  Stream <- MCStream
  Choice <- MCChoice
  MaxDie = 6
  MaxSheet = 1
  MaxCrash = 1
SPECIFICATION FairSpec
CHECK_DEADLOCK FALSE
INVARIANTS
  LocalTypeOK
  DiceOnce
  UsesTally
PROPERTIES
  ImplementsContract
  CommittedIsAnswered
  DecisionSettles
