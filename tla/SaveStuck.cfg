CONSTANTS
  l = l
  s = s
  dragon = dragon
  hero = hero
  fire = fire
  breath = breath
  back = back
  Damage = Damage
  None = None
  Local = l
  Proc = {l, s}
  Command = {fire}
  Restore = {}
  Saver <- MCSaver
  Script <- StuckScript
  Legendary = {dragon}
  Uses <- StuckUses
  Gifted = {hero}
  Home <- MCHome
  Stream <- MCStream
  Choice <- MCChoice
  MaxDie = 3
  MaxSheet = 0
  MaxCrash = 0
SPECIFICATION FairSpec
CHECK_DEADLOCK FALSE
PROPERTY DecisionSettles
