SPECIFICATION Spec
CONSTANTS
  Conv = {c1}
  Actor = {a1}
  Proc = {p1}
  Proposal <- OneProposal
  MaxKey = 3
  MaxEvents = 2
  MaxRetry = 0
  MaxChange = 0
  MayCrash = TRUE
  None = None
  Removed = Removed
INVARIANTS
  CommittedNotAborted
CHECK_DEADLOCK FALSE
