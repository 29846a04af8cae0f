SPECIFICATION Spec
CONSTANTS
  Conv = {c1, c2}
  Actor = {a1}
  Proc = {p1}
  Proposal <- FewProposals
  MaxKey = 5
  MaxEvents = 2
  MaxRetry = 1
  MaxChange = 1
  MayCrash = TRUE
  None = None
  Removed = Removed
INVARIANTS
  OneConversationEach
  TypeOK
  EffectsReceipted
  LastClaimantSpeaks
  ReplacedOnce
SYMMETRY Symmetric
PROPERTIES
  StaleIsSilent
  ReceiptsKept
  CommittedIsCurrent
  ClosedIsCommitted
CHECK_DEADLOCK FALSE
