\* Two tags that may show the same product, on a busy bus; any tag may be removed.
SPECIFICATION Spec
CONSTANTS
  NODE_ID = 1
  NR_OF_NODES_PER_CLUSTER = 2
  SECOND = 2
  CAN_UNIT_STEP = 1
  ScanIntervals <- MCIntervals
  DB_SIZE = 3
  PINNED_SLOT = 7
  PINNED_PRODUCT = 42
  Customers = {c1}
  Labels = {l1, l2}
  Undefined = Undefined
  Removable <- MCTags
INVARIANTS
  TypeOK
  DueOrder
  OneElection
  RoundsDoNotOverlap
  EveryTagScans
  AwaitedAckIsComing
  AcksKeepUp
  SameProductSameLabel
  BlankTagIsServed
PROPERTY
  ScansConserved
