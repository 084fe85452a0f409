\* Two tags that may show the same product, on a busy bus; fairness.
SPECIFICATION Spec
CONSTANTS
  NODE_ID = 1
  NR_OF_NODES_PER_CLUSTER = 2
  SECOND = 2
  CAN_UNIT_STEP = 1
  ScanIntervals <- MCIntervals
  DB_SIZE = 2
  PINNED_SLOT = 7
  PINNED_PRODUCT = 42
  Customers = {c1}
  Labels = {l1}
  Undefined = Undefined
  Removable = {}
PROPERTIES
  AckArrives
  EveryTagIsHeard
