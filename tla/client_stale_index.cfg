\* A loop index that may be lost while a request is under way; the network and routing may fail.
SPECIFICATION ClientSpec
CONSTANTS
  NODE_ID = 1
  NR_OF_NODES_PER_CLUSTER = 2
  SECOND = 2
  CAN_UNIT_STEP = 1
  ScanIntervals <- MCInterval
  DB_SIZE = 2
  PINNED_SLOT = 7
  PINNED_PRODUCT = 42
  Customers = {c1}
  Labels = {l1}
  Undefined = Undefined
  Removable = {}
  StaleIndex <- MCIndexStale
  MaxReplays = 1
INVARIANTS
  BufferBound
  AwaitedAckIsComing
  BlankTagIsServed
PROPERTIES
  AckIsAwaited
