\* A cluster with a table; two starts.
SPECIFICATION LogSpec
CONSTANTS
  VISUALIZES = TRUE
  Records <- MCRecords
  HEADER = "NODE_ID;Event;Time"
  Tables <- MCTables
  MaxStarts = 2
  MaxRecords = 3
CHECK_DEADLOCK FALSE
INVARIANTS
  LogTypeOK
  OnlyFirstIsLost
  TableFollows
