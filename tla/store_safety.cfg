\* Two clusters, one customer who scans one product in both.
SPECIFICATION StoreSpec
CONSTANTS
  Motes = {m1, m2}
  Mids <- MCMids
  MAX_RETRANSMIT = 1
  MaxScans = 2
  MaxInAir = 3
  Idle = Idle
  Customers = {c1}
  Products <- MCProducts
  Quantities <- MCQuantities
  QUANTITY_BITS = 3
  ID_BITS = 2
  DB_SIZE = 2
  Descriptions = {d1}
  NotAvailable = NotAvailable
SYMMETRY MCSymmetry
INVARIANTS
  StoreTypeOK
  TabsMatchScans
  ShownIsKnown
PROPERTY
  RequestsBlock
