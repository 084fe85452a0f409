\* Every scan does to the lists what the ledger says.
SPECIFICATION TabsSpec
CONSTANTS
  Customers = {c1, c2}
  Products <- MCProducts
  Quantities <- MCQuantities
  QUANTITY_BITS = 2
  ID_BITS = 2
INVARIANTS
  TabsTypeOK
  NothingShadowed
PROPERTIES
  KeepsLedger
