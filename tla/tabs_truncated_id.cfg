\* A scanned product is listed under its own id.
SPECIFICATION TabsSpec
CONSTANTS
  Customers = {c1}
  Products <- MCAliased
  Quantities <- MCQuantities
  QUANTITY_BITS = 2
  ID_BITS = 2
PROPERTY
  ScannedProductIsListed
