\* Two datagrams and a copy of one, two products one of whose ids begins with the other's.
SPECIFICATION ServiceSpec
SYMMETRY MCSymmetry
CONSTANTS
  Products <- MCProducts
  Prices = {p5, p6}
  GARBLED = "garbled"
  NOT_FOUND = 0
  MaxTx = 2
  MaxMissed = 1
  MaxDuplicates = 1
INVARIANTS
  ServiceTypeOK
  NoMixedUpdate
  RxWithinTx
