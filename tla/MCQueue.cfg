SPECIFICATION Spec
CONSTANTS
  Producers = {p1}
  MaxMessages = 5
INVARIANTS
  TypeOK
  DepthExact
PROPERTIES
  ImplementsFifo
  Delivered
