SPECIFICATION Spec
CONSTANTS
  Conns = {c1, c2, c3}
  NumFds = 3
  RxCap = 1
  Kinds = {"upgrade"}
SYMMETRY Symmetry
INVARIANTS
  ListedAreOpen
  ListedTogether
  ReadNeverBlocks
PROPERTIES
  ImplementsConnections
CHECK_DEADLOCK FALSE
