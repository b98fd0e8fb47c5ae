SPECIFICATION Spec
CONSTANTS
  Conns = {c1, c2, c3}
  NumFds = 2
  PollLimit = 4
  RxCap = 1
  Kinds = {"close", "keep", "upgrade"}
SYMMETRY Symmetry
INVARIANTS
  TypeOK
  Watched
  ReadinessHolds
  MisdeliveryNeedsReuse
PROPERTIES
  ImplementsConnections
  LiveDropNeedsDuplicate
