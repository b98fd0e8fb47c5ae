SPECIFICATION Spec
CONSTANTS
  Conns = {c1, c2, c3}
  NumFds = 2
  MaxThreads = 3
  RxCap = 1
  Kinds = {"close", "upgrade", "throws"}
SYMMETRY Symmetry
INVARIANTS
  ThreadOwnsFd
  RegistrationLostOnlyByRace
  
PROPERTIES
  ImplementsConnections
CHECK_DEADLOCK FALSE
