SPECIFICATION FairSpec
CONSTANTS
  Conns = {c1, c2, c3}
  NumFds = 2
  MaxEvents = 2
INVARIANTS
  NoLostEdge
  EventsAreFresh
  CleanFailure
PROPERTIES
  ImplementsConnections
  SpokenResolved
  QueueDrains
CHECK_DEADLOCK FALSE
