SPECIFICATION FairSpec
CONSTANTS
  Conns = {c1, c2}
  NumFds = 1
  MaxThreads = 2
  RxCap = 1
  Kinds = {"close", "keep", "upgrade", "throws"}
PROPERTIES
  
  QueueDrains
CHECK_DEADLOCK FALSE
