SPECIFICATION FairSpec
CONSTANTS
  Conns = {c1, c2}
  NumFds = 2
  RxCap = 1
  Kinds = {"plain", "upgrade", "throws", "long"}
PROPERTIES
  FramesRead
  HttpClosed
  QueueDrains
CHECK_DEADLOCK FALSE
