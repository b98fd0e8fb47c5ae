SPECIFICATION FairSpec
CONSTANTS
  Conns = {c1, c2}
  NumFds = 1
  PollLimit = 4
  RxCap = 1
  Kinds = {"close", "keep", "upgrade", "throws"}
PROPERTIES
  QueuedAccepted
  FramesConsumed
  DepartedReclaimed
