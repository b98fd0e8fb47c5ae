SPECIFICATION Spec
CONSTANTS
  Conns = {c1}
  NumFds = 1
  PollLimit = 3
  RxCap = 1
  Kinds = {"close"}
PROPERTIES
  InfiniteTimeout
