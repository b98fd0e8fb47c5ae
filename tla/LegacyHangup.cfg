SPECIFICATION FairSpec
CONSTANTS
  Conns = {c1}
  NumFds = 2
  RxCap = 1
  Kinds = {"upgrade"}
PROPERTIES
  HangupCloses
CHECK_DEADLOCK FALSE
