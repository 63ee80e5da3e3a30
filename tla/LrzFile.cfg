SPECIFICATION FairOpen
CONSTANTS
  NFiles = 2
  Size <- Resumed
  MaxFaults = 1
  MaxTry = 2
  MaxRqinit = 2
  MaxErrors = 2
  Exists = {1}
  OldLen <- OldResumed
  WholeBlock = 2
  Asks = 3
  Unwritable = {2}
  CloseFails = {}
  BlockLens = {1}
  AttnLens = {3}
  MaxSent = 5
  Room = 2
  Others = {"ZRQINIT", "ZNAK", "ZRINIT"}
INVARIANT ReceivedIsPrefix
PROPERTIES StopsAfterHangup
CHECK_DEADLOCK FALSE
