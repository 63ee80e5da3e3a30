SPECIFICATION FairLszOpen
CONSTANTS
  NFiles = 4
  Size <- Batch
  MaxFaults = 0
  BlkLens = {1, 2}
  MaxRxTries = 3
  MaxZrqinit = 4
  MaxNakTries = 3
  MaxSinit = 2
  Unreadable = {2}
  Directories = {3}
  Answers = {"ZRQINIT", "ZRINIT", "ZACK", "ZSKIP", "ZNAK", "ZABORT", "ZFIN", "ZRPOS", "ZCRC", "ZCHALLENGE", "ZCOMMAND", "ZFERR"}
  MaxAnswers = 7
  ReadAhead = 1
INVARIANT LszTypeOK
PROPERTIES StreamIsHonest StopsAfterHangup
CHECK_DEADLOCK FALSE
