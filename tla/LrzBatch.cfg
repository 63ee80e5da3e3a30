SPECIFICATION OpenSpec
CONSTANTS
  NFiles = 3
  Size <- Batch
  MaxFaults = 0
  MaxTry = 2
  MaxRqinit = 2
  MaxErrors = 1
  Exists = {1}
  OldLen <- OldBatch
  WholeBlock = 2
  Asks = 0
  Unwritable = {}
  CloseFails = {3}
  BlockLens = {1}
  AttnLens = {}
  MaxSent = 7
  Room = 2
  Others = {"ZSKIP", "ZFREECNT", "ZCOMPL", "ZFIN"}
INVARIANTS IInv WrittenInPlace ClosedInFull
PROPERTIES ExistingIsKept
CHECK_DEADLOCK FALSE
