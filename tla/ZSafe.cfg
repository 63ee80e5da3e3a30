SPECIFICATION TransferSpec
CONSTANTS
  NFiles = 2
  Size <- TwoFiles
  MaxFaults = 1
  BlkLens = {1, 2}
  MaxRxTries = 10
  MaxZrqinit = 4
  MaxNakTries = 3
  MaxSinit = 19
  Unreadable = {}
  Directories = {}
  MaxTry = 5
  MaxRqinit = 10
  MaxErrors = 20
  Exists = {}
  OldLen <- OldLens
  WholeBlock = 1
  Unwritable = {}
  CloseFails = {}
  Pipe = 4
  MayHangup = TRUE
PROPERTIES SentIsReceived
CHECK_DEADLOCK FALSE
