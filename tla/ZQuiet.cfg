SPECIFICATION FairTransfer
CONSTANTS
  NFiles = 3
  Size <- ThreeFiles
  MaxFaults = 0
  BlkLens = {1, 2}
  MaxRxTries = 10
  MaxZrqinit = 4
  MaxNakTries = 3
  MaxSinit = 19
  Unreadable = {}
  Directories = {}
  MaxTry = 5
  MaxRqinit = 10
  MaxErrors = 20
  Exists = {2}
  OldLen <- OldLens
  WholeBlock = 1
  Unwritable = {}
  CloseFails = {}
  Pipe = 4
  MayHangup = FALSE
PROPERTIES SessionCompletes ImplementsTransfer
