SPECIFICATION FairIpc
CONSTANTS
  IntSize = 2
  BodyLen <- ShortLengths
  Sizes <- ThreeSizes
  FirstSize <- Fresh
  MaxResize = 2
  MaxAsk = 1
  MaxStarts = 2
INVARIANTS IpcTypeOK SizeAgreesWhenQuiet
PROPERTIES ExchangeEnds
CHECK_DEADLOCK FALSE
