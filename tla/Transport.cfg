SPECIFICATION Spec
CONSTANTS
    MaxBlocks = 2
    MaxPackets = 2
    BlockSize = 2
    MaxData = 3
    MaxLate = 2
CHECK_DEADLOCK FALSE
INVARIANTS TransportTypeOK ReadsWithItsKey ExchangesInStep
PROPERTIES ImplementsPipe RekeyEnds
