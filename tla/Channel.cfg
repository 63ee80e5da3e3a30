SPECIFICATION Spec
CONSTANTS
    Plans <- MCPlans
    Slots = {0, 1}
    Window = 2
    MaxPack = 2
    RBuf = 2
CHECK_DEADLOCK FALSE
INVARIANTS ChannelTypeOK ReachesItsChannel WindowsAgree CompleteAtEof StatusBeforeClose
