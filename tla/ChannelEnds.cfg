SPECIFICATION Spec
CONSTANTS
    Plans <- MCEndingPlans
    Slots = {0}
    Window = 2
    MaxPack = 2
    RBuf = 2
CHECK_DEADLOCK FALSE
PROPERTY EndsWhenDone
