SPECIFICATION Spec
CONSTANTS
    MaxObjects = 5
    MaxOutput = 3
    MaxClicks = 3
CHECK_DEADLOCK FALSE
INVARIANTS SessionTypeOK CrashesOnlyTangled OneTransfer
PROPERTIES TerminalComesBack HandlersReturn
