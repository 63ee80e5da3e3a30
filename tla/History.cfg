SPECIFICATION HSpec
CONSTANTS
    Windows = {w1, w2}
    Sessions = {s1, s2}
    Cmds = {a, b, c}
    Paths = {p}
    MaxHistory = 3
    SaveDelay = 2
    MaxLeft = 3
    MaxActs = 5
CHECK_DEADLOCK FALSE
INVARIANTS HistoryTypeOK HistoryBounded RestartKeeps
PROPERTY CommandIsSaved
