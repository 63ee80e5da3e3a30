CONSTANTS
  NHosts = 2
  MaxProcs = 2
  MaxCalls = 3
  MaxTransfers = 1
  MaxTroubles = 1
  Ops <- AllOps
SPECIFICATION ScriptSpec
PROPERTY CallEnds
INVARIANTS ScriptTypeOK OkIsEarned AllHostsOrNone FailureIsReported
CHECK_DEADLOCK FALSE
