SPECIFICATION FairFeed
CONSTANTS
  k1 = k1  k2 = k2  k3 = k3
  Modes <- MCModes
  Conns <- MCConns
  None = None
  MaxRuns = 3
  MaxCuts = 2

PROPERTY UsersReconnect
CHECK_DEADLOCK FALSE
