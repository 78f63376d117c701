SPECIFICATION Spec
CONSTANTS
  a = a
  b = b
  None = None
  Workspaces <- MCWorkspaces
  LogLimit <- MCLogLimit
  MaxAttaches <- MCMaxAttaches
  MaxConns = 2
  MaxLoops = 5
  MaxFaults = 2
CHECK_DEADLOCK FALSE
INVARIANTS
  TypeOK
  NothingLost
  ConnectedIsWatched
PROPERTIES
  ComesBack
