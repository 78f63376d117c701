SPECIFICATION SafeSpec
CONSTANTS
  a1 = a1
  a2 = a2
  Agent <- MCAgent
  Cap = 1
  MaxTurns = 2
  MaxSends <- MCSends
  MaxAsks = 1
  MaxUpsets = 1
CHECK_DEADLOCK FALSE
INVARIANTS
  SlotsAreOwned

