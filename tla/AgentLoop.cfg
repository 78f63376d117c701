SPECIFICATION Spec
CONSTANTS
  a1 = a1
  a2 = a2
  f1 = f1
  Agent <- MCAgent
  File <- MCFile
  NoAgent = NoAgent
  NoCall = NoCall
  MaxIterations = 2
  MaxCalls = 1
  MaxTurns = 3
  MaxUpsets = 1
CHECK_DEADLOCK FALSE
INVARIANTS
  TypeOK
  WriteReplacesWhatWasSeen
PROPERTIES
  LeaseIsKept
  LoopEnds
