SPECIFICATION Spec
CONSTANTS
  build = build
  check = check
  docs = docs
  Node <- MCNode
  Documents <- MCDocuments
  Root = {r1, r2, r3}
  Day = 3
  Minute = 1
  Every = 1
  MaxWriteFails = 1
CHECK_DEADLOCK FALSE
INVARIANTS
  TypeOK
  NodeStartedOnce
  OneRunAtATime
  OccurrenceStartsOnce
PROPERTIES
  NeedsFinishedFirst
  ReadyNodesStart
  OverdueRuns
