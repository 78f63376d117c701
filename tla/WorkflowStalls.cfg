SPECIFICATION Spec
CONSTANTS
  build = build
  check = check
  docs = docs
  Node <- MCNode
  Documents <- Graphs
  Root = {r1}
  Day = 2
  Minute = 1
  Every = 1
  MaxWriteFails = 0
CHECK_DEADLOCK FALSE
PROPERTIES
  RefusedRunMovesAgain
