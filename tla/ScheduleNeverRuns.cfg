SPECIFICATION SafeSpec
CONSTANTS
  build = build
  check = check
  docs = docs
  Node <- MCNode
  Documents <- Routines
  Root = {r1, r2, r3}
  Day = 2
  Minute = 1
  Every = 1
  MaxWriteFails = 0
CHECK_DEADLOCK FALSE
INVARIANTS
  NewScheduleRuns
