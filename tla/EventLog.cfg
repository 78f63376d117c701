SPECIFICATION Spec
CONSTANTS
  MaxAppends = 4
  MaxCrashes = 1
  MaxFailures = 1
  MaxTornWrites = 1
  MaxCheckpoints = 2
CHECK_DEADLOCK FALSE
INVARIANTS
  TypeOK
  FileInOrder
  AckedIsKept
  FollowerMissesNothing
  LoadFoldsEachOnce
PROPERTIES
  ImplementsAppendLog
  FollowerCatchesUp
