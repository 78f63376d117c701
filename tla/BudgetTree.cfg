SPECIFICATION Spec
CONSTANTS
  Root = root
  Child = {c1, c2}
  Proposal = {p1, p2, p3}
  NoSession = NoSession
  Ceiling = 2
  Grant = 1
  GrantDepth = 1
  MaxDepth = 2
  MaxChildren = 2
  MaxInFlight = 1
  MaxUse = 1
  MaxThrows = 1
  MaxUnlogged = 1
  MaxCrashes = 1
SYMMETRY MCSymmetry
CHECK_DEADLOCK FALSE
INVARIANTS
  TypeOK
  TreeCannotOutspend
  BudgetSurvivesRestart
  GrantIsSpent

