SPECIFICATION Spec
CONSTANTS
  Root = root
  Child = {c1, c2}
  Proposal = {p1, p2}
  NoSession = NoSession
  Ceiling = 2
  Grant = 2
  GrantDepth = 1
  MaxDepth = 2
  MaxChildren = 2
  MaxInFlight = 2
  MaxUse = 1
  MaxThrows = 1
  MaxUnlogged = 0
  MaxCrashes = 0
SYMMETRY MCSymmetry
CHECK_DEADLOCK FALSE
INVARIANTS
  TreeCannotOutspend
