SPECIFICATION Spec
CONSTANTS
  h1 = h1
  h2 = h2
  h3 = h3
  c1 = c1
  c2 = c2
  None = None
  Hosts <- MCHosts
  Clients <- MCClients
  MaxCrashes = 1
SYMMETRY MCSymmetry
CHECK_DEADLOCK FALSE
INVARIANTS
  TypeOK
  OneHost
  LiveHostIsRecorded
