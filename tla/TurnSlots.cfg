SPECIFICATION QuotaSpec
CONSTANTS
  t1 = t1
  t2 = t2
  t3 = t3
  t4 = t4
  t5 = t5
  s1 = s1
  s2 = s2
  None = None
  Ticket <- MCTicket
  Seats <- MCSeats
  Populations <- MCPopulations
  Delays <- MCDelays
  Cap = 2
  FIRST_BACKOFF = 1
  MAX_BACKOFF = 2
  DECAY_AFTER_SUCCESSES = 2
  MaxTurns = 3
  MaxStops = 2
INVARIANTS
  TypeOK
  SlotSafety
PROPERTIES
  ImplementsSemaphore
  TurnsGetDone
