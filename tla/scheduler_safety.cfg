SPECIFICATION Spec
CONSTANTS
  Agents = {a1}
  Schedules = {s1, s2}
  Runners = {desktop, once}
  Desktop = desktop
  Nobody = nobody
  Policies <- TwoPolicies
  Period = 1
  Grace = 0
  MaxAttempts = 2
  MaxTime = 2
  MaxEvents = 3
SYMMETRY Symmetry
INVARIANTS
  TypeOK
  OccurrenceOnce
PROPERTIES
  OverlapSkipHolds
