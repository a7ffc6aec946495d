SPECIFICATION FairSpec
CONSTANTS
  Agents = {a1}
  Schedules = {s1}
  Runners = {desktop}
  Desktop = desktop
  Nobody = nobody
  Policies <- AllPolicies
  Period = 1
  Grace = 1
  MaxAttempts = 2
  MaxTime = 3
  MaxEvents = 3
CHECK_DEADLOCK FALSE
INVARIANTS
  CatchUpOnce
PROPERTIES
  DueIsHandled
