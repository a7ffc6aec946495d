SPECIFICATION Spec
CONSTANTS
  Roots = {home, back}
  Home = home
  Uris = {u1, u2}
  Executions = {e1, e2}
  Nobody = nobody
  Allowance = 1
  MaxRevision = 5
CHECK_DEADLOCK FALSE
SYMMETRY Symmetry
INVARIANTS
  TypeOK
  SingleAuthority
  CountsEveryCheckpoint
  SourceWorkStaysHome
PROPERTIES
  ImplementsCustody
