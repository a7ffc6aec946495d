SPECIFICATION Spec
CONSTANTS
  Approvals = {r1, r2}
  Operators = {o1, o2}
  Kinds = {"configure", "memory", "create", "work", "remote", "single", "direct"}
  Nothing = nothing
  MaxPending = 2
  MaxRevision = 2
  MaxMemory = 1
SYMMETRY Symmetry
INVARIANTS
  TypeOK
  LockedPlansMeetTheirRevision
  OneChangePerRevision
PROPERTIES
  ImplementsReceipts
