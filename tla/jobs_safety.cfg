SPECIFICATION Spec
CONSTANTS
  Agents = {a1}
  Jobs = {j1, j2}
  Workers = {w1, w2}
  Session = session
  Reconciler = reconciler
  Nobody = nobody
  MaxRevision = 2
  MaxObjective = 1
SYMMETRY Symmetry
INVARIANTS
  TypeOK
  OneActivePerAgent
  ExecutedAtMostOnce
  TurnUnderOneDefinition
  ReplyFromExecutor
PROPERTIES
  CancelNeverReplied
  FencedResultNeverLands
