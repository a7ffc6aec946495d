SPECIFICATION FairSpec
CONSTANTS
  Agents = {a1}
  Jobs = {j1}
  Workers = {w1, w2}
  Session = session
  Reconciler = reconciler
  Nobody = nobody
  MaxRevision = 2
  MaxObjective = 2
PROPERTIES
  ImplementsLedger
  ClaimedWorkSettles
