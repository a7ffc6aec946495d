SPECIFICATION Spec
CONSTANTS
  Tools = {recall, search, wipe, shell}
  Listed = {recall, search, wipe}
  Destructive = {wipe}
  Recall = recall
  Arguments = {x, y, z}
  MaxSteps = 5
  ProviderFailureLimit = 3
  FinishNudges = 1
  ToolFailureLimit = 2
CHECK_DEADLOCK FALSE
SYMMETRY Symmetry
INVARIANTS
  TypeOK
  NoCallTwice
  BrokenToolLeftAlone
  EndsForItsReason
