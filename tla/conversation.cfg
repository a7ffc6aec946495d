CONSTANTS
  Procs = {p1, p2, p3}
  Nobody = Nobody
  MaxTurns = 3
  MaxRevision = 3
  MaxMemory = 2

SPECIFICATION Spec

SYMMETRY Symmetry

INVARIANTS
  TypeOK
  TurnIsUndisturbed
  RepliesAreReceipted

PROPERTIES
  TurnsAreAtomic
