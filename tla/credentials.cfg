CONSTANTS
  Procs = {p1, p2}
  Accounts = {account}
  Keys = {key}
  Nobody = Nobody
  Parts = 2
  TableSize = 1
  MaxTokens = 2
  MaxSignIns = 0

SPECIFICATION Spec

INVARIANTS
  TypeOK
  LoadsAreWhole
  RotatedTokenNotReused
  NothingLeftBehind

PROPERTY
  ImplementsRegister
