CONSTANTS
  Procs = {p1, p2}
  Accounts = {account}
  Keys = {}
  Nobody = Nobody
  Parts = 0
  TableSize = 1
  MaxTokens = 1
  MaxSignIns = 2

SPECIFICATION Spec

PROPERTY
  SignInSettles
