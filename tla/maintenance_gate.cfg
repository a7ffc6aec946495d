CONSTANTS
  Desktops = {d1, d2}
  Threads = {t1, t2}
  Nobody = Nobody
  MaxAttempts = 2

SPECIFICATION Spec

INVARIANT
  NoWorkDuringInstall
