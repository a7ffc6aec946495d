CONSTANTS
  Desktops = {d1, d2}
  Threads = {t1}
  Nobody = Nobody
  MaxAttempts = 2

SPECIFICATION Spec

INVARIANTS
  TypeOK
  

PROPERTY
  MaintenanceSettles
