CONSTANTS
  c1 = c1  c2 = c2  m1 = m1  m2 = m2  m3 = m3
  Clients = {c1, c2}
  Messages = {m1, m2, m3}
  Quota = 2
  Delay = 1
  MaxTime = 3
  MaxKeys = 3
  MaxNonces = 3
SPECIFICATION BackupSpec
SYMMETRY Interchangeable
INVARIANTS NoOvershootNoOrphans
 
CHECK_DEADLOCK FALSE
