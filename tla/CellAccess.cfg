SPECIFICATION Spec
CONSTANTS
  Reqs = {r1, r2, r3}
  DiskFails = TRUE
  Serial = TRUE
INVARIANTS
  TypeOK
  LockSurvives
  ImportExclusive
  
PROPERTIES
  ImportUnlocks
