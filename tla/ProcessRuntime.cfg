SPECIFICATION Spec
CONSTANTS
  Ids = {c1, c2}
  Procs = {p1, p2, p3}
  NoProc = NoProc
INVARIANTS
  TypeOK
  OneInstance
PROPERTIES
  ForgetsOwnRun
  KeepsPromise
