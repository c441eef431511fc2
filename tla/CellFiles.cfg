SPECIFICATION Spec
SYMMETRY Symmetry
CONSTRAINT Bound
CONSTANTS
  Workers = {w1, w2}
  Conns = {c1}
  Keys = {k1, k2}
  MaxConns = 1
  SyncFails = FALSE
  Nothing = Nothing
  Torn = Torn
  Names = {n1, n2}
  Alts = 1
  MaxSize = 2
  MaxFiles = 2
  DiskLimit = 2
  Reqs = {r1}
  SerialMoves = TRUE
  SelfArchive = FALSE
INVARIANTS
  TypeOK
  OneHostKey
  

  
