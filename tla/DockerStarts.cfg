SPECIFICATION Spec
CONSTANTS
  Ids = {c1, c2}
  Starters = {s1, s2}
  Containers = {k1, k2, k3}
  NoContainer = NoContainer
  SerialStarts = FALSE
  DaemonLost = FALSE
INVARIANTS
  ServerKnown
