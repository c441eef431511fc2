SPECIFICATION LocksSpec
CONSTANTS
  Senders = {s1, s2}
  Checkers = {d1}
  Stoppers = {k1}
  Capacity = 1
  ReadsAlways = TRUE
  Nobody = Nobody
INVARIANTS
  LocksTypeOK
PROPERTIES
  ManagerReleased
  StopEndsGame
