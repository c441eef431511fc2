SPECIFICATION LocksSpec
CONSTANTS
  Senders = {s1, s2}
  Checkers = {d1}
  Stoppers = {k1}
  Capacity = 1
  ReadsAlways = FALSE
  Nobody = Nobody
PROPERTIES
  ManagerReleased
