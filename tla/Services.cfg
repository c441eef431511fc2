SPECIFICATION Spec
CONSTANTS
  Cells = {x1, x2}
  Clients = {k1, k2}
  Tokens = {t1}
  NoToken = NoToken
  Capacity = 1
  MaxLines = 2
  LineBound = 3
  Slots = {p1, p2}
  DefaultSlots = {p1}
  Updates = {u1, u2}
  Unset = Unset
  Garbled = Garbled
  SerialUpdates = TRUE
  Files = {"plugins", ".plugins"}
  Hive = ".hivepanel"
  FileKinds = {"plugins", "jars"}
  KindsOf <- MCKindsOf
  Stripped <- MCStripped
  RootGiven = TRUE
  MaxSize = 1
  Places = {r1, r2}
  Conventional = {r1}
  Servers = {s1, s2}
  MaxBytes = 2
INVARIANTS
  ServicesTypeOK
  ConsoleFaithful
  SubscribersAlive
  OneConsolePerToken
  RestartKeeps
  
  DetectionBest
PROPERTIES
  ConsoleEnds
  ProgressAdvances
