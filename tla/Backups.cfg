SPECIFICATION Spec
SYMMETRY Symmetry
CONSTANTS
  Files = {f1, f2}
  Archives = {b1}
  Mounts = {m1}
  Inodes = {i1, i2}
  Reqs = {r1, r2}
  Nothing = Nothing
  Serial = TRUE
INVARIANTS
  TypeOK
  BackupSound
  ListedIsAnswered
  MountComplete
PROPERTIES
  RestoreExact
  RestorePathComplete
