SPECIFICATION Spec
CONSTANTS
  Ids = {c1, c2}
  Reqs = {r1, r2}
  Allocs <- MCAllocs
  Defs <- MCDefs
  Uses <- MCUses
  Kinds = {"create", "delete", "start"}
  Faults = {}
  SerialCreates = TRUE
  Recoverable = TRUE
  Absent = Absent
  Torn = Torn
  NoCell = NoCell
SYMMETRY Symmetry
INVARIANTS
  RunsCurrentDefinition
