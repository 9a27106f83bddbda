SPECIFICATION Spec
CONSTANTS
  Ids = {x, y}
  Modes = {"ALLOW", "DENY"}
  Bodies = {b}
  Writers = {w1, w2}
  Readers = {r}
  Ptr = {p1, p2, p3, p4}
  NoPolicy = NoPolicy
  Idle = Idle
  Unloaded = Unloaded
  Conflicts = FALSE
  MaxWindow = 3
SYMMETRY Symmetry
INVARIANTS TypeOK OneEntryPerId SnapshotRegular CountBracketed
PROPERTIES OnlyCallersChange ImplementsActivePolicies
