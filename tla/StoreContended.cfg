SPECIFICATION FairSpec
CONSTANTS
  Ids = {x}
  Modes = {"ALLOW", "DENY", "AUDIT"}
  Bodies = {b}
  Writers = {w1, w2}
  Readers = {}
  Ptr = {p1, p2, p3, p4}
  NoPolicy = NoPolicy
  Idle = Idle
  Unloaded = Unloaded
  Conflicts = TRUE
  MaxWindow = 1
INVARIANTS RoutedByMode
PROPERTIES LockFree
