SPECIFICATION Spec
CONSTANTS
  Ids = {x, y}
  Modes = {"ALLOW", "DENY"}
  Bodies = {b}
  Writers = {w}
  Readers = {r}
  Ptr = {p1, p2, p3}
  NoPolicy = NoPolicy
  Idle = Idle
  Unloaded = Unloaded
  Conflicts = FALSE
  MaxWindow = 4
INVARIANTS GrantHasInstant
