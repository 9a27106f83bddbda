SPECIFICATION FairSpec
CHECK_DEADLOCK FALSE
CONSTANTS
  x = x
  y = y
  good = good
  bad = bad
  Ids = {x, y}
  Modes = {"ALLOW", "DENY", "AUDIT"}
  Bodies = {good, bad}
  Uncompilable = {bad}
  Entries <- MCEntries
  Missing = Missing
  Malformed = Malformed
  NoPolicy = NoPolicy
  Idle = Idle
  Sub = Sub
  MaxLen = 3
  MaxCrashes = 1
INVARIANTS TypeOK AppliedInOrder DecisionHasPosition OnlyValidated
PROPERTIES Converges StopsCleanly
