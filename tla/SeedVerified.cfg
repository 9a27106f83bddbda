SPECIFICATION SeedingSpec
CONSTANTS
  v1 = v1
  v2 = v2
  bad = bad
  Ids = {1, 2, 3}
  Modes = {"ALLOW", "DENY"}
  Bodies = {v1, v2, bad}
  Uncompilable = {bad}
  Entries <- MCEntries
  Missing = Missing
  Malformed = Malformed
  NoPolicy = NoPolicy
  Idle = Idle
  Sub = Sub
  MaxLen = 3
  MaxCrashes = 0
  Dirs <- NoDirs
  ToolList <- SeedToolList
  Probed <- SeedProbed
  MaxEvents = 1
INVARIANTS VerifiedIsSeeded
