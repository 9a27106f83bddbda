SPECIFICATION SeedingSpec
CONSTANTS
  v1 = v1
  v2 = v2
  bad = bad
  Ids = {1, 2}
  Modes = {"ALLOW", "DENY"}
  Bodies = {v1, v2, bad}
  Uncompilable = {bad}
  Entries <- MCEntries
  Missing = Missing
  Malformed = Malformed
  NoPolicy = NoPolicy
  Idle = Idle
  Sub = Sub
  MaxLen = 20
  MaxCrashes = 1
  Dirs <- MCDirs
  ToolList <- MCToolList
  Probed <- MCProbed
  MaxEvents = 2
INVARIANTS AppliedSinceWipe ServedIsSeeded
PROPERTIES SeedNeverInterrupts SeedTakesEffect ToolEnds
