SPECIFICATION FairSpec
CHECK_DEADLOCK FALSE
CONSTANTS
  Handlers = {h1, h2}
  Workers = {w1, w2}
  BufferSize = 1
  MaxCalls = 4
  None = None
INVARIANTS TypeOK OneRecordPerDecision NoSendAfterClose DrainedWhenStopped ExitLossBounded CountersMatchDecisions
PROPERTIES StopCompletes
