SPECIFICATION CallSpec
CHECK_DEADLOCK FALSE
CONSTANTS
  Handlers = {h1, h2}
  Workers = {w1}
  BufferSize = 1
  MaxCalls = 2
  None = None
  PepRequests = {p1}
  EnvoyRequests = {e1}
INVARIANTS ForwardedIsAudited
PROPERTIES EveryRequestAnswered AdapterStopCompletes
