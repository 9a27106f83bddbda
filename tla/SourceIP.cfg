SPECIFICATION PointSpec
CONSTANTS
  Values <- MCValues
  Number <- MCNumber
  Address <- MCAddress
  Prefix <- MCPrefix
  Pattern <- MCPattern
  Width <- MCWidth
  Malformed = Malformed
  NilRegex = NilRegex
  IntMin = 0
  IntMax = 1
  Tables <- NetworkTables
  NoId = NoId
  Callers <- NoSourceCallers
  Fold <- MCFold
  HostOf <- MCHostOf
  payloadHeader = "x-jwt-payload"
  demoClaimMap <- MCClaimMap
  NilValues = NilValues
  Empty = Empty
  NoRequest = NoRequest
INVARIANTS AbsentSourceNeverMatches
