SPECIFICATION Spec
CHECK_DEADLOCK FALSE
CONSTANTS
  Values <- MCValues
  Number <- MCNumber
  Address <- MCAddress
  Prefix <- MCPrefix
  Pattern <- MCPattern
  Width <- MCWidth
  Malformed = Malformed
  NilRegex = NilRegex
  IntMin = 0
  IntMax = 2
  Cases <- MCCases
  Asked = {"CONTAINS_ANY"}
INVARIANTS ContainsAnyAsDocumented
