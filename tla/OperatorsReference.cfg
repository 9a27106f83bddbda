SPECIFICATION Spec
CHECK_DEADLOCK FALSE
CONSTANTS
  Values <- MCValues
  Number <- MCNumber
  Address <- MCAddress
  Prefix <- MCPrefix
  Pattern <- MCPattern
  Width <- MCWidth
  Malformed = Malformed
  NilRegex = NilRegex
  IntMin <- MCIntMin
  IntMax = 2
  Cases <- MCCases
  Asked = {"EQUALS", "CONTAINS_ALL", "CONTAINS_ANY", "IN_CIDR", "BETWEEN", "REGEX"}
INVARIANTS EqualsIsRearrangement ContainsAllIsInclusion InCIDRIsBlocks BetweenIsRange
