CONSTANTS
  PairCounts = {0, 1, 2, 5, 7, 8, 9, 10}
  maxPairCount = 10
  LargestX = 5
  LargestY = 4
  ClusterDivisor = 3
  MaxPairsRead = 2
  RandomInRange <- MC_RandomInRange
  MinimumJSONPairEncoding = 24
  TokensCapacity = 10
  TokensGrowBy = 10
  ContainerCapacity = 2
  MaxTokens = 60
SPECIFICATION RoundtripSpec
INVARIANTS
  BoundsStayPositive
  OnTheGlobe
  ClustersNotNegative
  AList
  ClustersAreRead
PROPERTIES
  TransfersThePairs
\* Both programs end.
CHECK_DEADLOCK FALSE
