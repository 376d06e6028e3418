CONSTANTS
  Files <- MC_Files
  OtherSizes = {23, 24, 71}
  AnswersSizes = {0, 7, 8, 16, 17, 23, 24, 32}
  MinimumJSONPairEncoding = 24
  TokensCapacity = 10
  TokensGrowBy = 10
  ContainerCapacity = 2
  MaxTokens = 100
  MaxElements = 3
  Lexemes <- MC_Lexemes
  Elements <- MC_Elements
SPECIFICATION FairSpec
INVARIANTS
  PairsAreTheElements
  FormatIsWithinBounds
  NoSumAroundKeywords
  ReferenceIsTheLastAnswer
PROPERTIES
  Stops
\* main ends, and the bound on tokens stops the files that never end.
CHECK_DEADLOCK FALSE
