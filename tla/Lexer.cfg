CONSTANTS
  Files <- MC_Files
  Lexemes <- MC_Lexemes
  InitialCapacity = 1
  GrowBy = 1
  MaxTokens = 7
  MaxLexemes = 4
SPECIFICATION FairSpec
INVARIANTS
  TypeOK
  WithinCapacity
  TokensAreTheLexemes
PROPERTIES
  DeadEndsAreForever
  EndsOrDeadEnd
\* The loop ends, and the bound on tokens stops the files that never end.
CHECK_DEADLOCK FALSE
