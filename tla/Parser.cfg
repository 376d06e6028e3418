SPECIFICATION FairSpellingSpec
CONSTANTS
  Documents <- MCDocuments
  InitialCapacity = 1
  MaxTokens = 3
INVARIANTS
  TypeOK
  RoomForTheEntry
  TreeSpellsTheTokens
PROPERTIES
  DocumentsAccepted
  NearerToTheEnd
CHECK_DEADLOCK FALSE
