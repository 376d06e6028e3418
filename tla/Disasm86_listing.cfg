SPECIFICATION FairSpec
CONSTANTS
  Files <- Listed
  Numbers = {}
  Bytes = {}
  Words = {}
  Sources <- MCSources
  Listing <- Misread
  MaxLines = 0
  MaxBytes = 0
INVARIANTS
  SourceReproduced
CHECK_DEADLOCK FALSE
