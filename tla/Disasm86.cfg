SPECIFICATION FairSpec
CONSTANTS
  Files <- MCFiles
  Numbers <- MCNumbers
  Bytes <- MCBytes
  Words <- MCWords
  Sources <- MCSources
  Listing <- Listing39
  MaxLines = 2
  MaxBytes = 4
INVARIANTS
  TypeOK
  SourceReproduced
PROPERTIES
  AssembledIsPrinted
  ReachesTheEnd
\* The loop ends.
CHECK_DEADLOCK FALSE
