CONSTANTS
  ByteMod = 256
  WordMod = 4096
  DwordMod = 65536
  Decode <- MC_Decode
  Images <- MC_Images
SPECIFICATION FairSpec
INVARIANTS
  SnapshotsReproduced
  ProgramIntact
PROPERTY Terminates
\* The program ends.
CHECK_DEADLOCK FALSE
