CONSTANTS
  ByteMod = 256
  WordMod = 4096
  DwordMod = 65536
  Decode <- MC_Decode
  Images <- MC_StoresAndLoads
SPECIFICATION Spec
INVARIANT WordsAreStored
\* The program ends.
CHECK_DEADLOCK FALSE
