CONSTANTS
  ByteMod = 32
  WordMod = 64
  DwordMod = 256
  Decode <- MC_Decode
  Images <- MC_Images
SPECIFICATION Spec
INVARIANTS
  TypeOK
  IpTracksOffset
PROPERTY ImplementsIsa
\* The program ends, and so does the simulator when it leaves memory.
CHECK_DEADLOCK FALSE
