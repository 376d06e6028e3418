CONSTANTS
  Indices = {0, 1, 2, 3, 64}
  OtherIndices = {0, 1, 64}
  BufferSize = 64
  Ticks = {1, 3}
  MaxNow = 40
  OtherMaxNow = 8
  WaitMaxNow = 12
  U64 = 16
  OSFreq = 2
  Unit = 3
  Count = 2
  EstimateWait = 1
  Milliseconds <- MC_Milliseconds
  Highest = 3
  Latest = 14
  MaxSets = 2
SPECIFICATION MainSpec
INVARIANTS
  TypeOK
  ElapsedIsTheTimeInside
  NoMoreThanTheTotal
  PrintsWhatWasEntered
  MainIsCharged
  WaitIsLongEnough
  UnderestimatesByLittle
PROPERTIES
  WaitEnds
\* main ends, and the clock of other programs is bounded.
CHECK_DEADLOCK FALSE
