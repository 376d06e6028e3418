\* The figures of the code: 100 "milliseconds" on a clock of 1000000 units a second.
CONSTANTS
  Indices = {0, 1, 2, 3}
  OtherIndices = {}
  BufferSize = 64
  Ticks = {1}
  MaxNow = 12
  OtherMaxNow = 0
  WaitMaxNow = 12
  U64 = 1073741824
  OSFreq = 1000000
  Unit = 1
  Count = 1
  EstimateWait = 100
  Milliseconds = {}
  Highest = 0
  Latest = 110
  MaxSets = 0
SPECIFICATION MainSpec
INVARIANTS
  MillisecondsAreWaited
CHECK_DEADLOCK FALSE
