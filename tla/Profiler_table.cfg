CONSTANTS
  Indices = {0, 64}
  BufferSize = 64
  Ticks = {1}
  MaxNow = 8
SPECIFICATION Spec
INVARIANTS
  RecordsHavePlace
CHECK_DEADLOCK FALSE
