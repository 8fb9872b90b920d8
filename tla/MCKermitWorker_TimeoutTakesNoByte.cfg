CONSTANTS
  RSoh = 1
  REom = 13
  Parity = FALSE
  RMaxLen = 2
  RTimo = 1
  TimeoutScale = 20
  Retry = 1
  Writes <- MCWrites
  MaxWritten = 5
SPECIFICATION Spec
INVARIANT TimeoutTakesNoByte
CHECK_DEADLOCK FALSE
