CONSTANTS
  Byte <- MCByte
  Zero = 0
  BufSize = 4
  ArraySize = 4
  Packets <- MCPackets
  MaxDataLen = 2
  MaxCalls = 3
SPECIFICATION Spec
INVARIANT AckedWasSent
CHECK_DEADLOCK FALSE
