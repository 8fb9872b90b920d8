CONSTANTS
  Byte <- MCByte
  Zero = 0
  BufSize <- MCBufSize
  ArraySize <- MCArraySize
  Input <- MCInput
SPECIFICATION Spec
INVARIANT RxInOrder
CHECK_DEADLOCK FALSE
