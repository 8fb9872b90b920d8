CONSTANTS
  RxByte <- MCRxByte
  RxBufSize = 3
  MaxIO = 2
  TxByte <- MCTxByte
  TxBufSize = 4
  Packets <- MCPackets
  MaxDataLen = 2
  MaxCalls = 2
SPECIFICATION Spec
INVARIANT TypeOK
INVARIANT NoLossWithoutGiveUp
PROPERTY ImplementsByteQueue
