CONSTANTS
  MaxConn = 2
  MaxSigint = 1
  PeerDbs <- MCPeerDbs
SPECIFICATION Spec
INVARIANT ServedWhileTransferring
CHECK_DEADLOCK FALSE
