CONSTANTS
  MaxConn = 2
  MaxSigint = 1
  PeerDbs <- MCPeerDbs
SPECIFICATION Spec
INVARIANT SigintTearsDown
CHECK_DEADLOCK FALSE
