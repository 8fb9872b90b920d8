CONSTANTS
  MaxConn = 2
  MaxSigint = 1
  PeerDbs <- MCPeerDbs
SPECIFICATION Spec
INVARIANT JoinsOnlyCreatedWorker
CHECK_DEADLOCK FALSE
