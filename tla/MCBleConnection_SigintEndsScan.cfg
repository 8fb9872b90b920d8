CONSTANTS
  MaxConn = 2
  MaxSigint = 1
  PeerDbs <- MCPeerDbs
SPECIFICATION FairSpec
PROPERTY SigintEndsScan
CHECK_DEADLOCK FALSE
