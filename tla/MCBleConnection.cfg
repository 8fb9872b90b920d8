CONSTANTS
  MaxConn = 2
  MaxSigint = 1
  PeerDbs <- MCPeerDbs
SPECIFICATION FairSpec
INVARIANT WorkerExclusive
INVARIANT ScanningAlone
PROPERTY DisconnectReturnsToScan
PROPERTY ImplementsConnectionSpec
\* The process stops: exit(), a crash, or pthread_exit with no worker left.
CHECK_DEADLOCK FALSE
