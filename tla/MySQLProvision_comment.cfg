\* A node is ready while the import is not (or will never be) finished.
SPECIFICATION Spec
CONSTANTS
  server1 = server1
  server2 = server2
  server3 = server3
  init = init
  Server = Server
  Nodes = {server1, server2}
  Restartable = {server1, server2}
  After <- NoGates
  CreateUser = TRUE
  Total = 4
  FileEnds = {3, 4}
  TableAt = 1
  VersionAt = 2
  Repeatable = {4}
  MaxFaults = 2
INVARIANT ReadyImported
CHECK_DEADLOCK FALSE
