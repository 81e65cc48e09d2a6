\* The start order of compose.yaml: init_db_only once, then two services.
SPECIFICATION Spec
CONSTANTS
  server1 = server1
  server2 = server2
  server3 = server3
  init = init
  Server = Server
  Nodes = {init, server1, server2}
  Restartable = {server1, server2}
  After <- ComposeGates
  CreateUser = TRUE
  Total = 4
  FileEnds = {3, 4}
  TableAt = 1
  VersionAt = 2
  Repeatable = {4}
  MaxFaults = 2
INVARIANT GatedReadyImported
CHECK_DEADLOCK FALSE
