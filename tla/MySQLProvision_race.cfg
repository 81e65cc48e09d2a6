\* Three server nodes with a restart policy on one database, two faults, under
\* fairness: the race is safe, and it is eventually over.
SPECIFICATION FairSpec
CONSTANTS
  server1 = server1
  server2 = server2
  server3 = server3
  init = init
  Server = Server
  Nodes = {server1, server2, server3}
  Restartable = {server1, server2, server3}
  After <- NoGates
  CreateUser = TRUE
  Total = 4
  FileEnds = {3, 4}
  TableAt = 2
  VersionAt = 3
  Repeatable = {4}
  MaxFaults = 2
INVARIANTS
  TypeOK
  ReadyUsable
PROPERTIES
  StrandedForever
  ImplementsImport
  EventuallyReady
CHECK_DEADLOCK FALSE
