\* Two containers that create, on a cluster of two replicas.
SPECIFICATION Spec
CONSTANTS
  server = server
  proxy = proxy
  r1 = r1
  r2 = r2
  Nodes = {server, proxy}
  Clustered = {server, proxy}
  Creating = {server, proxy}
  Replicas = {r1, r2}
  Entry = r1
  Tables = 1
  Attempts = 2
  MaxFaults = 2
INVARIANTS
  ReadyEverywhere
PROPERTIES
  LocalFirst
  NoUnusedLocal
  ImplementsRetry
SYMMETRY NodeSymmetry
CHECK_DEADLOCK FALSE
