\* One container knows the cluster, the other uses one of its replicas alone.
SPECIFICATION Spec
CONSTANTS
  server = server
  proxy = proxy
  r1 = r1
  r2 = r2
  Nodes = {server, proxy}
  Clustered = {server}
  Creating = {server, proxy}
  Replicas = {r1, r2}
  Entry = r1
  Tables = 1
  Attempts = 2
  MaxFaults = 0
INVARIANT ClusterTablesDistributed
CHECK_DEADLOCK FALSE
