\* One container creates, the other only checks, under fairness.
SPECIFICATION FairSpec
CONSTANTS
  server = server
  proxy = proxy
  r1 = r1
  r2 = r2
  Nodes = {server, proxy}
  Clustered = {server, proxy}
  Creating = {server}
  Replicas = {r1, r2}
  Entry = r1
  Tables = 1
  Attempts = 2
  MaxFaults = 1
PROPERTIES
  EventuallyPrepared
CHECK_DEADLOCK FALSE
