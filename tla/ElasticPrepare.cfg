\* A server with two providers and another container, under fairness.
SPECIFICATION FairSpec
CONSTANTS
  server = server
  proxy = proxy
  Nobody = Nobody
  Admin = Admin
  Containers = {server, proxy}
  Plans <- MCPlans
  Attempts = 2
  MaxFaults = 2
INVARIANTS
  TypeOK
  ReadyComplete
PROPERTIES
  DefinitionsKept
  PipelineFirst
  ImplementsRetry
  EventuallyPrepared
CHECK_DEADLOCK FALSE
