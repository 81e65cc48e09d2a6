SPECIFICATION FairSpec
CONSTANTS
  Names <- MCNames
  Deployments <- MCDeployments
  Attempts = 3
  MaxFaults = 3
  MaxDeploys = 2
INVARIANTS
  TypeOK
  Configured
  Stable
PROPERTIES
  ImplementsRetry
  EventuallyRunning
CHECK_DEADLOCK FALSE
