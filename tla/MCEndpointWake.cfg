CONSTANTS
  Endpoints <- MCEndpoints
  Graceful <- MCEndpoints
  Checked <- MCEndpoints
  Local <- MCEndpoints
  Builds <- MCBuilds
  MaxFaults = 0
  MaxCalls = 1
SPECIFICATION EndpointSpec
CHECK_DEADLOCK FALSE
INVARIANTS
  CleanupUnregisters
