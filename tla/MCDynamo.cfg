CONSTANTS
  w1 = w1
  w2 = w2
  p1 = p1
  p2 = p2
  Warmups <- MCWarmups
  Preprocessors <- MCPreprocessors
  OwnerOf <- MCOwnerOf
  MAX_BLOCKING_PREFILLS = 1
  Endpoints <- MCEndpoints
  Graceful <- MCGraceful
  Checked <- MCChecked
  Local <- MCLocal
  Builds <- MCBuilds
  MaxFaults = 2
  MaxCalls = 3
  Configs <- MCConfigs
  Models <- MCModels
  Units <- MCUnits
  UnitsOf <- MCUnitsOf
  EndpointTypes <- MCEndpointTypes
  EndpointsOf <- MCEndpointsOf
  Batch = "Batch"
  ChannelSize = 2
  MaxChanges = 5
SPECIFICATION DynamoSpec
CHECK_DEADLOCK FALSE
INVARIANTS
  WarmupsAccounted
  PublishedIsServed
  EndpointsFollowCatalog
PROPERTIES
  NoLateDispatch
  TasksEnd
  KeepsPolicy
  ShutdownDrains
