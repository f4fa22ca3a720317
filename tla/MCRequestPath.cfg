SPECIFICATION Spec
CONSTANTS
  None = None
  NoEvent = NoEvent
  Programs = {"A", "B"}
  Payloads = {"wanted", "alien"}
  Discriminators = {"hex", "other hex"}
  DiscOf <- MCDiscOf
  Signatures = {"signature"}
  ProgramIds = {"A"}
  Locations <- MCLocations
  Logs <- MCLogs
  Clusters = {"devnet", "mainnet-beta"}
  Scenarios <- MCScenarios
  Updates <- MCUpdates
  MaxUpdates = 2
INVARIANTS SoundRequestsAreServed OwnWorkIsAccepted ConclusionsComeFromCluster InspectionLimitsAgree
CHECK_DEADLOCK FALSE
