SPECIFICATION Spec
CONSTANTS
  Methods <- MCMethods
  FirstMethod = "CLOUD"
  Settings <- MCAnySettings
  LibraryMayRefuse = FALSE
  MaxRequests = 2
  MaxConfigs = 1
INVARIANT SearchStateIsOngoing
CHECK_DEADLOCK FALSE
