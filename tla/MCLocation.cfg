SPECIFICATION FairSpec
CONSTANTS
  Methods <- MCMethods
  FirstMethod = "CLOUD"
  Settings <- MCSettings
  LibraryMayRefuse = FALSE
  MaxRequests = 2
  MaxConfigs = 1
INVARIANT PendingMeansAsked
PROPERTIES KeepsPromise LeavesSearch
CHECK_DEADLOCK FALSE
