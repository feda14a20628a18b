SPECIFICATION FairSpec
CONSTANTS
  app = app
  data = data
  utilmod = utilmod
  location = location
  Threaded <- MCThreaded
  Threadless <- MCThreadless
  Supports <- MCSupports
  App = app
  Util = utilmod
  QueueSize = 2
  SameCycle = FALSE
  MaxErrors = 1
  MaxOther = 2
INVARIANTS
  TypeOK
  AllAcksStartEarlyReboot
  CountMatchesRegistry
  PurgeIsReported
PROPERTIES
  EarlyRebootOnlyAfterAllAcks
  ErrorEndsInReboot
CHECK_DEADLOCK FALSE
