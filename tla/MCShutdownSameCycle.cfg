SPECIFICATION Spec
CONSTANTS
  app = app
  data = data
  utilmod = utilmod
  location = location
  Threaded <- MCThreaded
  Threadless <- MCThreadless
  Supports <- MCSupports
  App = app
  Util = utilmod
  QueueSize = 2
  SameCycle = TRUE
  MaxErrors = 1
  MaxOther = 1
INVARIANT AllAcksStartEarlyReboot
CHECK_DEADLOCK FALSE
