SPECIFICATION FairSpec
CONSTANTS
  ConnectRetries = 2
  BackoffEntries = 5
  QueueSize = 4
  MaxChanges = 3
  MaxDrops = 2
  MaxAssociations = 1
INVARIANTS
  TypeOK
  BackoffInTable
  NeverStranded
  ConnectedIsCorrected
PROPERTY DisconnectionEnds
CHECK_DEADLOCK FALSE
