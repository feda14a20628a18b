SPECIFICATION FairSpec
CONSTANTS
  Settings <- MCSettings
  Positive <- MCPositive
  Values = {0, 1, 2}
  Default <- MCDefault
  MaxChanges = 2
  MaxDrops = 1
  MaxReboots = 1
INVARIANTS ConfigTypeOK OnlyAccepted CopyFollows
PROPERTIES Converges CloudKnows
CHECK_DEADLOCK FALSE
