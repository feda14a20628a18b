SPECIFICATION FairSpec
CONSTANTS
  ModemQueueSize = 3
  Leds <- MCLeds
  LedsOf <- MCLedsOf
  OutsideEvents <- MCOutside
  MaxOutside = 2
  MaxLinkChanges = 2
  Strict = TRUE
INVARIANTS ModemFollowsLink LedsFollowState
PROPERTY PatternsEnd
CHECK_DEADLOCK FALSE
