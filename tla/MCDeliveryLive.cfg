SPECIFICATION FairSpec
CONSTANTS
  BatchOrder <- MCBatchOrder
  Immediate <- MCImmediate
  BufferCount <- MCOneEntry
  PendingMax = 1
  MaxSamples <- MCOneSample
  MaxChanges = 2
  MaxConfigs = 1
PROPERTIES
  BuffersEmptied
  TakenIsSent
CHECK_DEADLOCK FALSE
