SPECIFICATION Spec
CONSTANTS
  BatchOrder <- MCBatchOrder
  Immediate <- MCImmediate
  BufferCount <- MCOneEntry
  PendingMax = 1
  MaxSamples <- MCOneSample
  MaxChanges = 2
  MaxConfigs = 1
INVARIANT NoBufferOrphaned
CHECK_DEADLOCK FALSE
