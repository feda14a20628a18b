SPECIFICATION Spec
CONSTANTS
  BatchOrder <- MCBatchOrder
  Immediate <- MCImmediate
  BufferCount <- MCBufferCount
  PendingMax = 1
  MaxSamples <- MCMaxSamples
  MaxChanges = 1
  MaxConfigs = 0
INVARIANTS
  TypeOK
  OldestIsOverwritten
  QueuedUntilEncoded
  OneOwner
CHECK_DEADLOCK FALSE
