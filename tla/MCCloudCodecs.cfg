SPECIFICATION Spec
CONSTANTS
  Clouds = {"aws_iot", "azure_iot_hub", "nrf_cloud", "lwm2m"}
  BatchCount = 2
  Neighbours = 2
  PathListSize = 15
  MaybeEmpty = {"agnss", "wifi"}
  MaxUnadded = 1
  Window = 1
  MaxCalls = 2
  MaxMessages = 3
  MaxVersion = 2
INVARIANTS CodecTypeOK HeapSound SentOnceButCells LossIsReported PathsFit AppliedInOrder
CHECK_DEADLOCK FALSE
