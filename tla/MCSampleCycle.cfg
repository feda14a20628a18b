SPECIFICATION FairSpec
CONSTANTS
  SensorTypes <- MCSensorTypes
  DataTypes <- MCDataTypes
  Configs <- MCConfigs
  Strict = TRUE
  QueueSize = 2
  LocationAnswers = 1
  MaxStimuli = 2
INVARIANTS
  TypeOK
  TimersFollowMode
  NoCompleteRequestWaits
  ReadyMeansAllAnswered
  OngoingHasAnEnd
PROPERTY RequestCompletes
CHECK_DEADLOCK FALSE
