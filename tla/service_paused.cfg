SPECIFICATION ServiceSpec
CONSTANTS
  NoReport = NoReport
  SupportsPause = TRUE
  MaxCheckpoint = 2
INVARIANT PausedServiceAcceptsControls
CHECK_DEADLOCK FALSE
