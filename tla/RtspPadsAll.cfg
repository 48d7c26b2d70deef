SPECIFICATION Spec
CONSTANTS
  NULL = NULL
  Cameras <- PlainCameras
  Supported <- SupportedEncodings
  Faults = {"play", "link", "bus", "sample"}
INVARIANTS TypeOK NoOverlap SinkMatches QuitOnLiveLoop
CHECK_DEADLOCK FALSE
