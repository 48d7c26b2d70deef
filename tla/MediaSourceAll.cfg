SPECIFICATION FairSpec
CONSTANTS
  Viewers = {v1, v2}
  Sinks = {video, audio}
  Faults = {"play", "pad", "error", "eos", "terminate"}
INVARIANTS TypeOK OneMediaThread
PROPERTY TerminateEnds
CHECK_DEADLOCK FALSE
