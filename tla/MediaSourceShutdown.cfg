SPECIFICATION FairSpec
CONSTANTS
  Viewers = {v1}
  Sinks = {video}
  Faults = {}
PROPERTY ShutdownEnds
