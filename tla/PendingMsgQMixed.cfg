SPECIFICATION Spec
CONSTANTS
  NULL = NULL
  Keys = {k1, k2}
  QueueIds = {q1, q2}
  Interval = 1
  MaxSent = 2
  Faults = {}
INVARIANT OwnCandidatesOnly
CHECK_DEADLOCK FALSE
