SPECIFICATION FairSpec
CONSTANTS
  NULL = NULL
  Clients = {c1, c2}
  Handlers = {h1}
  IceThreads = {i1, i2}
  MaxTurnUris = 0
  Faults = {"create", "fetch", "connect", "free", "state", "query", "offer", "send"}
INVARIANTS TypeOK OneClient AnswerOnLiveClient AnswerOnce
PROPERTIES RestartServed Answered
CHECK_DEADLOCK FALSE
