SPECIFICATION FairSpec
CONSTANTS
  NULL = NULL
  Clients = {c1, c2}
  Handlers = {h1}
  IceThreads = {i1}
  MaxTurnUris = 0
  Faults = {}
PROPERTY FailingReplaced
