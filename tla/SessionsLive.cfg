SPECIFICATION FairSpec
CONSTANTS
  p1 = p1
  p2 = p2
  p3 = p3
  k1 = k1
  k2 = k2
  NULL = NULL
  Peers = {p1}
  Keys = {k1, k2}
  KeyOf <- PeerKeys
  SessionIds = {s1, s2}
  MaxSessions = 2
  TimerIds = {t1}
  Handlers = {h1}
  Faults = {"offer"}
PROPERTY Reaped
