SPECIFICATION FairSpec
CONSTANTS
  NULL = NULL
  Certs = {c1, c2}
  MAX_RTCCONFIGURATION_CERTIFICATES = 1
  Faults = {"config", "credential", "objLock", "readLock", "timerQueue", "sendLock", "msgQ",
            "hashTable", "media", "webrtc", "timer", "client", "free", "poll", "hash", "hang",
            "create", "enqueue", "peer"}
INVARIANTS TypeOK FreedOnce  PipelineStopped CallbacksOnLive NoReuse
PROPERTY Ends
CHECK_DEADLOCK FALSE
