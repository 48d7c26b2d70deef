--------------------------- MODULE SessionsProofs ---------------------------
(***************************************************************************)
(* The safety of the streaming sessions, for every number of viewers,      *)
(* sessions, handler threads and timers.  Safe (in Sessions) is inductive. *)
(* Its parts depend on each other, so each lemma about a part shows that a *)
(* step from a state of Safe leads to a state of that part.  Routed, which *)
(* says that every running session is reachable through the hash table,    *)
(* holds as long as handleOffer never fails, and gives the last theorems.  *)
(***************************************************************************)
EXTENDS Sessions, TLAPS

-----------------------------------------------------------------------------
(* Which steps write what.                                                   *)

(* A thread's control state is written by its own steps only.                *)
LEMMA ThreadWriters ==
  ASSUME Next
  PROVE  /\ (\E h \in Handlers : Handle(h)) \/ UNCHANGED handler
         /\ Poll \/ UNCHANGED poll
         /\ Sink \/ UNCHANGED sink
         /\ Stats \/ UNCHANGED stats
<1>1. CASE \E h \in Handlers : Handle(h)
  BY <1>1 DEF Handle, Receive, HandleCandidate, RefuseOffer, CreateSession, CreateSessionFails,
     CreateSessionCancel, CreateSessionReset, AppendSession, HandleOffer, HandleOfferFails, PutSession, StartStats
<1>2. CASE Poll
  BY <1>2 DEF Poll, PollLock, PollSkip, PollUnlink, PollUnlinkFails, PollCancel, PollFree,
     PollWait
<1>3. CASE Sink
  BY <1>3 DEF Sink, SinkLock, SinkSkip, SinkPick, SinkWrite, SinkUnlock
<1>4. CASE Stats
  BY <1>4 DEF Stats, StatsFire, StatsLock, StatsVisit, StatsUnlock
<1>5. CASE MediaEos \/ \E s \in SessionIds : ConnectionLost(s)
  BY <1>5 DEF MediaEos, ConnectionLost
<1> QED
  BY <1>1, <1>2, <1>3, <1>4, <1>5 DEF Next

(* The array, the heap and the hash table have few writers.                  *)
LEMMA DataWriters ==
  ASSUME Next
  PROVE  /\ \/ \E h \in Handlers : CreateSession(h) \/ CreateSessionFails(h) \/ AppendSession(h)
            \/ PollUnlink \/ PollUnlinkFails \/ PollFree
            \/ UNCHANGED <<streamingSessionList, streamingSessionCount, allocated, peerId>>
         /\ \/ \E h \in Handlers : PutSession(h)
            \/ PollUnlink
            \/ UNCHANGED pRemoteRtcPeerConnections
<1> USE DEF registry, memory
<1>1. CASE \E h \in Handlers : Handle(h)
  BY <1>1 DEF Handle, Receive, HandleCandidate, RefuseOffer, CreateSession, CreateSessionFails,
     CreateSessionCancel, CreateSessionReset, AppendSession, HandleOffer, HandleOfferFails, PutSession, StartStats
<1>2. CASE Poll
  BY <1>2 DEF Poll, PollLock, PollSkip, PollUnlinkFails, PollCancel, PollFree, PollWait
<1>3. CASE Sink
  BY <1>3 DEF Sink, SinkLock, SinkSkip, SinkPick, SinkWrite, SinkUnlock
<1>4. CASE Stats
  BY <1>4 DEF Stats, StatsFire, StatsLock, StatsVisit, StatsUnlock
<1>5. CASE MediaEos \/ \E s \in SessionIds : ConnectionLost(s)
  BY <1>5 DEF MediaEos, ConnectionLost
<1> QED
  BY <1>1, <1>2, <1>3, <1>4, <1>5 DEF Next

-----------------------------------------------------------------------------
(* Types                                                                     *)

(* The handlers' control states and locals keep their types.                 *)
LEMMA HandlerTypeStep == ASSUME Safe, Next PROVE handler' \in [Handlers -> HandlerStates]
<1> USE DEF Safe, TypeOK, SharedTypeOK, HandlerStates
<1>1. ASSUME NEW h \in Handlers, NEW p \in Peers, NEW type \in {"offer", "candidate"},
             Receive(h, p, type)
      PROVE  handler' \in [Handlers -> HandlerStates]
  BY <1>1, SessionsAssumption DEF Receive
<1>2. ASSUME NEW h \in Handlers,
             HandleCandidate(h) \/ RefuseOffer(h) \/ CreateSessionFails(h) \/ HandleOfferFails(h)
      PROVE  handler' \in [Handlers -> HandlerStates]
  BY <1>2 DEF HandleCandidate, RefuseOffer, CreateSessionFails, HandleOfferFails, Leave, Idle
<1>3. ASSUME NEW h \in Handlers, PutSession(h) \/ StartStats(h)
      PROVE  handler' \in [Handlers -> HandlerStates]
  BY <1>3 DEF PutSession, StartStats, Leave, Idle
<1>4. ASSUME NEW h \in Handlers, CreateSession(h) \/ AppendSession(h) \/ HandleOffer(h)
      PROVE  handler' \in [Handlers -> HandlerStates]
  BY <1>4 DEF CreateSession, AppendSession, HandleOffer
<1>5. ASSUME NEW h \in Handlers, CreateSessionCancel(h) \/ CreateSessionReset(h)
      PROVE  handler' \in [Handlers -> HandlerStates]
  BY <1>5 DEF CreateSessionCancel, CreateSessionReset, Leave, Idle
<1> QED
  BY <1>1, <1>2, <1>3, <1>4, <1>5, ThreadWriters DEF Handle

(* So do pollApp's: its index stays within the array.                        *)
LEMMA PollTypeStep == ASSUME Safe, Next PROVE poll' \in PollStates
<1>1. poll \in PollStates
  BY DEF Safe, TypeOK
<1>2. 0 \in 0 .. MaxSessions
  BY SessionsAssumption
<1>3. CASE PollLock
  <2>1. {s \in Listed : terminateFlag[s]} \subseteq SessionIds
    BY DEF Listed, Safe, TypeOK, SharedTypeOK, ListSound
  <2> QED BY <1>2, <1>3, <2>1 DEF PollLock, PollStates
<1>4. CASE PollSkip
  <2>1. poll.i + 1 \in 0 .. MaxSessions
    BY <1>4, SessionsAssumption DEF PollSkip, Safe, TypeOK, SharedTypeOK, PollStates
  <2> QED BY <1>1, <1>4, <2>1 DEF PollSkip, PollStates
<1>5. CASE PollUnlink
  <2>1. AfterRemove(poll.i) \in 0 .. MaxSessions
    BY <1>5, SessionsAssumption
       DEF PollUnlink, FoundTerminated, AfterRemove, Safe, TypeOK, PollStates, SharedTypeOK
  <2>2. streamingSessionList[poll.i] \in SessionIds
    BY <1>5, SessionsAssumption
       DEF PollUnlink, FoundTerminated, Safe, TypeOK, PollStates, SharedTypeOK, ListSound
  <2> QED BY <1>1, <1>5, <2>1, <2>2 DEF PollUnlink, PollStates
<1>6. CASE PollUnlinkFails \/ PollCancel \/ PollFree
  BY <1>1, <1>6 DEF PollUnlinkFails, PollCancel, PollFree, PollStates
<1>7. CASE PollWait
  BY <1>1, <1>2, <1>7 DEF PollWait, PollStates
<1> QED
  BY <1>1, <1>3, <1>4, <1>5, <1>6, <1>7, ThreadWriters DEF Poll

(* The media thread's: the array does not shrink under its index.            *)
LEMMA SinkTypeStep == ASSUME Safe, Next PROVE sink' \in SinkStates
<1>1. sink \in SinkStates
  BY DEF Safe, TypeOK
<1>2. 0 \in 0 .. MaxSessions
  BY SessionsAssumption
<1>3. ASSUME NEW f \in Frames, SinkLock(f) PROVE sink' \in SinkStates
  BY <1>2, <1>3 DEF SinkLock, SinkStates
<1>4. CASE SinkSkip \/ SinkWrite
  <2>1. sink.i + 1 \in 0 .. MaxSessions
    BY <1>4, SessionsAssumption
       DEF SinkSkip, SinkWrite, Safe, TypeOK, SharedTypeOK, SinkStates, InHand
  <2> QED BY <1>1, <1>4, <2>1 DEF SinkSkip, SinkWrite, SinkStates
<1>5. CASE SinkPick
  <2>1. streamingSessionList[sink.i] \in SessionIds
    BY <1>5, SessionsAssumption
       DEF SinkPick, Safe, TypeOK, SinkStates, SharedTypeOK, ListSound
  <2> QED BY <1>1, <1>5, <2>1 DEF SinkPick, SinkStates
<1>6. CASE SinkUnlock
  BY <1>1, <1>2, <1>6 DEF SinkUnlock, SinkStates, Frames
<1> QED
  BY <1>1, <1>3, <1>4, <1>5, <1>6, ThreadWriters DEF Sink

(* The statistics callback's.                                                *)
LEMMA StatsTypeStep == ASSUME Safe, Next PROVE stats' \in StatsStates
<1>1. stats \in StatsStates
  BY DEF Safe, TypeOK
<1>2. 0 \in 0 .. MaxSessions
  BY SessionsAssumption
<1>3. CASE StatsFire \/ StatsLock
  BY <1>1, <1>2, <1>3 DEF StatsFire, StatsLock, StatsStates
<1>4. CASE StatsVisit
  <2>1. /\ stats.i + 1 \in 0 .. MaxSessions
        /\ streamingSessionList[stats.i] \in SessionIds
    BY <1>4, SessionsAssumption
       DEF StatsVisit, Safe, TypeOK, StatsStates, SharedTypeOK, ListSound
  <2> QED BY <1>1, <1>4, <2>1 DEF StatsVisit, StatsStates
<1>5. CASE StatsUnlock
  BY <1>2, <1>5 DEF StatsUnlock, StatsStates
<1> QED
  BY <1>1, <1>3, <1>4, <1>5, ThreadWriters DEF Stats
(* The shared data: there is room for every session appended.                *)
LEMMA SharedTypeStep == ASSUME Safe, Next PROVE SharedTypeOK'
<1> USE SessionsAssumption DEF Safe, TypeOK, SharedTypeOK, registry, memory, timers, locks
<1>1. ASSUME NEW h \in Handlers, NEW p \in Peers, NEW type \in {"offer", "candidate"},
             Receive(h, p, type)
      PROVE  SharedTypeOK'
  BY <1>1 DEF Receive
<1>2. ASSUME NEW h \in Handlers,
             HandleCandidate(h) \/ RefuseOffer(h) \/ HandleOffer(h) \/ HandleOfferFails(h)
      PROVE  SharedTypeOK'
  BY <1>2 DEF HandleCandidate, RefuseOffer, HandleOffer, HandleOfferFails, Leave
<1>3. ASSUME NEW h \in Handlers, CreateSession(h) PROVE SharedTypeOK'
  <2>1. handler[h].peer \in Peers \cup {NULL}
    BY DEF HandlerStates
  <2> QED BY <1>3, <2>1 DEF CreateSession, NewSession, ClearFirstKeyFrame
<1>4. ASSUME NEW h \in Handlers, CreateSessionFails(h) PROVE SharedTypeOK'
  BY <1>4 DEF CreateSessionFails, NewSession, ClearFirstKeyFrame, Leave
<1>5. ASSUME NEW h \in Handlers, AppendSession(h) PROVE SharedTypeOK'
  <2>1. handler[h].session \in SessionIds \cup {NULL} /\ streamingSessionCount # MaxSessions
    BY <1>5 DEF AppendSession, HandlerStates, Starting
  <2> QED BY <1>5, <2>1 DEF AppendSession
<1>6. ASSUME NEW h \in Handlers, PutSession(h) PROVE SharedTypeOK'
  <2>1. handler[h].session \in SessionIds \cup {NULL}
    BY DEF HandlerStates
  <2> QED BY <1>6, <2>1 DEF PutSession, Leave
<1>7. ASSUME NEW h \in Handlers, StartStats(h) PROVE SharedTypeOK'
  BY <1>7 DEF StartStats
<1>8. CASE PollLock \/ PollSkip \/ PollWait
  BY <1>8 DEF PollLock, PollSkip, PollWait
<1>9. ASSUME FoundTerminated, SwapRemove(poll.i)
      PROVE  /\ streamingSessionList' \in [0 .. MaxSessions - 1 -> SessionIds \cup {NULL}]
             /\ streamingSessionCount' \in 0 .. MaxSessions
  BY <1>9 DEF FoundTerminated, SwapRemove, PollStates
<1>10. CASE PollUnlink
  <2>1. pRemoteRtcPeerConnections' \in [Keys -> SessionIds \cup {NULL}]
    BY <1>10 DEF PollUnlink, Unroute
  <2> QED BY <1>9, <1>10, <2>1 DEF PollUnlink
<1>11. CASE PollUnlinkFails
  BY <1>9, <1>11 DEF PollUnlinkFails
<1>12. CASE PollFree
  BY <1>12 DEF PollFree, FreeSession, ResetStats
<1>13. ASSUME NEW f \in Frames, SinkLock(f) PROVE SharedTypeOK'
  BY <1>13 DEF SinkLock
<1>14. CASE SinkSkip \/ SinkUnlock
  BY <1>14 DEF SinkSkip, SinkUnlock
<1>15. CASE SinkPick
  BY <1>15 DEF SinkPick
<1>16. CASE SinkWrite
  <2>1. sink.session \in SessionIds
    BY <1>16 DEF SinkWrite, InHand, ListSound, Listed
  <2> QED BY <1>16, <2>1 DEF SinkWrite
<1>17. CASE Stats
  BY <1>17 DEF Stats, StatsFire, StatsLock, StatsVisit, StatsUnlock
<1>18. CASE MediaEos
  BY <1>18 DEF MediaEos
<1>19. ASSUME NEW s \in SessionIds, ConnectionLost(s) PROVE SharedTypeOK'
  BY <1>19 DEF ConnectionLost
<1>20. ASSUME NEW h \in Handlers, CreateSessionCancel(h) \/ CreateSessionReset(h)
       PROVE  SharedTypeOK'
  BY <1>20 DEF CreateSessionCancel, CreateSessionReset, CancelStats, ResetStats, Leave
<1>21. CASE PollCancel
  BY <1>21 DEF PollCancel, CancelStats
<1> HIDE DEF Safe, TypeOK, SharedTypeOK, registry, memory, timers, locks
<1> QED
  BY <1>1, <1>2, <1>3, <1>4, <1>5, <1>6, <1>7, <1>8, <1>10, <1>11, <1>12, <1>13, <1>14,
     <1>15, <1>16, <1>17, <1>18, <1>19, <1>20, <1>21 DEF Next, Handle, Poll, Sink

(* Every variable keeps its type.                                            *)
LEMMA TypeStep == ASSUME Safe, Next PROVE TypeOK'
BY HandlerTypeStep, PollTypeStep, SinkTypeStep, StatsTypeStep, SharedTypeStep DEF TypeOK

-----------------------------------------------------------------------------
(* The array                                                                 *)

(* The swap-remove takes out the entry at i and no other.                    *)
LEMMA Removed ==
  ASSUME Safe, NEW i \in 0 .. streamingSessionCount - 1, SwapRemove(i)
  PROVE  /\ Listed' = Listed \ {streamingSessionList[i]}
         /\ streamingSessionCount' = streamingSessionCount - 1
         /\ \A j, k \in 0 .. streamingSessionCount' - 1 :
              streamingSessionList'[j] = streamingSessionList'[k] => j = k
<1> USE DEF Safe, TypeOK, SharedTypeOK, ListSound
<1>1. streamingSessionCount' = streamingSessionCount - 1
  BY DEF SwapRemove
<1>2. \A j \in 0 .. streamingSessionCount' - 1 :
        streamingSessionList'[j] = streamingSessionList[IF j = i THEN streamingSessionCount - 1 ELSE j]
  BY <1>1, SessionsAssumption DEF SwapRemove
<1>3. ASSUME NEW s \in Listed' PROVE s \in Listed \ {streamingSessionList[i]}
  BY <1>1, <1>2, <1>3 DEF Listed
<1>4. ASSUME NEW s \in Listed \ {streamingSessionList[i]} PROVE s \in Listed'
  <2>1. PICK j \in 0 .. streamingSessionCount - 1 : s = streamingSessionList[j] /\ j # i
    BY <1>4 DEF Listed
  <2>2. CASE j = streamingSessionCount - 1
    <3>1. i \in 0 .. streamingSessionCount' - 1 /\ streamingSessionList'[i] = s
      BY <1>1, <1>2, <2>1, <2>2
    <3> QED BY <3>1 DEF Listed
  <2>3. CASE j # streamingSessionCount - 1
    <3>1. j \in 0 .. streamingSessionCount' - 1 /\ streamingSessionList'[j] = s
      BY <1>1, <1>2, <2>1, <2>3
    <3> QED BY <3>1 DEF Listed
  <2> QED BY <2>2, <2>3
<1>5. \A j, k \in 0 .. streamingSessionCount' - 1 :
        streamingSessionList'[j] = streamingSessionList'[k] => j = k
  BY <1>1, <1>2
<1> QED BY <1>1, <1>3, <1>4, <1>5

(* The removal of pollApp: the session at its index, which is marked.        *)
LEMMA PollRemoved ==
  ASSUME Safe, FoundTerminated, SwapRemove(poll.i)
  PROVE  /\ streamingSessionList[poll.i] \in Listed
         /\ terminateFlag[streamingSessionList[poll.i]]
         /\ Listed' = Listed \ {streamingSessionList[poll.i]}
         /\ streamingSessionCount' = streamingSessionCount - 1
         /\ \A j, k \in 0 .. streamingSessionCount' - 1 :
              streamingSessionList'[j] = streamingSessionList'[k] => j = k
<1>1. poll.i \in 0 .. streamingSessionCount - 1
  BY DEF FoundTerminated, Safe, TypeOK, SharedTypeOK, PollStates
<1>2. streamingSessionList[poll.i] \in Listed /\ terminateFlag[streamingSessionList[poll.i]]
  BY <1>1 DEF Listed, FoundTerminated
<1> QED BY <1>1, <1>2, Removed

(* The append of a handler: one session that was not in the array.           *)
LEMMA Appended ==
  ASSUME Safe, NEW h \in Handlers, AppendSession(h)
  PROVE  /\ Listed' = Listed \cup {handler[h].session}
         /\ handler[h].session \in allocated \ Listed
         /\ streamingSessionCount' = streamingSessionCount + 1
         /\ \A j, k \in 0 .. streamingSessionCount' - 1 :
              streamingSessionList'[j] = streamingSessionList'[k] => j = k
<1> USE DEF Safe, TypeOK, SharedTypeOK
<1>1. /\ streamingSessionCount' = streamingSessionCount + 1
      /\ streamingSessionCount \in 0 .. MaxSessions - 1
      /\ streamingSessionList'[streamingSessionCount] = handler[h].session
      /\ handler[h].session \in allocated \ Listed
  BY SessionsAssumption DEF AppendSession, Starting
<1>2. \A j \in 0 .. streamingSessionCount - 1 : streamingSessionList'[j] = streamingSessionList[j]
  BY <1>1 DEF AppendSession
<1>3. Listed' = Listed \cup {handler[h].session}
  BY <1>1, <1>2 DEF Listed
<1> QED BY <1>1, <1>2, <1>3 DEF Listed, ListSound

(* A step without an append or a removal.                                    *)
LEMMA SameList ==
  ASSUME UNCHANGED <<streamingSessionList, streamingSessionCount>> PROVE Listed' = Listed
BY DEF Listed

(* ListSound in terms of Listed.                                             *)
LEMMA ListSoundBySet ==
  ListSound <=> /\ Listed \subseteq allocated
                /\ \A i, j \in 0 .. streamingSessionCount - 1 :
                     streamingSessionList[i] = streamingSessionList[j] => i = j
BY DEF ListSound, Listed

(* The array keeps naming allocated sessions, each once.                     *)
LEMMA ListStep == ASSUME Safe, Next PROVE ListSound'
<1>1. ASSUME NEW h \in Handlers, CreateSession(h) \/ CreateSessionFails(h) PROVE ListSound'
  BY <1>1 DEF CreateSession, CreateSessionFails, NewSession, registry, memory, Safe, ListSound
<1>2. ASSUME NEW h \in Handlers, AppendSession(h) PROVE ListSound'
  <2>1. Listed' \subseteq allocated'
    BY <1>2, Appended, ListSoundBySet DEF AppendSession, memory, Safe
  <2> QED BY <1>2, <2>1, Appended DEF ListSound, Listed
<1>3. CASE PollUnlink \/ PollUnlinkFails
  <2>1. Listed' \subseteq allocated'
    BY <1>3, PollRemoved, ListSoundBySet DEF PollUnlink, PollUnlinkFails, memory, Safe
  <2>2. \A j, k \in 0 .. streamingSessionCount' - 1 :
          streamingSessionList'[j] = streamingSessionList'[k] => j = k
    BY <1>3, PollRemoved DEF PollUnlink, PollUnlinkFails
  <2> QED BY <2>1, <2>2 DEF ListSound, Listed
<1>4. CASE PollFree
  BY <1>4 DEF PollFree, FreeSession, registry, Safe, InHand, ListSound, Listed
<1>5. CASE UNCHANGED <<streamingSessionList, streamingSessionCount, allocated, peerId>>
  BY <1>5 DEF Safe, ListSound
<1> QED
  BY <1>1, <1>2, <1>3, <1>4, <1>5, DataWriters
-----------------------------------------------------------------------------
(* The hash table                                                            *)

(* Once pollApp has failed with the read lock held, the lock stays held.     *)
LEMMA ReadLockStays == ASSUME Safe, Next, readLock = "main" PROVE readLock' = "main"
<1> USE DEF locks
<1>1. /\ "main" # NULL /\ sink.pc \notin {"loop", "write"} /\ poll.pc = "exit"
  BY SessionsAssumption DEF Services, Threads, Safe, LocksHeld
<1>2. CASE \E h \in Handlers : Handle(h)
  BY <1>2 DEF Handle, Receive, HandleCandidate, RefuseOffer, CreateSession, CreateSessionFails,
     CreateSessionCancel, CreateSessionReset, AppendSession, HandleOffer, HandleOfferFails, PutSession, StartStats
<1>3. CASE Poll
  BY <1>1, <1>3 DEF Poll, PollLock, PollSkip, PollUnlink, FoundTerminated, PollUnlinkFails,
     PollCancel, PollFree, PollWait
<1>4. CASE Sink
  BY <1>1, <1>4 DEF Sink, SinkLock, SinkSkip, SinkPick, SinkWrite, SinkUnlock
<1>5. CASE Stats
  BY <1>5 DEF Stats, StatsFire, StatsLock, StatsVisit, StatsUnlock
<1>6. CASE MediaEos \/ \E s \in SessionIds : ConnectionLost(s)
  BY <1>6 DEF MediaEos, ConnectionLost
<1> QED
  BY <1>2, <1>3, <1>4, <1>5, <1>6 DEF Next

(* The hash table keeps leading to running sessions of the right key.        *)
LEMMA TableStep == ASSUME Safe, Next PROVE TableSound'
<1> USE DEF Safe, TableSound
<1>1. ASSUME NEW h \in Handlers, PutSession(h) PROVE TableSound'
  <2>1. /\ handler[h].session \in allocated \cap Listed
        /\ handler[h].peer \in Peers
        /\ peerId[handler[h].session] = handler[h].peer
    BY <1>1 DEF PutSession, Starting
  <2>2. KeyOf[handler[h].peer] \in Keys /\ handler[h].peer # NULL
    BY <2>1, SessionsAssumption
  <2>3. Listed' = Listed
    BY <1>1, SameList DEF PutSession
  <2> QED BY <1>1, <2>1, <2>2, <2>3 DEF PutSession, memory, TypeOK, SharedTypeOK
<1>2. CASE PollUnlink
  <2>1. Listed' = Listed \ {streamingSessionList[poll.i]} /\ readLock # "main"
    BY <1>2, PollRemoved, SessionsAssumption
       DEF PollUnlink, FoundTerminated, ReadLockFree, Services, Threads
  <2> QED BY <1>2, <2>1 DEF PollUnlink, Unroute, memory, TypeOK, SharedTypeOK
<1>3. CASE UNCHANGED pRemoteRtcPeerConnections
  <2>1. ASSUME NEW h \in Handlers, CreateSession(h) \/ CreateSessionFails(h) PROVE TableSound'
    <3>1. Listed' = Listed
      BY <2>1, SameList DEF CreateSession, CreateSessionFails, registry
    <3>2. \A s \in allocated : s \in allocated' /\ peerId'[s] = peerId[s]
      BY <2>1 DEF CreateSession, CreateSessionFails, NewSession, memory, TypeOK, SharedTypeOK
    <3> QED BY <1>3, <3>1, <3>2, ReadLockStays
  <2>2. ASSUME NEW h \in Handlers, AppendSession(h) PROVE TableSound'
    BY <1>3, <2>2, Appended, ReadLockStays DEF AppendSession, memory
  <2>3. CASE PollUnlink
    BY <1>2, <2>3
  <2>4. CASE PollUnlinkFails
    BY <1>3, <2>4 DEF PollUnlinkFails, memory
  <2>5. CASE PollFree
    <3>1. poll.session \notin Listed /\ readLock # "main"
      BY <2>5 DEF PollFree, InHand, LocksHeld
    <3>2. Listed' = Listed
      BY <2>5, SameList DEF PollFree, registry
    <3> QED BY <1>3, <2>5, <3>1, <3>2 DEF PollFree, FreeSession
  <2>6. CASE UNCHANGED <<streamingSessionList, streamingSessionCount, allocated, peerId>>
    BY <1>3, <2>6, SameList, ReadLockStays
  <2> QED BY <2>1, <2>2, <2>3, <2>4, <2>5, <2>6, DataWriters
<1> QED
  BY <1>1, <1>2, <1>3, DataWriters

-----------------------------------------------------------------------------
(* The threads                                                               *)

(* Every critical section keeps its lock.                                    *)
LEMMA LocksStep == ASSUME Safe, Next PROVE LocksHeld'
<1> USE SessionsAssumption DEF Safe, LocksHeld, Services, Threads, locks
<1>1. ASSUME NEW h \in Handlers, NEW p \in Peers, NEW type \in {"offer", "candidate"},
             Receive(h, p, type)
      PROVE  LocksHeld'
  BY <1>1 DEF Receive, TypeOK, HandlerStates
<1>2. ASSUME NEW h \in Handlers,
             \/ HandleCandidate(h) \/ RefuseOffer(h) \/ CreateSessionFails(h)
             \/ CreateSessionReset(h) \/ HandleOfferFails(h)
      PROVE  LocksHeld'
  BY <1>2 DEF HandleCandidate, RefuseOffer, CreateSessionFails, MayCreate, CreateSessionReset,
     HandleOfferFails, Leave, Idle, TypeOK, HandlerStates
<1>3. ASSUME NEW h \in Handlers,
             CreateSession(h) \/ CreateSessionCancel(h) \/ AppendSession(h) \/ HandleOffer(h)
      PROVE  LocksHeld'
  BY <1>3 DEF CreateSession, CreateSessionCancel, MayCreate, AppendSession, HandleOffer, TypeOK, HandlerStates
<1>4. ASSUME NEW h \in Handlers, PutSession(h) PROVE LocksHeld'
  <2>1. handler'[h].pc \in {"idle", "startStats"} /\ \A g \in Handlers : g # h => handler'[g] = handler[g]
    BY <1>4 DEF PutSession, Leave, Idle, TypeOK
  <2> QED BY <1>4, <2>1 DEF PutSession, Leave
<1>5. ASSUME NEW h \in Handlers, StartStats(h) PROVE LocksHeld'
  BY <1>5 DEF StartStats, Idle, TypeOK, HandlerStates
<1>6. CASE PollLock \/ PollSkip \/ PollUnlink \/ PollCancel \/ PollFree
  BY <1>6 DEF PollLock, PollSkip, PollUnlink, FoundTerminated, ReadLockFree, PollCancel, PollFree,
     TypeOK, PollStates
<1>7. CASE PollUnlinkFails \/ PollWait
  <2>1. objLock = "main" /\ poll.pc = "scan" /\ "main" \notin Handlers
    BY <1>7 DEF PollUnlinkFails, PollWait, FoundTerminated
  <2>2. poll'.pc \in {"wait", "exit"} /\ (PollUnlinkFails => poll'.pc = "exit")
    BY <1>7 DEF PollUnlinkFails, PollWait, TypeOK, PollStates
  <2>3. \A h \in Handlers :
          handler[h].pc \notin {"candidate", "offer", "append", "answer", "put", "reset"}
    BY <2>1
  <2>4. stats.pc # "loop" /\ readLock # "main"
    BY <2>1
  <2>5. PollUnlinkFails => sink.pc \notin {"loop", "write"}
    BY DEF PollUnlinkFails, FoundTerminated, ReadLockFree
  <2> QED BY <1>7, <2>1, <2>2, <2>3, <2>4, <2>5 DEF PollUnlinkFails, PollWait
<1>8. ASSUME NEW f \in Frames, SinkLock(f) PROVE LocksHeld'
  BY <1>8 DEF SinkLock
<1>9. CASE SinkSkip \/ SinkPick \/ SinkWrite
  BY <1>9 DEF SinkSkip, SinkPick, SinkWrite, TypeOK, SinkStates
<1>10. CASE SinkUnlock
  BY <1>10 DEF SinkUnlock, TypeOK, SinkStates
<1>11. CASE Stats
  BY <1>11 DEF Stats, StatsFire, StatsLock, StatsVisit, StatsUnlock, TypeOK, StatsStates
<1>12. CASE MediaEos
  BY <1>12 DEF MediaEos
<1>13. ASSUME NEW s \in SessionIds, ConnectionLost(s) PROVE LocksHeld'
  BY <1>13 DEF ConnectionLost
<1> HIDE SessionsAssumption DEF Safe, LocksHeld, Services, Threads, locks
<1> QED
  BY <1>1, <1>2, <1>3, <1>4, <1>5, <1>6, <1>7, <1>8, <1>9, <1>10, <1>11, <1>12, <1>13
     DEF Next, Handle, Poll, Sink
(* A session being started stays its handler's alone.                        *)
LEMMA StartingStep == ASSUME Safe, Next PROVE Starting'
<1> USE DEF Safe, TypeOK, SharedTypeOK
<1>1. ASSUME NEW h \in Handlers, NEW p \in Peers, NEW type \in {"offer", "candidate"},
             Receive(h, p, type)
      PROVE  Starting'
  <2>1. pRemoteRtcPeerConnections[KeyOf[p]] \in allocated \cup {NULL}
    BY SessionsAssumption DEF TableSound
  <2>2. handler'[h].pc \in {"candidate", "offer"} /\ handler'[h].session \in allocated \cup {NULL}
    BY <1>1, <2>1 DEF Receive
  <2> QED BY <1>1, <2>2, SameList DEF Receive, registry, memory, Starting
<1>2. ASSUME NEW h \in Handlers,
             \/ HandleCandidate(h) \/ RefuseOffer(h) \/ HandleOfferFails(h) \/ PutSession(h)
             \/ StartStats(h) \/ CreateSessionCancel(h) \/ CreateSessionReset(h)
      PROVE  Starting'
  <2>1. /\ handler'[h].pc \in {"idle", "startStats", "reset"}
        /\ \A g \in Handlers : g # h => handler'[g] = handler[g]
    BY <1>2 DEF HandleCandidate, RefuseOffer, HandleOfferFails, PutSession, StartStats,
       CreateSessionCancel, CreateSessionReset, Leave, Idle, HandlerStates
  <2>2. UNCHANGED <<allocated, peerId, streamingSessionList, streamingSessionCount>>
    BY <1>2 DEF HandleCandidate, RefuseOffer, HandleOfferFails, PutSession, StartStats,
       CreateSessionCancel, CreateSessionReset, registry, memory
  <2> QED BY <2>1, <2>2, SameList DEF Starting
<1>3. ASSUME NEW h \in Handlers, CreateSession(h) PROVE Starting'
  <2>1. PICK s \in SessionIds \ allocated :
          /\ NewSession(s, handler[h].peer)
          /\ handler' = [handler EXCEPT ![h].pc = "append", ![h].session = s]
    BY <1>3 DEF CreateSession
  <2>2. \A g \in Handlers \ {h} :
          handler[g].pc \notin {"candidate", "offer", "append", "answer", "put"}
    BY <1>3 DEF CreateSession, MayCreate, LocksHeld
  <2>3. s \notin Listed /\ Listed' = Listed /\ streamingSessionCount' # MaxSessions
    BY <1>3, SameList DEF CreateSession, MayCreate, registry, ListSound, Listed
  <2>4. handler[h].peer \in Peers
    BY <1>3 DEF CreateSession, MayCreate, Starting
  <2> QED BY <2>1, <2>2, <2>3, <2>4 DEF Starting, NewSession, HandlerStates
<1>4. ASSUME NEW h \in Handlers, CreateSessionFails(h) PROVE Starting'
  <2>1. \A g \in Handlers :
          handler'[g].pc \notin {"candidate", "offer", "append", "answer", "put"}
    BY <1>4 DEF CreateSessionFails, MayCreate, LocksHeld, Leave, Idle
  <2> QED BY <2>1 DEF Starting
<1>5. ASSUME NEW h \in Handlers, AppendSession(h) PROVE Starting'
  <2>1. \A g \in Handlers \ {h} :
          handler[g].pc \notin {"candidate", "offer", "append", "answer", "put"}
    BY <1>5 DEF AppendSession, LocksHeld
  <2>2. /\ handler'[h].pc = "answer" /\ handler[h].pc = "append"
        /\ handler'[h].peer = handler[h].peer /\ handler'[h].session = handler[h].session
        /\ \A g \in Handlers \ {h} : handler'[g] = handler[g]
    BY <1>5 DEF AppendSession, HandlerStates
  <2>3. handler[h].session \in Listed'
    BY <1>5, Appended
  <2> QED BY <1>5, <2>1, <2>2, <2>3 DEF AppendSession, memory, Starting
<1>6. ASSUME NEW h \in Handlers, HandleOffer(h) PROVE Starting'
  BY <1>6, SameList DEF HandleOffer, registry, memory, Starting, HandlerStates
<1>7. CASE PollUnlink \/ PollUnlinkFails \/ PollFree
  <2>1. \A h \in Handlers : handler[h].pc \notin {"candidate", "offer", "append", "answer", "put"}
    BY <1>7, SessionsAssumption
       DEF PollUnlink, PollUnlinkFails, FoundTerminated, PollFree, LocksHeld, Services
  <2>2. UNCHANGED handler
    BY <1>7 DEF PollUnlink, PollUnlinkFails, PollFree
  <2> QED BY <2>1, <2>2 DEF Starting
<1>8. CASE UNCHANGED <<handler, streamingSessionList, streamingSessionCount, allocated, peerId>>
  BY <1>8, SameList DEF Starting
<1> HIDE DEF Safe, TypeOK, SharedTypeOK
<1> QED
  BY <1>1, <1>2, <1>3, <1>4, <1>5, <1>6, <1>7, <1>8, ThreadWriters, DataWriters DEF Handle

(* While pollApp, or the statistics callback, holds the object lock, no      *)
(* handler changes the array or the heap.                                    *)
LEMMA ServiceExcludesHandlers ==
  ASSUME Safe, objLock \in {"main", "timer"}, NEW h \in Handlers
  PROVE  ~CreateSession(h) /\ ~CreateSessionFails(h) /\ ~AppendSession(h)
BY SessionsAssumption
   DEF Safe, LocksHeld, Services, CreateSession, CreateSessionFails, MayCreate, AppendSession

(* The session pollApp is about to free is allocated and unlisted.           *)
LEMMA PollInHand ==
  ASSUME Safe, Next, poll'.pc \in {"free", "reset"}
  PROVE  poll'.session \in allocated' \ Listed'
<1> USE DEF Safe, TypeOK
<1>1. CASE PollUnlink
  <2>1. /\ streamingSessionList[poll.i] \in allocated
        /\ Listed' = Listed \ {streamingSessionList[poll.i]}
    BY <1>1, PollRemoved, ListSoundBySet DEF PollUnlink
  <2>2. poll'.session = streamingSessionList[poll.i]
    BY <1>1 DEF PollUnlink, PollStates
  <2> QED BY <1>1, <2>1, <2>2 DEF PollUnlink, memory
<1>2. CASE PollLock \/ PollSkip
  BY <1>2 DEF PollLock, PollSkip, PollStates
<1>3. CASE PollUnlinkFails \/ PollFree \/ PollWait
  BY <1>3 DEF PollUnlinkFails, PollFree, PollWait, PollStates
<1>4. CASE PollCancel
  <2>1. poll.session \in allocated \ Listed /\ poll'.session = poll.session
    BY <1>4 DEF PollCancel, InHand, PollStates
  <2> QED BY <1>4, <2>1, SameList DEF PollCancel, registry, memory
<1>5. CASE UNCHANGED poll
  <2>1. objLock = "main" /\ poll.session \in allocated \ Listed
    BY <1>5 DEF LocksHeld, InHand
  <2>2. ~PollUnlink /\ ~PollUnlinkFails /\ ~PollFree
    BY <1>5 DEF PollUnlink, PollUnlinkFails, PollFree, FoundTerminated, PollStates
  <2> QED BY <1>5, <2>1, <2>2, ServiceExcludesHandlers, DataWriters, SameList
<1> QED
  BY <1>1, <1>2, <1>3, <1>4, <1>5, ThreadWriters DEF Poll

(* The session a frame is written to stays in the array.                     *)
LEMMA SinkInHand ==
  ASSUME Safe, Next, sink'.pc = "write"
  PROVE  sink'.session \in Listed' /\ sink'.i < streamingSessionCount'
<1> USE DEF Safe, TypeOK
<1>1. CASE SinkPick
  <2>1. streamingSessionList[sink.i] \in Listed /\ sink.i < streamingSessionCount
    BY <1>1 DEF SinkPick, Listed, SinkStates, SharedTypeOK
  <2>2. sink'.session = streamingSessionList[sink.i] /\ sink'.i = sink.i
    BY <1>1 DEF SinkPick, SinkStates
  <2>3. UNCHANGED <<streamingSessionList, streamingSessionCount>>
    BY <1>1 DEF SinkPick, registry
  <2> QED BY <2>1, <2>2, <2>3, SameList
<1>2. ASSUME NEW f \in Frames, SinkLock(f) PROVE FALSE
  BY <1>2 DEF SinkLock
<1>3. CASE SinkSkip \/ SinkWrite \/ SinkUnlock
  BY <1>3 DEF SinkSkip, SinkWrite, SinkUnlock, SinkStates
<1>4. CASE UNCHANGED sink
  <2>1. /\ sink.session \in Listed /\ sink.i < streamingSessionCount
        /\ readLock = "sink" /\ readLock # NULL
    BY <1>4, SessionsAssumption DEF InHand, LocksHeld, Services, Threads
  <2>2. UNCHANGED <<streamingSessionList, streamingSessionCount>>
    BY <2>1, DataWriters
       DEF AppendSession, PollUnlink, PollUnlinkFails, FoundTerminated, ReadLockFree,
           CreateSession, CreateSessionFails, PollFree, registry
  <2> QED BY <1>4, <2>1, <2>2, SameList
<1> QED
  BY <1>1, <1>2, <1>3, <1>4, ThreadWriters DEF Sink

(* The session the statistics callback reads stays in the array.             *)
LEMMA StatsInHand ==
  ASSUME Safe, Next, stats'.session # NULL
  PROVE  stats'.pc = "loop" /\ stats'.session \in Listed'
<1> USE DEF Safe, TypeOK
<1>1. CASE StatsVisit
  <2>1. streamingSessionList[stats.i] \in Listed
    BY <1>1 DEF StatsVisit, Listed, StatsStates, SharedTypeOK
  <2>2. stats'.session = streamingSessionList[stats.i] /\ stats'.pc = "loop"
    BY <1>1 DEF StatsVisit, StatsStates
  <2>3. UNCHANGED <<streamingSessionList, streamingSessionCount>>
    BY <1>1 DEF StatsVisit, registry
  <2> QED BY <2>1, <2>2, <2>3, SameList
<1>2. CASE StatsFire \/ StatsLock
  <2>1. stats'.session = stats.session /\ stats.pc # "loop"
    BY <1>2 DEF StatsFire, StatsLock, StatsStates
  <2> QED BY <2>1 DEF InHand
<1>3. CASE StatsUnlock
  BY <1>3 DEF StatsUnlock
<1>4. CASE UNCHANGED stats
  <2>1. stats.pc = "loop" /\ stats.session \in Listed /\ objLock = "timer"
    BY <1>4 DEF InHand, LocksHeld
  <2>2. poll.pc \notin {"scan", "free", "reset"}
    BY <2>1 DEF LocksHeld
  <2>3. UNCHANGED <<streamingSessionList, streamingSessionCount>>
    BY <2>1, <2>2, ServiceExcludesHandlers, DataWriters
       DEF PollUnlink, PollUnlinkFails, FoundTerminated, PollFree
  <2> QED BY <1>4, <2>1, <2>3, SameList
<1> QED
  BY <1>1, <1>2, <1>3, <1>4, ThreadWriters DEF Stats

-----------------------------------------------------------------------------
(* Safe is an invariant.                                                     *)

(* The inductive invariant holds at the start.                               *)
LEMMA SafeInit == ASSUME Init PROVE Safe
<1>1. TypeOK
  BY SessionsAssumption
     DEF Init, TypeOK, SharedTypeOK, HandlerStates, PollStates, SinkStates, StatsStates, Idle, Frames
<1>2. Listed = {}
  BY DEF Init, Listed
<1> QED
  BY <1>1, <1>2, SessionsAssumption
     DEF Init, Idle, Safe, LocksHeld, Starting, InHand, ListSound, TableSound, Services, Threads

(* Every step preserves the inductive invariant.                             *)
LEMMA SafeStep == ASSUME Safe, [Next]_vars PROVE Safe'
<1>1. CASE Next
  BY <1>1, TypeStep, LocksStep, StartingStep, PollInHand, SinkInHand, StatsInHand, ListStep, TableStep
     DEF Safe, InHand
<1>2. CASE UNCHANGED vars
  BY <1>2 DEF vars, registry, memory, timers, locks, Safe, TypeOK, SharedTypeOK, LocksHeld,
     Starting, InHand, ListSound, TableSound, Listed
<1> QED BY <1>1, <1>2

(* The inductive invariant holds in every state of every behaviour.          *)
THEOREM SafeAlways == Spec => []Safe
<1>1. Init => Safe
  BY SafeInit
<1>2. Safe /\ [Next]_vars => Safe'
  BY SafeStep
<1> QED BY <1>1, <1>2, PTL DEF Spec

(* Type correctness: in particular the array of sessions is never overrun,   *)
(* whatever calls fail.                                                      *)
THEOREM TypeCorrect == Spec => []TypeOK
BY SafeAlways, PTL DEF Safe

(* No session is in the array twice, and every one there is allocated.       *)
THEOREM ListCorrect == Spec => []ListSound
BY SafeAlways, PTL DEF Safe

(* A hash table entry leads to a running session of a peer with that key.    *)
THEOREM TableCorrect == Spec => []TableSound
BY SafeAlways, PTL DEF Safe

(* No thread uses a session that has been freed.                             *)
THEOREM MemorySafe == Spec => []NoUseAfterFree
<1>1. Safe => NoUseAfterFree
  BY ListSoundBySet DEF Safe, NoUseAfterFree, Starting, InHand
<1> QED BY <1>1, SafeAlways, PTL

(* The timer id, the timers armed, and what the threads that change them are *)
(* about to do: a handler that will add a timer has seen that there is none, *)
(* and a thread that has cancelled the timer will forget its id.             *)
Timed ==
  /\ ~Cancelling => armed = {statsTimerId} \ {NULL}
  /\ Cancelling => armed = {} /\ statsTimerId # NULL
  /\ \A h \in Handlers : handler[h].pc = "startStats" => statsTimerId = NULL

(* One handler thread, and the lock, make the add and the cancellation       *)
(* exclude each other, though the add does not take the lock.                *)
LEMMA TimedStep ==
  ASSUME \A g, h \in Handlers : g = h, Safe, Timed, Next
  PROVE  Timed'
<1> USE SessionsAssumption DEF Safe, TypeOK, SharedTypeOK, timers
<1>1. ASSUME UNCHANGED <<timers, poll>>,
             \A h \in Handlers : \/ handler'[h].pc = handler[h].pc
                                 \/ {handler[h].pc, handler'[h].pc} \cap {"reset", "startStats"} = {}
      PROVE  Timed'
  BY <1>1 DEF Timed, Cancelling
<1>2. ASSUME NEW h \in Handlers, PutSession(h)
      PROVE  Timed'
  <2>1. ~Cancelling
    BY <1>2 DEF PutSession, Cancelling, LocksHeld, Services
  <2>2. handler'[h].pc = "idle" \/ (handler'[h].pc = "startStats" /\ statsTimerId = NULL)
    BY <1>2 DEF PutSession, StatsMissing, Leave, Idle
  <2> QED BY <1>2, <2>1, <2>2 DEF PutSession, Timed, Cancelling
<1>3. ASSUME NEW h \in Handlers, StartStats(h)
      PROVE  Timed'
  <2>1. /\ statsTimerId = NULL /\ ~Cancelling /\ armed = {}
        /\ \A g \in Handlers : handler'[g].pc = "idle"
    BY <1>3 DEF StartStats, Timed, Cancelling, Idle
  <2>2. ~Cancelling'
    BY <1>3, <2>1 DEF StartStats, Cancelling
  <2>3. (armed = {statsTimerId} \ {NULL})'
    BY <1>3, <2>1 DEF StartStats, Threads
  <2> QED BY <2>1, <2>2, <2>3 DEF Timed
<1>4. ASSUME NEW h \in Handlers, CreateSessionCancel(h)
      PROVE  Timed'
  <2>1. ~Cancelling /\ handler'[h].pc = "reset"
    BY <1>4 DEF CreateSessionCancel, MayCreate, Cancelling, LocksHeld, Services, HandlerStates
  <2> QED BY <1>4, <2>1 DEF CreateSessionCancel, StatsUnused, CancelStats, Timed, Cancelling
<1>5. ASSUME NEW h \in Handlers, CreateSessionReset(h)
      PROVE  Timed'
  <2>1. armed = {} /\ handler'[h].pc = "idle" /\ poll.pc # "reset"
    BY <1>5 DEF CreateSessionReset, Leave, Idle, Timed, Cancelling, LocksHeld, Services
  <2> QED BY <1>5, <2>1 DEF CreateSessionReset, ResetStats, Timed, Cancelling
<1>6. CASE PollCancel
  <2>1. ~Cancelling /\ poll'.pc = "reset"
    BY <1>6 DEF PollCancel, Cancelling, LocksHeld, Services, PollStates
  <2> QED BY <1>6, <2>1 DEF PollCancel, StatsUnused, CancelStats, Timed, Cancelling
<1>7. CASE PollFree
  <2>1. poll'.pc = "scan" /\ \A h \in Handlers : handler[h].pc # "reset"
    BY <1>7 DEF PollFree, LocksHeld, Services, PollStates
  <2>2. CASE poll.pc = "free"
    BY <1>7, <2>1, <2>2 DEF PollFree, Timed, Cancelling
  <2>3. CASE poll.pc = "reset"
    BY <1>7, <2>1, <2>3 DEF PollFree, ResetStats, Timed, Cancelling
  <2> QED BY <1>7, <2>2, <2>3 DEF PollFree
<1>8. CASE PollLock \/ PollSkip \/ PollUnlink \/ PollUnlinkFails \/ PollWait
  <2>1. UNCHANGED <<timers, handler>>
    BY <1>8 DEF PollLock, PollSkip, PollUnlink, PollUnlinkFails, PollWait
  <2>2. poll \in PollStates /\ poll.pc # "reset"
    BY <1>8 DEF PollLock, PollSkip, PollUnlink, PollUnlinkFails, FoundTerminated, PollWait
  <2>3. poll'.pc # "reset"
    <3>1. CASE PollLock \/ PollSkip
      BY <2>2, <3>1 DEF PollLock, PollSkip, PollStates
    <3>2. CASE PollWait
      BY <2>2, <3>2 DEF PollWait, PollStates
    <3>3. CASE PollUnlink \/ PollUnlinkFails
      BY <2>2, <3>3 DEF PollUnlink, PollUnlinkFails, PollStates
    <3> QED BY <1>8, <3>1, <3>2, <3>3
  <2> QED BY <2>1, <2>2, <2>3 DEF Timed, Cancelling
<1>9. ASSUME NEW h \in Handlers, NEW p \in Peers, NEW type \in {"offer", "candidate"},
             Receive(h, p, type)
      PROVE  Timed'
  <2>1. /\ handler[h].pc = "idle" /\ handler'[h].pc = type
        /\ \A g \in Handlers : g = h
    BY <1>9 DEF Receive
  <2>2. UNCHANGED <<timers, poll>>
    BY <1>9 DEF Receive
  <2> HIDE DEF timers
  <2> QED BY <1>1, <2>1, <2>2
<1>10. ASSUME NEW h \in Handlers,
              \/ HandleCandidate(h) \/ RefuseOffer(h) \/ CreateSession(h) \/ CreateSessionFails(h)
              \/ AppendSession(h) \/ HandleOffer(h) \/ HandleOfferFails(h)
       PROVE  Timed'
  BY <1>1, <1>10 DEF HandleCandidate, RefuseOffer, CreateSession, CreateSessionFails, MayCreate,
     AppendSession, HandleOffer, HandleOfferFails, Leave, Idle, HandlerStates
<1>11. CASE Sink \/ Stats \/ MediaEos \/ \E s \in SessionIds : ConnectionLost(s)
  <2>1. UNCHANGED <<timers, poll, handler>>
    BY <1>11 DEF Sink, SinkLock, SinkSkip, SinkPick, SinkWrite, SinkUnlock, Stats, StatsFire,
       StatsLock, StatsVisit, StatsUnlock, MediaEos, ConnectionLost
  <2> QED BY <1>1, <2>1
<1> HIDE DEF Safe, TypeOK, SharedTypeOK, timers
<1> QED
  BY <1>2, <1>3, <1>4, <1>5, <1>6, <1>7, <1>8, <1>9, <1>10, <1>11 DEF Next, Handle, Poll

(* With one thread to deliver the messages, the timer the application        *)
(* remembers is armed and no other is, except while it is being cancelled:   *)
(* the add outside the lock is never lost and never made twice.              *)
THEOREM TimerCorrect ==
  ASSUME \A g, h \in Handlers : g = h PROVE Spec => []StatsTimerExact
<1>1. Init => Timed
  BY SessionsAssumption DEF Init, Timed, Cancelling, Idle
<1>2. Safe /\ Timed /\ [Next]_vars => Timed'
  <2>1. ASSUME Timed, UNCHANGED vars PROVE Timed'
    BY <2>1 DEF vars, timers, Timed, Cancelling
  <2> QED BY <2>1, TimedStep
<1>3. Timed => StatsTimerExact
  BY DEF Timed, StatsTimerExact
<1> QED BY <1>1, <1>2, <1>3, SafeAlways, PTL DEF Spec

-----------------------------------------------------------------------------
(* Routes, when handleOffer never fails                                      *)

(* At most one handler is inside the critical section.                       *)
LEMMA OneHandler ==
  ASSUME Safe, NEW g \in Handlers, NEW h \in Handlers,
         handler[g].pc \in {"candidate", "offer", "append", "answer", "put"},
         handler[h].pc \in {"candidate", "offer", "append", "answer", "put"}
  PROVE  g = h
BY DEF Safe, LocksHeld

(* Every step preserves Routed, as long as handleOffer never fails.          *)
LEMMA RoutedStep ==
  ASSUME "offer" \notin Faults, Safe, Routed, Next PROVE Routed'
<1> USE DEF Safe, TypeOK, SharedTypeOK
<1>1. ASSUME NEW h \in Handlers, NEW p \in Peers, NEW type \in {"offer", "candidate"},
             Receive(h, p, type)
      PROVE  Routed'
  <2>1. \A g \in Handlers : handler[g].pc \notin {"answer", "put", "append", "offer", "candidate"}
    BY <1>1, SessionsAssumption DEF Receive, LocksHeld, Services, Threads
  <2>2. /\ handler'[h].pc \in {"offer", "candidate"}
        /\ handler'[h].session = pRemoteRtcPeerConnections[KeyOf[handler'[h].peer]]
        /\ \A g \in Handlers \ {h} : handler'[g] = handler[g]
    BY <1>1 DEF Receive
  <2>3. /\ UNCHANGED <<pRemoteRtcPeerConnections, peerId>>
        /\ Listed' = Listed
    BY <1>1, SameList DEF Receive, registry, memory
  <2> QED BY <2>1, <2>2, <2>3 DEF Routed
<1>2. ASSUME NEW h \in Handlers,
             \/ HandleCandidate(h) \/ RefuseOffer(h) \/ StartStats(h) \/ HandleOfferFails(h)
             \/ CreateSessionCancel(h) \/ CreateSessionReset(h)
      PROVE  Routed'
  <2>1. handler[h].pc \in {"candidate", "offer", "startStats", "reset"}
    BY <1>2 DEF HandleCandidate, RefuseOffer, StartStats, HandleOfferFails, CreateSessionCancel,
       MayCreate, CreateSessionReset
  <2>2. /\ handler'[h].pc \in {"idle", "reset"}
        /\ \A g \in Handlers \ {h} : handler'[g] = handler[g]
    BY <1>2 DEF HandleCandidate, RefuseOffer, StartStats, HandleOfferFails, CreateSessionCancel,
       CreateSessionReset, Leave, Idle, HandlerStates
  <2>3. /\ UNCHANGED <<pRemoteRtcPeerConnections, peerId>>
        /\ Listed' = Listed
    BY <1>2, SameList
       DEF HandleCandidate, RefuseOffer, StartStats, HandleOfferFails, CreateSessionCancel,
           CreateSessionReset, registry, memory
  <2> QED BY <2>1, <2>2, <2>3 DEF Routed
<1>3. ASSUME NEW h \in Handlers, CreateSession(h) \/ CreateSessionFails(h) PROVE Routed'
  <2>1. handler[h].pc = "offer" /\ handler[h].session = NULL
    BY <1>3 DEF CreateSession, CreateSessionFails, MayCreate
  <2>2. /\ handler'[h].pc \in {"append", "idle"}
        /\ handler'[h].pc = "append" => handler'[h].peer = handler[h].peer
        /\ \A g \in Handlers \ {h} : handler'[g] = handler[g]
    BY <1>3 DEF CreateSession, CreateSessionFails, Leave, Idle, HandlerStates
  <2>3. /\ UNCHANGED pRemoteRtcPeerConnections
        /\ Listed' = Listed
        /\ \A s \in Listed : peerId'[s] = peerId[s]
    BY <1>3, SameList, ListSoundBySet
       DEF CreateSession, CreateSessionFails, NewSession, registry, memory
  <2> QED BY <2>1, <2>2, <2>3 DEF Routed
<1>4. ASSUME NEW h \in Handlers, AppendSession(h) \/ HandleOffer(h) PROVE Routed'
  <2>1. handler[h].pc \in {"append", "answer"}
    BY <1>4 DEF AppendSession, HandleOffer
  <2>2. /\ handler'[h].pc \in {"answer", "put"}
        /\ handler'[h].peer = handler[h].peer /\ handler'[h].session = handler[h].session
        /\ \A g \in Handlers \ {h} : handler'[g] = handler[g]
    BY <1>4 DEF AppendSession, HandleOffer, HandlerStates
  <2>3. /\ UNCHANGED <<pRemoteRtcPeerConnections, peerId>>
        /\ Listed' \subseteq Listed \cup {handler[h].session}
    BY <1>4, SameList, Appended DEF AppendSession, HandleOffer, registry, memory
  <2> QED BY <2>1, <2>2, <2>3 DEF Routed
<1>5. ASSUME NEW h \in Handlers, PutSession(h) PROVE Routed'
  <2>1. /\ handler[h].pc = "put"
        /\ handler'[h].pc \in {"idle", "startStats"}
        /\ \A g \in Handlers \ {h} : handler'[g] = handler[g]
    BY <1>5 DEF PutSession, Leave, Idle
  <2>2. /\ handler[h].peer \in Peers /\ peerId[handler[h].session] = handler[h].peer
        /\ pRemoteRtcPeerConnections[KeyOf[handler[h].peer]] = NULL
    BY <2>1 DEF Starting, Routed
  <2>3. \A g \in Handlers \ {h} : handler[g].pc \notin {"candidate", "offer", "append", "answer", "put"}
    BY <2>1, OneHandler
  <2>4. Listed' = Listed /\ UNCHANGED peerId
    BY <1>5, SameList DEF PutSession, memory
  <2>5. ASSUME NEW s \in Listed
        PROVE  pRemoteRtcPeerConnections'[KeyOf[peerId[s]]] = s
    <3>1. CASE s = handler[h].session
      BY <1>5, <2>2, <3>1, SessionsAssumption DEF PutSession
    <3>2. CASE s # handler[h].session
      <4>1. pRemoteRtcPeerConnections[KeyOf[peerId[s]]] = s
        BY <2>3, <3>2 DEF Routed
      <4>2. s # NULL
        BY SessionsAssumption, ListSoundBySet
      <4> QED BY <1>5, <2>2, <4>1, <4>2 DEF PutSession
    <3> QED BY <3>1, <3>2
  <2> QED BY <2>1, <2>3, <2>4, <2>5 DEF Routed
<1>6. CASE PollUnlink \/ PollUnlinkFails \/ PollFree
  <2>1. \A h \in Handlers : handler[h].pc \notin {"candidate", "offer", "append", "answer", "put"}
    BY <1>6, SessionsAssumption
       DEF PollUnlink, PollUnlinkFails, FoundTerminated, PollFree, LocksHeld, Services
  <2>2. UNCHANGED <<handler, peerId>>
    BY <1>6 DEF PollUnlink, PollUnlinkFails, PollFree, memory
  <2>3. \A s \in Listed : pRemoteRtcPeerConnections[KeyOf[peerId[s]]] = s
    BY <2>1 DEF Routed
  <2>4. \A s \in Listed' : s \in Listed /\ pRemoteRtcPeerConnections'[KeyOf[peerId[s]]] = s
    <3>1. CASE PollUnlink
      BY <2>3, <3>1, PollRemoved DEF PollUnlink, Unroute
    <3>2. CASE PollUnlinkFails
      BY <2>3, <3>2, PollRemoved DEF PollUnlinkFails
    <3>3. CASE PollFree
      BY <2>3, <3>3, SameList DEF PollFree, registry
    <3> QED BY <1>6, <3>1, <3>2, <3>3
  <2> QED BY <2>1, <2>2, <2>4 DEF Routed
<1>7. CASE UNCHANGED <<handler, pRemoteRtcPeerConnections, streamingSessionList,
                       streamingSessionCount, allocated, peerId>>
  BY <1>7, SameList DEF Routed
<1> HIDE DEF Safe, TypeOK, SharedTypeOK
<1> QED
  BY <1>1, <1>2, <1>3, <1>4, <1>5, <1>6, <1>7, ThreadWriters, DataWriters DEF Handle

(* So every running session is routed in every reachable state.              *)
LEMMA RoutedAlways ==
  ASSUME "offer" \notin Faults PROVE Spec => [](Safe /\ Routed)
<1>1. Init => Routed
  BY DEF Init, Routed, Listed, Idle
<1>2. Safe /\ Routed /\ [Next]_vars => Routed'
  <2>1. ASSUME Routed, UNCHANGED vars PROVE Routed'
    BY <2>1, SameList DEF vars, registry, memory, Routed
  <2> QED BY <2>1, RoutedStep
<1> QED BY <1>1, <1>2, SafeAlways, PTL DEF Spec

(* Two running sessions never belong to the same peer, provided handleOffer  *)
(* never fails.                                                              *)
THEOREM OneSession ==
  ASSUME "offer" \notin Faults PROVE Spec => []OneSessionPerPeer
<1>1. ASSUME Safe, Routed, NEW s \in Listed, NEW t \in Listed, peerId[s] = peerId[t]
      PROVE  s = t
  <2>1. s # NULL /\ t # NULL
    BY <1>1, SessionsAssumption, ListSoundBySet DEF Safe, TypeOK, SharedTypeOK
  <2>2. ASSUME NEW r \in Listed, NEW h \in Handlers,
               handler[h].pc \in {"answer", "put"}, handler[h].session = r
        PROVE  pRemoteRtcPeerConnections[KeyOf[peerId[r]]] = NULL
    BY <1>1, <2>2 DEF Safe, Starting, Routed
  <2>3. CASE pRemoteRtcPeerConnections[KeyOf[peerId[s]]] = NULL
    BY <1>1, <2>1, <2>3, OneHandler DEF Routed
  <2>4. CASE pRemoteRtcPeerConnections[KeyOf[peerId[s]]] # NULL
    BY <1>1, <2>2, <2>4 DEF Routed
  <2> QED BY <2>3, <2>4
<1>2. Safe /\ Routed => OneSessionPerPeer
  BY <1>1 DEF OneSessionPerPeer
<1> QED BY <1>2, RoutedAlways, PTL

(* A route ends only with its session, provided handleOffer never fails.     *)
THEOREM RouteLasts ==
  ASSUME "offer" \notin Faults PROVE Spec => RouteUntilUnlisted
<1> DEFINE Lasts == \A k \in Keys :
       LET s == pRemoteRtcPeerConnections[k] IN
       s # NULL /\ pRemoteRtcPeerConnections'[k] # s => s \notin Listed'
<1>1. ASSUME Safe, Routed, Next PROVE Lasts
  <2>1. ASSUME NEW h \in Handlers, PutSession(h) PROVE Lasts
    <3>1. pRemoteRtcPeerConnections[KeyOf[handler[h].peer]] = NULL
      BY <1>1, <2>1 DEF PutSession, Routed
    <3> QED BY <1>1, <2>1, <3>1 DEF PutSession, Safe, TypeOK, SharedTypeOK
  <2>2. CASE PollUnlink
    <3>1. \A h \in Handlers : handler[h].pc \notin {"answer", "put"}
      BY <1>1, <2>2, SessionsAssumption DEF PollUnlink, FoundTerminated, Safe, LocksHeld, Services
    <3>2. pRemoteRtcPeerConnections[KeyOf[peerId[streamingSessionList[poll.i]]]]
            = streamingSessionList[poll.i]
      BY <1>1, <2>2, <3>1, PollRemoved DEF PollUnlink, Routed
    <3>3. streamingSessionList[poll.i] \notin Listed'
      BY <1>1, <2>2, PollRemoved DEF PollUnlink
    <3> QED BY <1>1, <2>2, <3>2, <3>3 DEF PollUnlink, Unroute, Safe, TypeOK, SharedTypeOK
  <2>3. CASE UNCHANGED pRemoteRtcPeerConnections
    BY <2>3
  <2> QED BY <1>1, <2>1, <2>2, <2>3, DataWriters
<1>2. Safe /\ Routed /\ [Next]_vars => [Lasts]_vars
  BY <1>1
<1> QED BY <1>2, RoutedAlways, PTL DEF Spec, RouteUntilUnlisted
=============================================================================
