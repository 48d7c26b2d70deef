------------------------------ MODULE Sessions ------------------------------
(***************************************************************************)
(* The streaming sessions of AppCommon.c: the array of running sessions,   *)
(* the hash table that routes signaling messages to them, the heap they    *)
(* live in, the statistics timer, and the threads that share all of it.    *)
(*                                                                         *)
(*   handler threads  onSignalingMessageReceived, one per message          *)
(*   "main"           pollApp, the loop that unlinks and frees sessions    *)
(*   "sink"           onMediaSinkHook, called for every media frame        *)
(*   "timer"          getIceCandidatePairStatsCallback                     *)
(*                                                                         *)
(* and the callbacks onMediaEosHook and onConnectionStateChange, which are *)
(* one step each.  A thread that only waits for a lock keeps no state, so  *)
(* taking the lock is the first step of the handler, and one "sink" stands *)
(* for the video and the audio thread, which exclude each other.           *)
(***************************************************************************)
EXTENDS Naturals, FiniteSets

CONSTANTS
  Peers,        (* the remote viewers, by peerClientId                        *)
  Keys,         (* the CRC32 values                                           *)
  KeyOf,        (* the CRC32 of a peer id: two peers may collide              *)
  SessionIds,   (* the addresses MEMCALLOC can return                         *)
  MaxSessions,  (* APP_MAX_CONCURRENT_STREAMING_SESSION                       *)
  TimerIds,     (* the slots of the timer queue                               *)
  Handlers,     (* the threads the signaling client delivers messages on      *)
  Faults,       (* the calls that may fail, see AllFaults                     *)
  NULL

AllFaults ==
  { "memory",   (* MEMCALLOC                                                  *)
    "media",    (* isMediaSourceReady                                         *)
    "peer",     (* any later call of createStreamingSession                   *)
    "offer",    (* handleOffer, or appHashTablePut after it                   *)
    "hash",     (* appHashTableContains or appHashTableRemove in pollApp      *)
    "srtp",     (* writeFrame: the session's peer is not connected yet        *)
    "exit" }    (* SIGINT, or checkAppSignaling or removeExpiredPendingMsgQ   *)

Services == {"main", "sink", "timer"}
Threads  == Services \cup Handlers

ASSUME SessionsAssumption ==
  /\ KeyOf \in [Peers -> Keys]
  /\ MaxSessions \in Nat \ {0}
  /\ Faults \subseteq AllFaults
  /\ NULL \notin Peers \cup SessionIds \cup TimerIds \cup Threads
  /\ Services \cap Handlers = {}

VARIABLES
  streamingSessionList,          (* the array; only the first Count entries count *)
  streamingSessionCount,
  pRemoteRtcPeerConnections,     (* key -> session, NULL when absent              *)
  allocated,                     (* the sessions MEMCALLOC has handed out         *)
  peerId, terminateFlag, firstKeyFrame,       (* fields of a session              *)
  keySent,                       (* the sessions a key frame was written to       *)
  statsTimerId,                  (* iceCandidatePairStatsTimerId, NULL = MAX_UINT32 *)
  armed,                         (* the statistics timers in the timer queue      *)
  objLock, readLock,             (* who holds appConfigurationObjLock and
                                    streamingSessionListReadLock                  *)
  handler,                       (* control state and locals of each handler      *)
  poll,                          (* of pollApp                                    *)
  sink,                          (* of onMediaSinkHook                            *)
  stats                          (* of getIceCandidatePairStatsCallback           *)

registry == <<streamingSessionList, streamingSessionCount, pRemoteRtcPeerConnections>>
memory   == <<allocated, peerId, terminateFlag, firstKeyFrame, keySent>>
timers   == <<statsTimerId, armed>>
locks    == <<objLock, readLock>>
vars     == <<registry, memory, timers, locks, handler, poll, sink, stats>>

Frames == {"key", "delta", "audio"}
Listed == {streamingSessionList[i] : i \in 0 .. streamingSessionCount - 1}

-----------------------------------------------------------------------------
(* The pieces the threads share.                                             *)

Idle == [pc |-> "idle", peer |-> NULL, session |-> NULL]

KeepFirstKeyFrame(s) == UNCHANGED firstKeyFrame   (* mutant: memory is not zeroed *)
ClearFirstKeyFrame(s) == firstKeyFrame' = [firstKeyFrame EXCEPT ![s] = FALSE]

(* A freshly allocated session: zeroed, and its peer id copied.              *)
NewSession(s, p) ==
  /\ allocated' = allocated \cup {s}
  /\ peerId' = [peerId EXCEPT ![s] = p]
  /\ terminateFlag' = [terminateFlag EXCEPT ![s] = FALSE]
  /\ ClearFirstKeyFrame(s)
  /\ keySent' = keySent \ {s}

(* A thread that takes the read lock for one step only needs it to be free.  *)
ReadLockIgnored == TRUE   (* mutant: the read lock is not taken *)
ReadLockFree == readLock = NULL

(* freeStreamingSession drops the statistics timer when no session is left:  *)
(* it cancels the timer, and then forgets the id.  The thread that does it   *)
(* holds the object lock, but StartStats writes the id without that lock.    *)
StatsUnused == statsTimerId # NULL /\ streamingSessionCount = 0
CancelStats == armed' = armed \ {statsTimerId} /\ UNCHANGED statsTimerId
ResetStats  == statsTimerId' = NULL /\ UNCHANGED armed

(* A handler decides under the lock whether the timer is to be added.        *)
StatsMissingAlways == TRUE   (* mutant: a timer is added for every session *)
StatsMissing == statsTimerId = NULL

(* A handler leaves the lock; its next control state is pc.                  *)
Leave(h, pc) ==
  /\ objLock' = NULL
  /\ handler' = [handler EXCEPT ![h] = [Idle EXCEPT !.pc = pc]]

-----------------------------------------------------------------------------
(* onSignalingMessageReceived                                                *)

(* Take the object lock and look the peer up in the hash table.              *)
Receive(h, p, type) ==
  /\ handler[h].pc = "idle"
  /\ objLock = NULL
  /\ objLock' = h
  /\ handler' = [handler EXCEPT ![h] =
       [pc |-> type, peer |-> p, session |-> pRemoteRtcPeerConnections[KeyOf[p]]]]
  /\ UNCHANGED <<registry, memory, timers, readLock, poll, sink, stats>>

(* An ICE candidate: added to the session found, or kept for a later offer.  *)
HandleCandidate(h) ==
  /\ handler[h].pc = "candidate"
  /\ Leave(h, "idle")
  /\ UNCHANGED <<registry, memory, timers, readLock, poll, sink, stats>>

(* An offer of a peer that has a session, or when the array is full.         *)
RefuseOffer(h) ==
  /\ handler[h].pc = "offer"
  /\ handler[h].session # NULL \/ streamingSessionCount = MaxSessions
  /\ Leave(h, "idle")
  /\ UNCHANGED <<registry, memory, timers, readLock, poll, sink, stats>>

MayCreateAgain(h) ==   (* mutant: the peer's running session is not checked *)
  handler[h].pc = "offer" /\ streamingSessionCount # MaxSessions
MayCreate(h) ==
  /\ handler[h].pc = "offer"
  /\ handler[h].session = NULL
  /\ streamingSessionCount # MaxSessions

CreateSession(h) ==
  /\ MayCreate(h)
  /\ \E s \in SessionIds \ allocated :
       /\ NewSession(s, handler[h].peer)
       /\ handler' = [handler EXCEPT ![h].pc = "append", ![h].session = s]
  /\ UNCHANGED <<registry, timers, locks, poll, sink, stats>>

(* No memory; or the media source is not ready, in which case the session    *)
(* has no pAppConfiguration yet and freeStreamingSession returns without     *)
(* freeing it; or a later call fails and the session is freed.               *)
CreateSessionFails(h) ==
  /\ MayCreate(h)
  /\ \/ /\ "memory" \in Faults \/ allocated = SessionIds
        /\ UNCHANGED memory
     \/ /\ "media" \in Faults
        /\ \E s \in SessionIds \ allocated : NewSession(s, NULL)
     \/ /\ "peer" \in Faults /\ ~StatsUnused
        /\ UNCHANGED memory
  /\ Leave(h, "idle")
  /\ UNCHANGED <<registry, timers, readLock, poll, sink, stats>>

(* As the last case, with a timer that nothing needs any more.               *)
CreateSessionCancel(h) ==
  /\ MayCreate(h)
  /\ "peer" \in Faults
  /\ StatsUnused
  /\ CancelStats
  /\ handler' = [handler EXCEPT ![h].pc = "reset"]
  /\ UNCHANGED <<registry, memory, locks, poll, sink, stats>>

CreateSessionReset(h) ==
  /\ handler[h].pc = "reset"
  /\ ResetStats
  /\ Leave(h, "idle")
  /\ UNCHANGED <<registry, memory, readLock, poll, sink, stats>>

AppendSession(h) ==
  /\ handler[h].pc = "append"
  /\ ReadLockFree
  /\ streamingSessionList' =
       [streamingSessionList EXCEPT ![streamingSessionCount] = handler[h].session]
  /\ streamingSessionCount' = streamingSessionCount + 1
  /\ handler' = [handler EXCEPT ![h].pc = "answer"]
  /\ UNCHANGED <<pRemoteRtcPeerConnections, memory, timers, locks, poll, sink, stats>>

HandleOffer(h) ==
  /\ handler[h].pc = "answer"
  /\ handler' = [handler EXCEPT ![h].pc = "put"]
  /\ UNCHANGED <<registry, memory, timers, locks, poll, sink, stats>>

(* The session stays in the array: nothing marks it or takes it out.         *)
HandleOfferFails(h) ==
  /\ handler[h].pc = "answer"
  /\ "offer" \in Faults
  /\ Leave(h, "idle")
  /\ UNCHANGED <<registry, memory, timers, readLock, poll, sink, stats>>

(* Route the peer's later messages to the session, submit the candidates     *)
(* that came early, and leave the lock.  Submitting them may fail (it does   *)
(* when there are none), and then the statistics timer is not considered.    *)
PutSession(h) ==
  /\ handler[h].pc = "put"
  /\ pRemoteRtcPeerConnections' =
       [pRemoteRtcPeerConnections EXCEPT ![KeyOf[handler[h].peer]] = handler[h].session]
  /\ \/ Leave(h, "idle")
     \/ StatsMissing /\ Leave(h, "startStats")
  /\ UNCHANGED <<streamingSessionList, streamingSessionCount, memory, timers,
                 readLock, poll, sink, stats>>

(* Outside the lock.  When the timer queue is full the call fails.           *)
StartStats(h) ==
  /\ handler[h].pc = "startStats"
  /\ handler' = [handler EXCEPT ![h] = Idle]
  /\ \/ \E t \in TimerIds \ armed : statsTimerId' = t /\ armed' = armed \cup {t}
     \/ armed = TimerIds /\ UNCHANGED timers
  /\ UNCHANGED <<registry, memory, locks, poll, sink, stats>>

-----------------------------------------------------------------------------
(* pollApp                                                                   *)

(* due records, for ScanComplete, the sessions marked when the pass begins.  *)
PollLock ==
  /\ poll.pc = "wait"
  /\ objLock = NULL
  /\ objLock' = "main"
  /\ poll' = [pc |-> "scan", i |-> 0, session |-> NULL,
              due |-> {s \in Listed : terminateFlag[s]}]
  /\ UNCHANGED <<registry, memory, timers, readLock, handler, sink, stats>>

PollSkip ==
  /\ poll.pc = "scan"
  /\ poll.i < streamingSessionCount
  /\ ~terminateFlag[streamingSessionList[poll.i]]
  /\ poll' = [poll EXCEPT !.i = @ + 1]
  /\ UNCHANGED <<registry, memory, timers, locks, handler, sink, stats>>

(* The last entry moves to index i, unless it was the only one.              *)
DropLast(i) ==   (* mutant: the last entry is not moved *)
  streamingSessionCount' = streamingSessionCount - 1 /\ UNCHANGED streamingSessionList
SwapRemove(i) ==
  LET last == streamingSessionCount - 1 IN
  /\ streamingSessionCount' = last
  /\ streamingSessionList' =
       IF last > 0 THEN [streamingSessionList EXCEPT ![i] = streamingSessionList[last]]
                   ELSE streamingSessionList

(* Where the scan goes on: the entry moved to index i is visited, too.       *)
AfterSkip(i) == i + 1   (* mutant: the moved entry is not visited *)
AfterRemove(i) == IF streamingSessionCount > 1 THEN i ELSE i + 1

(* The route of the session's key goes, whichever session it leads to.       *)
KeepRoute(s) == UNCHANGED pRemoteRtcPeerConnections   (* mutant *)
Unroute(s) ==
  pRemoteRtcPeerConnections' =
    [pRemoteRtcPeerConnections EXCEPT ![KeyOf[peerId[s]]] = NULL]

FoundAny ==   (* mutant: terminateFlag is not read *)
  poll.pc = "scan" /\ poll.i < streamingSessionCount /\ ReadLockFree
FoundNotLast ==   (* mutant: the last entry is left out *)
  /\ poll.pc = "scan" /\ poll.i < streamingSessionCount - 1
  /\ terminateFlag[streamingSessionList[poll.i]]
  /\ ReadLockFree
FoundPastEnd ==   (* mutant: the scan also reads the entry after the last one *)
  /\ poll.pc = "scan" /\ poll.i <= streamingSessionCount
  /\ poll.i < MaxSessions /\ streamingSessionList[poll.i] # NULL
  /\ terminateFlag[streamingSessionList[poll.i]]
  /\ ReadLockFree
FoundTerminated ==
  /\ poll.pc = "scan"
  /\ poll.i < streamingSessionCount
  /\ terminateFlag[streamingSessionList[poll.i]]
  /\ ReadLockFree

PollUnlink ==
  /\ FoundTerminated
  /\ SwapRemove(poll.i)
  /\ Unroute(streamingSessionList[poll.i])
  /\ poll' = [poll EXCEPT !.pc = "free", !.i = AfterRemove(@),
                          !.session = streamingSessionList[poll.i]]
  /\ UNCHANGED <<memory, timers, locks, handler, sink, stats>>

(* A failing call of the hash table leaves pollApp with the read lock held   *)
(* and the session neither in the array nor freed.                           *)
PollUnlinkFails ==
  /\ "hash" \in Faults
  /\ FoundTerminated
  /\ SwapRemove(poll.i)
  /\ poll' = [poll EXCEPT !.pc = "exit", !.session = NULL]
  /\ readLock' = "main"
  /\ objLock' = NULL
  /\ UNCHANGED <<pRemoteRtcPeerConnections, memory, timers, handler, sink, stats>>

(* freeStreamingSession, with the read lock already released.                *)
MarkOnly(s) ==   (* mutant: freeStreamingSession returns early *)
  terminateFlag' = [terminateFlag EXCEPT ![s] = TRUE] /\ UNCHANGED allocated
FreeSession(s) ==
  /\ allocated' = allocated \ {s}
  /\ terminateFlag' = [terminateFlag EXCEPT ![s] = TRUE]

PollCancel ==
  /\ poll.pc = "free"
  /\ StatsUnused
  /\ CancelStats
  /\ poll' = [poll EXCEPT !.pc = "reset"]
  /\ UNCHANGED <<registry, memory, locks, handler, sink, stats>>

PollFree ==
  /\ \/ poll.pc = "free" /\ ~StatsUnused /\ UNCHANGED timers
     \/ poll.pc = "reset" /\ ResetStats
  /\ FreeSession(poll.session)
  /\ poll' = [poll EXCEPT !.pc = "scan", !.session = NULL]
  /\ UNCHANGED <<registry, peerId, firstKeyFrame, keySent, locks, handler, sink, stats>>

(* The end of a pass: wait on the condition variable, which releases the     *)
(* object lock, or leave the loop.                                           *)
PollWait ==
  /\ poll.pc = "scan"
  /\ poll.i >= streamingSessionCount
  /\ objLock' = NULL
  /\ \/ poll' = [poll EXCEPT !.pc = "wait", !.due = {}, !.i = 0]
     \/ "exit" \in Faults /\ poll' = [poll EXCEPT !.pc = "exit", !.due = {}, !.i = 0]
  /\ UNCHANGED <<registry, memory, timers, readLock, handler, sink, stats>>

-----------------------------------------------------------------------------
(* onMediaSinkHook                                                           *)

SinkLock(frame) ==
  /\ sink.pc = "idle"
  /\ readLock = NULL
  /\ readLock' = "sink"
  /\ sink' = [pc |-> "loop", frame |-> frame, i |-> 0, session |-> NULL]
  /\ UNCHANGED <<registry, memory, timers, objLock, handler, poll, stats>>

(* A video frame that is no key frame is not the first a session gets.       *)
SinkSkip ==
  /\ sink.pc = "loop"
  /\ sink.i < streamingSessionCount
  /\ sink.frame = "delta"
  /\ ~firstKeyFrame[streamingSessionList[sink.i]]
  /\ sink' = [sink EXCEPT !.i = @ + 1]
  /\ UNCHANGED <<registry, memory, timers, locks, handler, poll, stats>>

SinkPick ==
  /\ sink.pc = "loop"
  /\ sink.i < streamingSessionCount
  /\ LET s == streamingSessionList[sink.i] IN
       /\ sink.frame = "delta" => firstKeyFrame[s]
       /\ firstKeyFrame' = [firstKeyFrame EXCEPT ![s] = @ \/ sink.frame # "audio"]
       /\ sink' = [sink EXCEPT !.pc = "write", !.session = s]
  /\ UNCHANGED <<registry, allocated, peerId, terminateFlag, keySent, timers,
                 locks, handler, poll, stats>>

(* writeFrame on the transceiver of the session picked; an error is ignored. *)
SinkWrite ==
  /\ sink.pc = "write"
  /\ \/ keySent' = keySent \cup {s \in {sink.session} : sink.frame = "key"}
     \/ "srtp" \in Faults /\ UNCHANGED keySent
  /\ sink' = [sink EXCEPT !.pc = "loop", !.session = NULL, !.i = @ + 1]
  /\ UNCHANGED <<registry, allocated, peerId, terminateFlag, firstKeyFrame, timers,
                 locks, handler, poll, stats>>

SinkUnlock ==
  /\ sink.pc = "loop"
  /\ sink.i >= streamingSessionCount
  /\ readLock' = NULL
  /\ sink' = [sink EXCEPT !.pc = "idle", !.i = 0, !.frame = "audio"]
  /\ UNCHANGED <<registry, memory, timers, objLock, handler, poll, stats>>

-----------------------------------------------------------------------------
(* getIceCandidatePairStatsCallback.  The timer queue decides to run the     *)
(* callback before the callback has the lock.                                *)

StatsFire ==
  /\ stats.pc = "idle"
  /\ armed # {}
  /\ stats' = [stats EXCEPT !.pc = "lock"]
  /\ UNCHANGED <<registry, memory, timers, locks, handler, poll, sink>>

StatsLock ==
  /\ stats.pc = "lock"
  /\ objLock = NULL
  /\ objLock' = "timer"
  /\ stats' = [stats EXCEPT !.pc = "loop", !.i = 0]
  /\ UNCHANGED <<registry, memory, timers, readLock, handler, poll, sink>>

StatsVisit ==
  /\ stats.pc = "loop"
  /\ stats.i < streamingSessionCount
  /\ stats' = [stats EXCEPT !.i = @ + 1, !.session = streamingSessionList[stats.i]]
  /\ UNCHANGED <<registry, memory, timers, locks, handler, poll, sink>>

StatsUnlock ==
  /\ stats.pc = "loop"
  /\ stats.i >= streamingSessionCount
  /\ objLock' = NULL
  /\ stats' = [pc |-> "idle", i |-> 0, session |-> NULL]
  /\ UNCHANGED <<registry, memory, timers, readLock, handler, poll, sink>>

-----------------------------------------------------------------------------
(* The callbacks that are one step.                                          *)

(* onMediaEosHook marks every session, under the object lock.                *)
MediaEos ==
  /\ objLock = NULL
  /\ terminateFlag' = [s \in SessionIds |-> terminateFlag[s] \/ s \in Listed]
  /\ UNCHANGED <<registry, allocated, peerId, firstKeyFrame, keySent, timers, locks,
                 handler, poll, sink, stats>>

(* onConnectionStateChange with FAILED, CLOSED or DISCONNECTED: no lock.     *)
ConnectionLost(s) ==
  /\ s \in allocated
  /\ peerId[s] # NULL
  /\ terminateFlag' = [terminateFlag EXCEPT ![s] = TRUE]
  /\ UNCHANGED <<registry, allocated, peerId, firstKeyFrame, keySent, timers, locks,
                 handler, poll, sink, stats>>

-----------------------------------------------------------------------------
Init ==
  /\ streamingSessionList = [i \in 0 .. MaxSessions - 1 |-> NULL]
  /\ streamingSessionCount = 0
  /\ pRemoteRtcPeerConnections = [k \in Keys |-> NULL]
  /\ allocated = {}
  /\ peerId = [s \in SessionIds |-> NULL]
  /\ terminateFlag = [s \in SessionIds |-> FALSE]
  /\ firstKeyFrame = [s \in SessionIds |-> FALSE]
  /\ keySent = {}
  /\ statsTimerId = NULL
  /\ armed = {}
  /\ objLock = NULL
  /\ readLock = NULL
  /\ handler = [h \in Handlers |-> Idle]
  /\ poll = [pc |-> "wait", i |-> 0, session |-> NULL, due |-> {}]
  /\ sink = [pc |-> "idle", frame |-> "audio", i |-> 0, session |-> NULL]
  /\ stats = [pc |-> "idle", i |-> 0, session |-> NULL]

Handle(h) ==
  \/ \E p \in Peers, type \in {"offer", "candidate"} : Receive(h, p, type)
  \/ HandleCandidate(h) \/ RefuseOffer(h)
  \/ CreateSession(h) \/ CreateSessionFails(h)
  \/ CreateSessionCancel(h) \/ CreateSessionReset(h) \/ AppendSession(h)
  \/ HandleOffer(h) \/ HandleOfferFails(h) \/ PutSession(h) \/ StartStats(h)

Poll ==
  \/ PollLock \/ PollSkip \/ PollUnlink \/ PollUnlinkFails
  \/ PollCancel \/ PollFree \/ PollWait

Sink == (\E f \in Frames : SinkLock(f)) \/ SinkSkip \/ SinkPick \/ SinkWrite \/ SinkUnlock

Stats == StatsFire \/ StatsLock \/ StatsVisit \/ StatsUnlock

Next ==
  \/ \E h \in Handlers : Handle(h)
  \/ Poll
  \/ Sink
  \/ Stats
  \/ MediaEos
  \/ \E s \in SessionIds : ConnectionLost(s)

Spec == Init /\ [][Next]_vars

(* Threads run, and a mutex is granted to a thread that keeps asking for it. *)
(* Nothing makes a peer send, a frame arrive, or a timer fire.               *)
Fairness ==
  /\ \A h \in Handlers :
       /\ WF_vars(HandleCandidate(h) \/ RefuseOffer(h) \/ CreateSession(h)
                  \/ CreateSessionFails(h) \/ CreateSessionCancel(h)
                  \/ CreateSessionReset(h) \/ HandleOffer(h) \/ PutSession(h))
       /\ SF_vars(AppendSession(h))
  /\ SF_vars(PollLock)
  /\ SF_vars(PollUnlink)
  /\ WF_vars(PollSkip \/ PollCancel \/ PollFree \/ PollWait)
  /\ WF_vars(SinkSkip \/ SinkPick \/ SinkWrite \/ SinkUnlock)
  /\ WF_vars(StatsVisit \/ StatsUnlock)

FairSpec == Spec /\ Fairness
-----------------------------------------------------------------------------
(* Properties                                                                *)

HandlerStates == [pc : {"idle", "candidate", "offer", "append", "answer", "put", "reset",
                        "startStats"},
                  peer : Peers \cup {NULL}, session : SessionIds \cup {NULL}]
PollStates    == [pc : {"wait", "scan", "free", "reset", "exit"}, i : 0 .. MaxSessions,
                  session : SessionIds \cup {NULL}, due : SUBSET SessionIds]
SinkStates    == [pc : {"idle", "loop", "write"}, frame : Frames, i : 0 .. MaxSessions,
                  session : SessionIds \cup {NULL}]
StatsStates   == [pc : {"idle", "lock", "loop"}, i : 0 .. MaxSessions,
                  session : SessionIds \cup {NULL}]

SharedTypeOK ==
  /\ streamingSessionList \in [0 .. MaxSessions - 1 -> SessionIds \cup {NULL}]
  /\ streamingSessionCount \in 0 .. MaxSessions
  /\ pRemoteRtcPeerConnections \in [Keys -> SessionIds \cup {NULL}]
  /\ allocated \in SUBSET SessionIds
  /\ peerId \in [SessionIds -> Peers \cup {NULL}]
  /\ terminateFlag \in [SessionIds -> BOOLEAN]
  /\ firstKeyFrame \in [SessionIds -> BOOLEAN]
  /\ keySent \in SUBSET SessionIds
  /\ statsTimerId \in TimerIds \cup {NULL}
  /\ armed \in SUBSET TimerIds
  /\ objLock \in {NULL, "main", "timer"} \cup Handlers
  /\ readLock \in {NULL, "main", "sink"}

(* Every variable has its type; the array is never overrun.                  *)
TypeOK ==
  /\ SharedTypeOK
  /\ handler \in [Handlers -> HandlerStates]
  /\ poll \in PollStates
  /\ sink \in SinkStates
  /\ stats \in StatsStates

(* No session is in the array twice and every one there is allocated: after  *)
(* any number of swap-removes, appends, failed offers and reused addresses.  *)
ListSound ==
  \A i \in 0 .. streamingSessionCount - 1 :
    /\ streamingSessionList[i] \in allocated
    /\ \A j \in 0 .. streamingSessionCount - 1 :
         streamingSessionList[i] = streamingSessionList[j] => i = j

(* A hash table entry leads to a running session of a peer with that key,    *)
(* so a candidate is never added to a freed or reused session.  (pollApp     *)
(* keeps the read lock only after a hash table error, when it gives up.)     *)
TableSound ==
  \A k \in Keys :
    LET s == pRemoteRtcPeerConnections[k] IN
    s # NULL => /\ s \in allocated
                /\ peerId[s] # NULL
                /\ KeyOf[peerId[s]] = k
                /\ s \in Listed \/ readLock = "main"

(* No thread dereferences a session that freeStreamingSession has freed: not *)
(* the media thread in writeFrame, which holds only the read lock, nor the   *)
(* statistics callback, nor a signaling handler, nor pollApp itself.         *)
NoUseAfterFree ==
  /\ sink.pc = "write" => sink.session \in allocated
  /\ stats.pc = "loop" => stats.session \in allocated \cup {NULL}
  /\ poll.pc \in {"free", "reset"} => poll.session \in allocated
  /\ \A h \in Handlers :
       handler[h].pc \in {"candidate", "append", "answer", "put"} =>
         handler[h].session \in allocated \cup {NULL}

(* One pass of pollApp removes every session that was marked when the pass   *)
(* began, although each removal moves another entry under the index.         *)
ScanComplete ==
  poll.pc = "scan" /\ poll.i >= streamingSessionCount => poll.due \cap Listed = {}

(* The id the application remembers and the timers that are armed agree,     *)
(* except while a cancellation is under way: none is armed that the          *)
(* application forgot, no second one, and the one it remembers is armed.     *)
(* The timer is added outside the lock under which it is cancelled, so this  *)
(* holds only where one thread delivers the signaling messages.              *)
Cancelling == poll.pc = "reset" \/ \E h \in Handlers : handler[h].pc = "reset"
StatsTimerExact == Cancelling \/ armed = {statsTimerId} \ {NULL}

(* "Check if we already have an ongoing master session with the same peer":  *)
(* two running sessions never belong to the same peer.                       *)
OneSessionPerPeer ==
  \A s, t \in Listed : peerId[s] = peerId[t] => s = t

(* A route ends only with its session: as long as a session runs, later      *)
(* candidates of its peer reach it.                                          *)
RouteUntilUnlisted ==
  [][\A k \in Keys :
       LET s == pRemoteRtcPeerConnections[k] IN
       s # NULL /\ pRemoteRtcPeerConnections'[k] # s => s \notin Listed']_vars

(* "the first key frame of this session is sent or not": the flag that lets  *)
(* the other video frames through means that a key frame was written to this *)
(* session, not to an earlier one at the same address.                       *)
FirstKeyFrameSent ==
  \A s \in Listed :
    firstKeyFrame[s] => s \in keySent \/ (sink.pc = "write" /\ sink.session = s)

(* Every allocated session is in the array or in the hands of a thread that  *)
(* will put it there or free it.                                             *)
NoLeak ==
  \A s \in allocated :
    s \in Listed \/ poll.session = s \/ \E h \in Handlers : handler[h].session = s

(* "De-initialize the session stats timer if there are no active sessions":  *)
(* between two passes of pollApp, with no handler at work, no timer is armed *)
(* while no session runs.                                                    *)
StatsTimerOnlyWithSessions ==
  /\ poll.pc = "wait"
  /\ \A h \in Handlers : handler[h].pc = "idle"
  /\ streamingSessionCount = 0
  => armed = {}

(* Why the safety properties hold: the parts of the inductive invariant.     *)

(* Between its first and last step a critical section holds its lock.        *)
LocksHeld ==
  /\ \A h \in Handlers :
       handler[h].pc \in {"candidate", "offer", "append", "answer", "put", "reset"}
         => objLock = h
  /\ poll.pc \in {"scan", "free", "reset"} => objLock = "main"
  /\ stats.pc = "loop" => objLock = "timer"
  /\ sink.pc \in {"loop", "write"} => readLock = "sink"
  /\ readLock = "main" => poll.pc = "exit"

(* A session a handler is starting is its alone until it is in the array,    *)
(* where room is left for it.                                                *)
Starting ==
  \A h \in Handlers :
    LET pc == handler[h].pc
        s  == handler[h].session IN
    /\ pc \in {"candidate", "offer", "append", "answer", "put"} => handler[h].peer \in Peers
    /\ pc \in {"candidate", "offer"} => s \in allocated \cup {NULL}
    /\ pc \in {"append", "answer", "put"} => s \in allocated /\ peerId[s] = handler[h].peer
    /\ pc = "append" => s \notin Listed /\ streamingSessionCount # MaxSessions
    /\ pc \in {"answer", "put"} => s \in Listed

(* A session a thread works on cannot leave the array before it is done, and *)
(* the one pollApp frees has left it.                                        *)
InHand ==
  /\ poll.pc \in {"free", "reset"} => poll.session \in allocated \ Listed
  /\ sink.pc = "write" => sink.session \in Listed /\ sink.i < streamingSessionCount
  /\ stats.session # NULL => stats.pc = "loop" /\ stats.session \in Listed

(* As long as handleOffer never fails, every session in the array is routed, *)
(* or about to be by the handler that holds the lock, and a handler that     *)
(* starts a session has found no route for its peer.                         *)
Routed ==
  /\ \A h \in Handlers :
       LET found == pRemoteRtcPeerConnections[KeyOf[handler[h].peer]] IN
       /\ handler[h].pc = "offer" => found = handler[h].session
       /\ handler[h].pc \in {"append", "answer", "put"} => found = NULL
  /\ \A s \in Listed :
       \/ pRemoteRtcPeerConnections[KeyOf[peerId[s]]] = s
       \/ \E h \in Handlers : handler[h].pc \in {"answer", "put"} /\ handler[h].session = s

Safe == TypeOK /\ LocksHeld /\ Starting /\ InHand /\ ListSound /\ TableSound

(* A running session that is marked is freed in the end.                     *)
Reaped ==
  \A s \in SessionIds : s \in Listed /\ terminateFlag[s] ~> s \notin allocated

(* The threads, locks and memory of this module implement the registry.      *)
Doomed == {s \in Listed : terminateFlag[s]}

Registry == INSTANCE SessionRegistry WITH
  Sessions <- SessionIds,
  members  <- Listed,
  doomed   <- Doomed,
  route    <- pRemoteRtcPeerConnections

ImplementsRegistry == Registry!RegistrySpec
=============================================================================
