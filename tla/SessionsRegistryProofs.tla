----------------------- MODULE SessionsRegistryProofs -----------------------
(***************************************************************************)
(* More about the streaming sessions, over Safe: that a pass of pollApp is *)
(* complete, that no session is lost, that no session sees a video frame   *)
(* before its first key frame, and that all of it implements               *)
(* SessionRegistry.  Each of the first three has an inductive invariant of *)
(* its own; the last maps every step to one of the registry or to none.    *)
(***************************************************************************)
EXTENDS SessionsProofs, FiniteSetTheorems

(* What pollApp has passed was not marked when its pass began, and what was  *)
(* is still marked.                                                          *)
Passed ==
  poll.pc \in {"scan", "free", "reset"} =>
    /\ \A j \in 0 .. streamingSessionCount - 1 :
         j < poll.i => streamingSessionList[j] \notin poll.due
    /\ \A s \in Listed : s \in poll.due => terminateFlag[s]

(* A session outside the array is one that a handler will append or that     *)
(* pollApp will free.                                                        *)
Owned ==
  \A s \in allocated \ Listed :
    \/ poll.pc \in {"free", "reset"} /\ poll.session = s
    \/ \E h \in Handlers : handler[h].pc = "append" /\ handler[h].session = s

(* A session whose flag says so has its key frame, or is getting it.         *)
KeyWritten ==
  \A s \in allocated :
    firstKeyFrame[s] =>
      s \in keySent \/ (sink.pc = "write" /\ sink.session = s /\ sink.frame = "key")

-----------------------------------------------------------------------------
(* A pass of pollApp                                                         *)

(* A mark is taken off a session only when its memory is given out anew.     *)
LEMMA MarkStays ==
  ASSUME Safe, Next, NEW s \in allocated, terminateFlag[s]
  PROVE  terminateFlag'[s]
<1> USE DEF memory, Safe, TypeOK, SharedTypeOK
<1>1. ASSUME NEW h \in Handlers, CreateSession(h) \/ CreateSessionFails(h)
      PROVE  terminateFlag'[s]
  BY <1>1 DEF CreateSession, CreateSessionFails, NewSession
<1>2. CASE PollFree \/ MediaEos \/ \E t \in SessionIds : ConnectionLost(t)
  BY <1>2 DEF PollFree, FreeSession, MediaEos, ConnectionLost
<1>3. CASE UNCHANGED terminateFlag
  BY <1>3
<1> HIDE DEF Safe, TypeOK, SharedTypeOK
<1>4. ASSUME NEW h \in Handlers, Handle(h)
      PROVE  terminateFlag'[s]
  BY <1>1, <1>3, <1>4 DEF Handle, Receive, HandleCandidate, RefuseOffer, CreateSessionCancel,
     CreateSessionReset, AppendSession, HandleOffer, HandleOfferFails, PutSession, StartStats
<1>5. CASE Poll
  BY <1>2, <1>3, <1>5 DEF Poll, PollLock, PollSkip, PollUnlink, PollUnlinkFails, PollCancel,
     PollWait
<1>6. CASE Sink
  BY <1>3, <1>6 DEF Sink, SinkLock, SinkSkip, SinkPick, SinkWrite, SinkUnlock
<1>7. CASE Stats
  BY <1>3, <1>7 DEF Stats, StatsFire, StatsLock, StatsVisit, StatsUnlock
<1> QED BY <1>2, <1>4, <1>5, <1>6, <1>7 DEF Next

(* While pollApp passes over the array nobody else changes it.               *)
LEMMA PassUndisturbed ==
  ASSUME Safe, Next, UNCHANGED poll, poll.pc \in {"scan", "free", "reset"}
  PROVE  UNCHANGED <<streamingSessionList, streamingSessionCount, allocated, peerId>>
<1>1. objLock = "main"
  BY DEF Safe, LocksHeld
<1>2. ~PollUnlink /\ ~PollUnlinkFails /\ ~PollFree
  <2>1. PollUnlink => poll.pc = "scan" /\ poll'.pc = "free"
    BY DEF PollUnlink, FoundTerminated, Safe, TypeOK, PollStates
  <2>2. PollUnlinkFails => poll.pc = "scan" /\ poll'.pc = "exit"
    BY DEF PollUnlinkFails, FoundTerminated, Safe, TypeOK, PollStates
  <2>3. PollFree => poll.pc \in {"free", "reset"} /\ poll'.pc = "scan"
    BY DEF PollFree, Safe, TypeOK, PollStates
  <2> QED BY <2>1, <2>2, <2>3
<1> QED BY <1>1, <1>2, DataWriters, ServiceExcludesHandlers

(* The entry that the removal moves under the index is the only one of those *)
(* still to be visited that changes its place.                               *)
LEMMA PassedRemoval ==
  ASSUME Safe, Passed, PollUnlink
  PROVE  Passed'
<1> USE DEF Safe, TypeOK, SharedTypeOK
<1> DEFINE i == poll.i
           last == streamingSessionCount - 1
<1>1. /\ i \in 0 .. last /\ streamingSessionCount' = last
      /\ poll'.i = (IF last > 0 THEN i ELSE i + 1) /\ poll'.due = poll.due
      /\ UNCHANGED terminateFlag
  BY DEF PollUnlink, FoundTerminated, SwapRemove, AfterRemove, PollStates, memory
<1>2. ASSUME NEW j \in 0 .. last - 1, j < poll'.i
      PROVE  streamingSessionList'[j] = streamingSessionList[j] /\ j < i
    BY <1>1, <1>2, SessionsAssumption DEF PollUnlink, SwapRemove
<1>3. \A j \in 0 .. last - 1 : j < poll'.i => streamingSessionList'[j] \notin poll'.due
  BY <1>1, <1>2 DEF Passed, PollUnlink, FoundTerminated
<1>4. Listed' \subseteq Listed
  BY PollRemoved DEF PollUnlink
<1> QED BY <1>1, <1>3, <1>4 DEF Passed, PollUnlink, FoundTerminated

LEMMA PassedStep == ASSUME Safe, Passed, Next PROVE Passed'
<1> USE DEF Safe, TypeOK, SharedTypeOK
<1>1. CASE PollLock
  <2>1. Listed' = Listed
    BY <1>1, SameList DEF PollLock, registry
  <2> QED BY <1>1, <2>1 DEF PollLock, Passed, memory
<1>2. CASE PollSkip
  <2>1. Listed' = Listed
    BY <1>2, SameList DEF PollSkip, registry
  <2>2. poll'.i = poll.i + 1 /\ poll'.due = poll.due /\ poll.i \in 0 .. MaxSessions
    BY <1>2 DEF PollSkip, PollStates
  <2>3. poll.i \in 0 .. streamingSessionCount - 1
    BY <1>2, <2>2, SessionsAssumption DEF PollSkip
  <2>4. streamingSessionList[poll.i] \notin poll.due
    BY <1>2, <2>3 DEF PollSkip, Passed, Listed
  <2>5. ASSUME NEW j \in 0 .. streamingSessionCount - 1, j < poll.i + 1
        PROVE  streamingSessionList[j] \notin poll.due
    <3>1. j < poll.i \/ j = poll.i
      BY <2>2, <2>5
    <3> QED BY <1>2, <2>4, <3>1 DEF PollSkip, Passed
  <2> QED BY <1>2, <2>1, <2>2, <2>5 DEF PollSkip, Passed, memory, registry
<1>3. CASE PollFree
  <2>1. Listed' = Listed /\ Listed \subseteq allocated
    BY <1>3, SameList, ListSoundBySet DEF PollFree, registry
  <2>2. poll.pc \in {"free", "reset"} /\ poll'.i = poll.i /\ poll'.due = poll.due
    BY <1>3 DEF PollFree, PollStates
  <2>3. \A s \in Listed : terminateFlag[s] => terminateFlag'[s]
    BY <1>3, <2>1, MarkStays
  <2> QED BY <1>3, <2>1, <2>2, <2>3 DEF PollFree, Passed, registry
<1>4. CASE PollUnlinkFails \/ PollWait
  BY <1>4 DEF PollUnlinkFails, PollWait, Passed, PollStates
<1>5. CASE PollCancel
  <2>1. poll.pc = "free" /\ poll'.i = poll.i /\ poll'.due = poll.due /\ Listed' = Listed
    BY <1>5, SameList DEF PollCancel, PollStates, registry
  <2> QED BY <1>5, <2>1 DEF PollCancel, Passed, registry, memory
<1>6. CASE UNCHANGED poll
  <2>1. CASE poll.pc \in {"scan", "free", "reset"}
    <3>1. Listed' = Listed /\ Listed \subseteq allocated
             /\ UNCHANGED <<streamingSessionList, streamingSessionCount>>
      BY <1>6, <2>1, SameList, PassUndisturbed, ListSoundBySet
    <3>2. \A s \in Listed : terminateFlag[s] => terminateFlag'[s]
      BY <3>1, MarkStays
    <3> QED BY <1>6, <2>1, <3>1, <3>2 DEF Passed
  <2> QED BY <1>6, <2>1 DEF Passed
<1> HIDE DEF Safe, TypeOK, SharedTypeOK
<1> QED BY <1>1, <1>2, <1>3, <1>4, <1>5, <1>6, PassedRemoval, ThreadWriters DEF Poll

(* One pass of pollApp removes every session that was marked when the pass   *)
(* began, though each removal moves another entry under the index, and other *)
(* threads mark sessions meanwhile.                                          *)
THEOREM PassComplete == Spec => []ScanComplete
<1>1. Init => Passed
  BY DEF Init, Passed
<1>2. Safe /\ Passed /\ [Next]_vars => Passed'
  <2>1. ASSUME Passed, UNCHANGED vars PROVE Passed'
    BY <2>1, SameList DEF vars, registry, memory, Passed
  <2> QED BY <2>1, PassedStep
<1>3. Safe /\ Passed => ScanComplete
  <2> SUFFICES ASSUME Safe, Passed, poll.pc = "scan", poll.i >= streamingSessionCount,
                      NEW s \in Listed, s \in poll.due
               PROVE  FALSE
    BY DEF ScanComplete
  <2>1. PICK j \in 0 .. streamingSessionCount - 1 : s = streamingSessionList[j]
    BY DEF Listed
  <2>2. j < poll.i
    BY <2>1 DEF Safe, TypeOK, SharedTypeOK, PollStates
  <2> QED BY <2>1, <2>2 DEF Passed
<1> QED BY <1>1, <1>2, <1>3, SafeAlways, PTL DEF Spec

-----------------------------------------------------------------------------
(* No session is lost                                                        *)

LEMMA OwnedStep ==
  ASSUME "media" \notin Faults, "hash" \notin Faults, Safe, Owned, Next
  PROVE  Owned'
<1> USE DEF Safe, TypeOK, SharedTypeOK
<1>1. ASSUME NEW h \in Handlers, CreateSession(h)
      PROVE  Owned'
  <2>1. PICK s \in SessionIds \ allocated :
          /\ allocated' = allocated \cup {s}
          /\ handler' = [handler EXCEPT ![h].pc = "append", ![h].session = s]
    BY <1>1 DEF CreateSession, NewSession
  <2>2. handler'[h].pc = "append" /\ handler'[h].session = s
    BY <2>1 DEF HandlerStates
  <2>3. handler[h].pc = "offer" /\ \A g \in Handlers \ {h} : handler'[g] = handler[g]
    BY <1>1, <2>1 DEF CreateSession, MayCreate
  <2>4. Listed' = Listed /\ UNCHANGED poll
    BY <1>1, SameList DEF CreateSession, registry
  <2> QED BY <2>1, <2>2, <2>3, <2>4 DEF Owned
<1>2. ASSUME NEW h \in Handlers, AppendSession(h)
      PROVE  Owned'
  <2>1. Listed' = Listed \cup {handler[h].session} /\ UNCHANGED <<allocated, poll>>
    BY <1>2, Appended DEF AppendSession, memory
  <2>2. \A g \in Handlers \ {h} : handler'[g] = handler[g]
    BY <1>2 DEF AppendSession
  <2> QED BY <2>1, <2>2 DEF Owned
<1>3. ASSUME UNCHANGED allocated, Listed' = Listed,
             UNCHANGED poll \/ poll.pc \notin {"free", "reset"},
             \A h \in Handlers : handler[h].pc = "append" => handler'[h] = handler[h]
      PROVE  Owned'
  BY <1>3 DEF Owned
<1>4. CASE PollUnlink
  <2>1. /\ Listed' = Listed \ {streamingSessionList[poll.i]}
        /\ poll'.pc = "free" /\ poll'.session = streamingSessionList[poll.i]
        /\ poll.pc = "scan" /\ UNCHANGED <<handler, allocated>>
    BY <1>4, PollRemoved DEF PollUnlink, FoundTerminated, PollStates, memory
  <2> QED BY <2>1 DEF Owned
<1>5. CASE PollFree
  <2>1. allocated' = allocated \ {poll.session} /\ UNCHANGED handler /\ Listed' = Listed
    BY <1>5, SameList DEF PollFree, FreeSession, registry
  <2> QED BY <2>1 DEF Owned
<1>6. CASE PollCancel
  <2>1. /\ Listed' = Listed /\ UNCHANGED <<handler, allocated>>
        /\ poll.pc = "free" /\ poll'.pc = "reset" /\ poll'.session = poll.session
    BY <1>6, SameList DEF PollCancel, PollStates, registry, memory
  <2> QED BY <2>1 DEF Owned
<1> USE DEF registry, memory
<1>7. ASSUME NEW h \in Handlers, Handle(h)
      PROVE  Owned'
  <2>1. ASSUME NEW p \in Peers, NEW type \in {"offer", "candidate"}, Receive(h, p, type)
        PROVE  Owned'
    BY <1>3, <2>1, SameList DEF Receive
  <2>2. CASE HandleCandidate(h) \/ RefuseOffer(h) \/ HandleOfferFails(h)
    BY <1>3, <2>2, SameList DEF HandleCandidate, RefuseOffer, HandleOfferFails, Leave
  <2>3. CASE CreateSessionFails(h)
    BY <1>3, <2>3, SameList DEF CreateSessionFails, MayCreate, Leave
  <2>4. CASE HandleOffer(h)
    BY <1>3, <2>4, SameList DEF HandleOffer
  <2>5. CASE CreateSessionCancel(h) \/ CreateSessionReset(h)
    BY <1>3, <2>5, SameList DEF CreateSessionCancel, CreateSessionReset, MayCreate, Leave
  <2>6. CASE PutSession(h) \/ StartStats(h)
    BY <1>3, <2>6, SameList DEF PutSession, StartStats, Leave
  <2> QED BY <1>1, <1>2, <1>7, <2>1, <2>2, <2>3, <2>4, <2>5, <2>6 DEF Handle
<1>8. CASE Poll
  <2>1. CASE PollLock \/ PollSkip \/ PollWait
    BY <1>3, <2>1, SameList DEF PollLock, PollSkip, PollWait
  <2> QED BY <1>4, <1>5, <1>6, <1>8, <2>1 DEF Poll, PollUnlinkFails
<1>9. CASE Sink \/ Stats \/ MediaEos \/ \E s \in SessionIds : ConnectionLost(s)
  <2>1. UNCHANGED <<allocated, handler, poll, streamingSessionList, streamingSessionCount>>
    BY <1>9 DEF Sink, SinkLock, SinkSkip, SinkPick, SinkWrite, SinkUnlock, Stats, StatsFire,
       StatsLock, StatsVisit, StatsUnlock, MediaEos, ConnectionLost
  <2> QED BY <1>3, <2>1, SameList
<1> QED BY <1>7, <1>8, <1>9 DEF Next

(* Every session that MEMCALLOC has handed out is in the array or with the   *)
(* handler that starts it or with pollApp, which frees it: unless the media  *)
(* source is not ready or the hash table fails, no path loses one.           *)
THEOREM NothingLeaks ==
  ASSUME "media" \notin Faults, "hash" \notin Faults
  PROVE  Spec => []NoLeak
<1>1. Init => Owned
  BY DEF Init, Owned
<1>2. Safe /\ Owned /\ [Next]_vars => Owned'
  <2>1. ASSUME Owned, UNCHANGED vars PROVE Owned'
    BY <2>1, SameList DEF vars, registry, memory, Owned
  <2> QED BY <2>1, OwnedStep
<1>3. Owned => NoLeak
  BY DEF Owned, NoLeak
<1> QED BY <1>1, <1>2, <1>3, SafeAlways, PTL DEF Spec

-----------------------------------------------------------------------------
(* Key frames                                                                *)

LEMMA KeyStep ==
  ASSUME "srtp" \notin Faults, Safe, KeyWritten, Next
  PROVE  KeyWritten'
<1> USE DEF Safe, TypeOK, SharedTypeOK, memory
<1>1. ASSUME UNCHANGED <<firstKeyFrame, keySent>>, allocated' \subseteq allocated,
             UNCHANGED sink \/ sink.pc # "write"
      PROVE  KeyWritten'
  BY <1>1 DEF KeyWritten
<1>2. ASSUME NEW h \in Handlers, CreateSession(h) \/ CreateSessionFails(h)
      PROVE  KeyWritten'
  <2>1. CASE UNCHANGED memory
    BY <1>1, <1>2, <2>1 DEF CreateSession, CreateSessionFails
  <2>2. ASSUME NEW s \in SessionIds \ allocated, NEW p, NewSession(s, p)
        PROVE  KeyWritten'
    <3>1. UNCHANGED sink
      BY <1>2 DEF CreateSession, CreateSessionFails
    <3> QED BY <2>2, <3>1 DEF NewSession, ClearFirstKeyFrame, KeyWritten
  <2> QED BY <1>2, <2>1, <2>2 DEF CreateSession, CreateSessionFails
<1>3. CASE SinkPick
  <2> DEFINE s == streamingSessionList[sink.i]
  <2>1. /\ sink.frame = "delta" => firstKeyFrame[s]
        /\ firstKeyFrame' = [firstKeyFrame EXCEPT ![s] = @ \/ sink.frame # "audio"]
        /\ sink' = [sink EXCEPT !.pc = "write", !.session = s]
    BY <1>3 DEF SinkPick
  <2>2. /\ sink.pc = "loop" /\ UNCHANGED <<allocated, keySent>>
        /\ sink'.pc = "write" /\ sink'.session = s /\ sink'.frame = sink.frame
        /\ sink.frame \in {"key", "delta", "audio"}
    BY <1>3, <2>1 DEF SinkPick, SinkStates, Frames
  <2>3. s \in SessionIds
    BY <1>3 DEF SinkPick, SinkStates, ListSound
  <2> HIDE DEF s
  <2> QED BY <2>1, <2>2, <2>3 DEF KeyWritten
<1>4. CASE SinkWrite
  BY <1>4 DEF SinkWrite, KeyWritten
<1>5. CASE SinkSkip \/ SinkUnlock \/ \E f \in Frames : SinkLock(f)
  BY <1>1, <1>5 DEF SinkSkip, SinkUnlock, SinkLock
<1>6. ASSUME NEW h \in Handlers, Handle(h)
      PROVE  KeyWritten'
  BY <1>1, <1>2, <1>6 DEF Handle, Receive, HandleCandidate, RefuseOffer, CreateSessionCancel,
     CreateSessionReset, AppendSession, HandleOffer, HandleOfferFails, PutSession, StartStats
<1>7. CASE Poll
  BY <1>1, <1>7 DEF Poll, PollLock, PollSkip, PollUnlink, PollUnlinkFails, PollCancel,
     PollFree, FreeSession, PollWait
<1>8. CASE Stats \/ MediaEos \/ \E s \in SessionIds : ConnectionLost(s)
  BY <1>1, <1>8 DEF Stats, StatsFire, StatsLock, StatsVisit, StatsUnlock, MediaEos,
     ConnectionLost
<1> QED BY <1>3, <1>4, <1>5, <1>6, <1>7, <1>8 DEF Next, Sink

(* A session that gets delta frames was sent a key frame before, and not the *)
(* one that lived at its address before it: firstKeyFrame is cleared with    *)
(* the memory, and set only for a frame that is written next.                *)
THEOREM KeyFrameFirst ==
  ASSUME "srtp" \notin Faults
  PROVE  Spec => []FirstKeyFrameSent
<1>1. Init => KeyWritten
  BY DEF Init, KeyWritten
<1>2. Safe /\ KeyWritten /\ [Next]_vars => KeyWritten'
  <2>1. ASSUME KeyWritten, UNCHANGED vars PROVE KeyWritten'
    BY <2>1 DEF vars, memory, KeyWritten
  <2> QED BY <2>1, KeyStep
<1>3. Safe /\ KeyWritten => FirstKeyFrameSent
  BY ListSoundBySet DEF Safe, KeyWritten, FirstKeyFrameSent
<1> QED BY <1>1, <1>2, <1>3, SafeAlways, PTL DEF Spec

-----------------------------------------------------------------------------
(* Sessions implements SessionRegistry                                       *)

(* A session in the array belongs to a peer: the one that was left behind    *)
(* without a name when the media source was not ready is never appended.     *)
Named == \A s \in Listed : peerId[s] \in Peers

LEMMA NamedStep == ASSUME Safe, Named, Next PROVE Named'
<1> USE DEF Safe, TypeOK, SharedTypeOK
<1>1. ASSUME NEW h \in Handlers, CreateSession(h) \/ CreateSessionFails(h)
      PROVE  Named'
  <2>1. Listed' = Listed /\ Listed \subseteq allocated
    BY <1>1, SameList, ListSoundBySet DEF CreateSession, CreateSessionFails, registry
  <2>2. \A s \in allocated : peerId'[s] = peerId[s]
    BY <1>1 DEF CreateSession, CreateSessionFails, NewSession, memory
  <2> QED BY <2>1, <2>2 DEF Named
<1>2. ASSUME NEW h \in Handlers, AppendSession(h)
      PROVE  Named'
  <2>1. Listed' = Listed \cup {handler[h].session} /\ UNCHANGED peerId
    BY <1>2, Appended DEF AppendSession, memory
  <2>2. peerId[handler[h].session] \in Peers
    BY <1>2 DEF AppendSession, Starting
  <2> QED BY <2>1, <2>2 DEF Named
<1>3. CASE PollUnlink \/ PollUnlinkFails
  BY <1>3, PollRemoved DEF PollUnlink, PollUnlinkFails, memory, Named
<1>4. CASE PollFree \/ UNCHANGED <<streamingSessionList, streamingSessionCount, peerId>>
  BY <1>4, SameList DEF PollFree, registry, Named
<1> QED BY <1>1, <1>2, <1>3, <1>4, DataWriters

LEMMA NamedAlways == Spec => []Named
<1>1. Init => Named
  BY DEF Init, Named, Listed
<1>2. Safe /\ Named /\ [Next]_vars => Named'
  <2>1. ASSUME Named, UNCHANGED vars PROVE Named'
    BY <2>1, SameList DEF vars, registry, memory, Named
  <2> QED BY <2>1, NamedStep
<1> QED BY <1>1, <1>2, SafeAlways, PTL DEF Spec

(* streamingSessionCount counts the sessions, as none is in the array twice. *)
LEMMA CountIsCardinality ==
  ASSUME Safe
  PROVE  Cardinality(Listed) = streamingSessionCount
<1> DEFINE n == streamingSessionCount
           D == 0 .. n - 1
           f == [i \in D |-> streamingSessionList[i]]
<1>1. n \in Nat
  BY SessionsAssumption DEF Safe, TypeOK, SharedTypeOK
<1>2. IsFiniteSet(D) /\ Cardinality(D) = n
  BY <1>1, FS_Interval
<1>3. f \in [D -> Listed] /\ \A s \in Listed : \E i \in D : f[i] = s
  BY DEF Listed
<1>4. \A i, j \in D : f[i] = f[j] => i = j
  BY DEF Safe, ListSound
<1> HIDE DEF D, f, n
<1>5. f \in Bijection(D, Listed)
  BY <1>3, <1>4 DEF Bijection, Injection, Surjection, IsInjective
<1>6. ExistsBijection(D, Listed)
  BY <1>5 DEF ExistsBijection
<1> QED BY <1>2, <1>6, FS_Bijection DEF n

(* A handler that appends its session joins it.                              *)
LEMMA AppendJoins ==
  ASSUME Safe, NEW h \in Handlers, AppendSession(h)
  PROVE  Registry!Join(handler[h].session)
<1> DEFINE new == handler[h].session
<1>1. Listed' = Listed \cup {new} /\ new \notin Listed
  BY Appended
<1>2. Cardinality(Listed) < MaxSessions
  BY CountIsCardinality, SessionsAssumption
     DEF AppendSession, Safe, TypeOK, SharedTypeOK, Starting
<1>3. UNCHANGED <<pRemoteRtcPeerConnections, terminateFlag>>
  BY DEF AppendSession, memory
<1>4. Doomed' \in {Doomed, Doomed \cup {new}}
  <2>1. CASE terminateFlag[new]
    <3>1. Doomed' = Doomed \cup {new}
      BY <1>1, <1>3, <2>1 DEF Doomed
    <3> QED BY <3>1
  <2>2. CASE ~terminateFlag[new]
    <3>1. Doomed' = Doomed
      BY <1>1, <1>3, <2>2 DEF Doomed
    <3> QED BY <3>1
  <2> QED BY <2>1, <2>2
<1> HIDE DEF new
<1>5. Registry!Cardinality(Listed) < MaxSessions
  BY <1>2 DEF Cardinality, Registry!Cardinality
<1> QED BY <1>1, <1>3, <1>4, <1>5 DEF Registry!Join, new

(* A handler that serves an offer has found no route for its peer's key, and *)
(* there is none until it puts one: also when an earlier offer failed.       *)
KeyFree ==
  \A h \in Handlers :
    LET found == pRemoteRtcPeerConnections[KeyOf[handler[h].peer]] IN
    /\ handler[h].pc = "offer" => found = handler[h].session
    /\ handler[h].pc \in {"append", "answer", "put"} => found = NULL

LEMMA KeyFreeStep == ASSUME Safe, KeyFree, Next PROVE KeyFree'
<1> USE DEF Safe, TypeOK, SharedTypeOK
<1>1. ASSUME NEW h \in Handlers, NEW p \in Peers, NEW type \in {"offer", "candidate"},
             Receive(h, p, type)
      PROVE  KeyFree'
  <2>1. /\ handler'[h].pc \in {"offer", "candidate"}
        /\ handler'[h].session = pRemoteRtcPeerConnections[KeyOf[handler'[h].peer]]
        /\ \A g \in Handlers \ {h} : handler'[g] = handler[g]
        /\ UNCHANGED pRemoteRtcPeerConnections
    BY <1>1 DEF Receive, registry
  <2> QED BY <2>1 DEF KeyFree
<1>2. ASSUME NEW h \in Handlers,
             \/ HandleCandidate(h) \/ RefuseOffer(h) \/ StartStats(h) \/ HandleOfferFails(h)
             \/ CreateSessionCancel(h) \/ CreateSessionReset(h)
      PROVE  KeyFree'
  <2>1. /\ handler'[h].pc \in {"idle", "reset"}
        /\ \A g \in Handlers \ {h} : handler'[g] = handler[g]
        /\ UNCHANGED pRemoteRtcPeerConnections
    BY <1>2 DEF HandleCandidate, RefuseOffer, StartStats, HandleOfferFails, CreateSessionCancel,
       CreateSessionReset, Leave, Idle, HandlerStates, registry
  <2> QED BY <2>1 DEF KeyFree
<1>3. ASSUME NEW h \in Handlers, CreateSession(h) \/ CreateSessionFails(h) PROVE KeyFree'
  <2>1. handler[h].pc = "offer" /\ handler[h].session = NULL
    BY <1>3 DEF CreateSession, CreateSessionFails, MayCreate
  <2>2. /\ handler'[h].pc \in {"append", "idle"}
        /\ handler'[h].pc = "append" => handler'[h].peer = handler[h].peer
        /\ \A g \in Handlers \ {h} : handler'[g] = handler[g]
        /\ UNCHANGED pRemoteRtcPeerConnections
    BY <1>3 DEF CreateSession, CreateSessionFails, Leave, Idle, HandlerStates, registry
  <2> QED BY <2>1, <2>2 DEF KeyFree
<1>4. ASSUME NEW h \in Handlers, AppendSession(h) \/ HandleOffer(h) PROVE KeyFree'
  <2>1. /\ handler[h].pc \in {"append", "answer"}
        /\ handler'[h].pc \in {"answer", "put"} /\ handler'[h].peer = handler[h].peer
        /\ \A g \in Handlers \ {h} : handler'[g] = handler[g]
        /\ UNCHANGED pRemoteRtcPeerConnections
    BY <1>4 DEF AppendSession, HandleOffer, HandlerStates, registry
  <2> QED BY <2>1 DEF KeyFree
<1>5. ASSUME NEW h \in Handlers, PutSession(h) PROVE KeyFree'
  <2>1. /\ handler[h].pc = "put" /\ handler'[h].pc \in {"idle", "startStats"}
        /\ \A g \in Handlers \ {h} : handler'[g] = handler[g]
    BY <1>5 DEF PutSession, Leave, Idle
  <2>2. \A g \in Handlers \ {h} : handler[g].pc \notin {"candidate", "offer", "append", "answer", "put"}
    BY <2>1, OneHandler
  <2> QED BY <2>1, <2>2 DEF KeyFree
<1>6. CASE PollUnlink
  <2>1. \A h \in Handlers : handler[h].pc \notin {"candidate", "offer", "append", "answer", "put"}
    BY <1>6, SessionsAssumption DEF PollUnlink, FoundTerminated, LocksHeld, Services
  <2>2. UNCHANGED handler
    BY <1>6 DEF PollUnlink
  <2> QED BY <2>1, <2>2 DEF KeyFree
<1>7. CASE UNCHANGED <<handler, pRemoteRtcPeerConnections>>
  BY <1>7 DEF KeyFree
<1> HIDE DEF Safe, TypeOK, SharedTypeOK
<1>8. PollUnlink \/ (\E h \in Handlers : PutSession(h)) \/ UNCHANGED pRemoteRtcPeerConnections
  BY DataWriters
<1> QED BY <1>1, <1>2, <1>3, <1>4, <1>5, <1>6, <1>7, <1>8, ThreadWriters DEF Handle

LEMMA KeyFreeAlways == Spec => []KeyFree
<1>1. Init => KeyFree
  BY DEF Init, KeyFree, Idle
<1>2. Safe /\ KeyFree /\ [Next]_vars => KeyFree'
  <2>1. ASSUME KeyFree, UNCHANGED vars PROVE KeyFree'
    BY <2>1 DEF vars, registry, KeyFree
  <2> QED BY <2>1, KeyFreeStep
<1> QED BY <1>1, <1>2, SafeAlways, PTL DEF Spec

(* A handler that puts it into the hash table attaches its peer's key, which *)
(* has no route yet.                                                         *)
LEMMA PutAttaches ==
  ASSUME Safe, KeyFree, NEW h \in Handlers, PutSession(h)
  PROVE  Registry!Attach(KeyOf[handler[h].peer], handler[h].session)
<1>1. handler[h].session \in Listed
  BY DEF PutSession, Safe, Starting
<1>2. pRemoteRtcPeerConnections[KeyOf[handler[h].peer]] = NULL
  BY DEF PutSession, KeyFree
<1>3. Listed' = Listed /\ Doomed' = Doomed
  BY SameList DEF PutSession, memory, Doomed
<1> QED BY <1>1, <1>2, <1>3 DEF Registry!Attach, PutSession

(* pollApp's removal is the departure of a doomed session, and the route it  *)
(* takes away is the only one that can lead there.                           *)
LEMMA UnlinkDeparts ==
  ASSUME Safe, PollUnlink
  PROVE  LET s == streamingSessionList[poll.i] IN Registry!Depart(KeyOf[peerId[s]], s)
<1> DEFINE gone == streamingSessionList[poll.i]
           key  == KeyOf[peerId[gone]]
<1>1. gone \in Listed /\ terminateFlag[gone] /\ Listed' = Listed \ {gone}
  BY PollRemoved DEF PollUnlink
<1>2. /\ UNCHANGED terminateFlag
      /\ pRemoteRtcPeerConnections' = [pRemoteRtcPeerConnections EXCEPT ![key] = NULL]
  BY DEF PollUnlink, Unroute, memory
<1>3. gone # NULL
  BY <1>1, ListSoundBySet, SessionsAssumption DEF Safe, TypeOK, SharedTypeOK
<1>4. \A k2 \in Keys \ {key} : pRemoteRtcPeerConnections[k2] # gone
  BY <1>3 DEF Safe, TableSound
<1>5. gone \in Doomed /\ Doomed' = Doomed \ {gone}
  BY <1>1, <1>2 DEF Doomed
<1>6. Registry!Depart(key, gone)
  BY <1>1, <1>2, <1>4, <1>5 DEF Registry!Depart
<1> QED BY <1>6

(* The callbacks that mark sessions doom those of them that are members.     *)
LEMMA MarkDooms ==
  ASSUME Safe, MediaEos \/ \E s \in SessionIds : ConnectionLost(s)
  PROVE  \E S \in SUBSET Listed : Registry!Doom(S)
<1> USE DEF Safe, TypeOK, SharedTypeOK
<1>1. Listed' = Listed /\ UNCHANGED pRemoteRtcPeerConnections
  BY SameList DEF MediaEos, ConnectionLost, registry
<1>2. Listed \subseteq SessionIds
  BY ListSoundBySet
<1>3. \A s \in Listed : terminateFlag[s] => terminateFlag'[s]
  BY <1>2 DEF MediaEos, ConnectionLost
<1>4. Doomed' = Doomed \cup Doomed'
  BY <1>1, <1>3 DEF Doomed
<1>5. Doomed' \subseteq Listed
  BY <1>1 DEF Doomed
<1> QED BY <1>1, <1>4, <1>5 DEF Registry!Doom

(* The other steps are none of the registry's.                               *)
LEMMA OtherStutters ==
  ASSUME "hash" \notin Faults, Safe, Next,
         ~MediaEos, \A s \in SessionIds : ~ConnectionLost(s), ~PollUnlink,
         \A h \in Handlers : ~AppendSession(h) /\ ~PutSession(h)
  PROVE  UNCHANGED <<Listed, Doomed, pRemoteRtcPeerConnections>>
<1> USE DEF registry, memory
<1>1. Listed' = Listed /\ UNCHANGED pRemoteRtcPeerConnections
  BY DataWriters, SameList
     DEF CreateSession, CreateSessionFails, PollUnlinkFails, PollFree
<1>2. ASSUME NEW s \in Listed
      PROVE  terminateFlag'[s] <=> terminateFlag[s]
  <2> USE <1>2 DEF Safe, TypeOK, SharedTypeOK
  <2>1. s \in allocated
    BY ListSoundBySet
  <2>2. ASSUME NEW h \in Handlers, CreateSession(h) \/ CreateSessionFails(h)
        PROVE  terminateFlag'[s] <=> terminateFlag[s]
    BY <2>1, <2>2 DEF CreateSession, CreateSessionFails, NewSession
  <2>3. CASE PollFree
    BY <2>3 DEF PollFree, FreeSession, InHand
  <2> HIDE DEF Safe, TypeOK, SharedTypeOK
  <2>4. CASE UNCHANGED terminateFlag
    BY <2>4
  <2>5. ASSUME NEW h \in Handlers, Handle(h)
        PROVE  terminateFlag'[s] <=> terminateFlag[s]
    BY <2>2, <2>4, <2>5 DEF Handle, Receive, HandleCandidate, RefuseOffer, CreateSessionCancel,
       CreateSessionReset, HandleOffer, HandleOfferFails, StartStats
  <2>6. CASE Poll
    BY <2>3, <2>4, <2>6 DEF Poll, PollLock, PollSkip, PollUnlinkFails, PollCancel, PollWait
  <2>7. CASE Sink \/ Stats
    BY <2>4, <2>7 DEF Sink, SinkLock, SinkSkip, SinkPick, SinkWrite, SinkUnlock, Stats,
       StatsFire, StatsLock, StatsVisit, StatsUnlock
  <2> QED BY <2>5, <2>6, <2>7 DEF Next
<1>3. Doomed' = Doomed
  BY <1>1, <1>2 DEF Doomed
<1> QED BY <1>1, <1>3

(* "Remove the streaming session" and the rest: with threads, locks, a       *)
(* swap-removing array, a hash table and reused memory, the sessions are a   *)
(* bounded set whose members leave only after they were marked, and a route  *)
(* always leads to a member, as long as the hash table works.                *)
THEOREM ImplementsIt ==
  ASSUME "hash" \notin Faults
  PROVE  Spec => ImplementsRegistry
<1>1. Init => Registry!RegistryInit
  BY DEF Init, Listed, Doomed, Registry!RegistryInit
<1>2. Safe /\ KeyFree /\ Named /\ [Next]_vars => [Registry!RegistryNext]_(Registry!rvars)
  <2> SUFFICES ASSUME Safe, KeyFree, Named, [Next]_vars
               PROVE  Registry!RegistryNext \/ UNCHANGED Registry!rvars
    OBVIOUS
  <2>1. ASSUME NEW h \in Handlers, AppendSession(h)
        PROVE  Registry!RegistryNext
    <3>1. handler[h].session \in SessionIds
      BY <2>1, Appended DEF Safe, TypeOK, SharedTypeOK
    <3>2. Registry!Join(handler[h].session)
      BY <2>1, AppendJoins
    <3> QED BY <3>1, <3>2 DEF Registry!RegistryNext, Registry!Join
  <2>2. ASSUME NEW h \in Handlers, PutSession(h)
        PROVE  Registry!RegistryNext
    <3>1. handler[h].session \in SessionIds /\ KeyOf[handler[h].peer] \in Keys
      BY <2>2, SessionsAssumption DEF PutSession, Safe, TypeOK, SharedTypeOK, Starting
    <3> QED BY <2>2, <3>1, PutAttaches DEF Registry!RegistryNext
  <2>3. CASE PollUnlink
    <3> DEFINE gone == streamingSessionList[poll.i]
    <3>1. gone \in Listed
      BY <2>3, PollRemoved DEF PollUnlink
    <3>2. gone \in SessionIds /\ KeyOf[peerId[gone]] \in Keys
      BY <3>1, ListSoundBySet, SessionsAssumption DEF Safe, TypeOK, SharedTypeOK, Named
    <3>3. Registry!Depart(KeyOf[peerId[gone]], gone)
      BY <2>3, UnlinkDeparts
    <3> HIDE DEF gone
    <3> QED BY <3>2, <3>3 DEF Registry!RegistryNext, Registry!Depart
  <2>4. CASE MediaEos \/ \E s \in SessionIds : ConnectionLost(s)
    BY <2>4, MarkDooms DEF Registry!RegistryNext
  <2>5. CASE UNCHANGED vars
    BY <2>5, SameList DEF vars, registry, memory, Doomed, Registry!rvars
  <2>6. ASSUME Next, ~MediaEos, \A s \in SessionIds : ~ConnectionLost(s), ~PollUnlink,
               \A h \in Handlers : ~AppendSession(h) /\ ~PutSession(h)
        PROVE  UNCHANGED Registry!rvars
    BY <2>6, OtherStutters DEF Registry!rvars
  <2> QED BY <2>1, <2>2, <2>3, <2>4, <2>5, <2>6
<1> QED BY <1>1, <1>2, SafeAlways, KeyFreeAlways, NamedAlways, PTL DEF Spec, ImplementsRegistry, Registry!RegistrySpec

(* What the registry promises is therefore true of the sessions: no more run *)
(* than the array has room for, and a message is routed to a running one,    *)
(* whichever calls fail but those of the hash table.                         *)
THEOREM PromiseKept ==
  ASSUME "hash" \notin Faults
  PROVE  Spec => []Registry!RegistrySound
<1> USE DEF Registry!RegistrySound
<1>1. Registry!RegistryInit => Registry!RegistrySound
  <2>1. Registry!IsFiniteSet({}) /\ Registry!Cardinality({}) = 0
    BY FS_EmptySet DEF IsFiniteSet, Registry!IsFiniteSet, Cardinality, Registry!Cardinality
  <2> QED BY <2>1, SessionsAssumption DEF Registry!RegistryInit
<1>2. Registry!RegistrySound /\ [Registry!RegistryNext]_(Registry!rvars) => Registry!RegistrySound'
  <2> SUFFICES ASSUME Registry!RegistrySound, [Registry!RegistryNext]_(Registry!rvars)
               PROVE  Registry!RegistrySound'
    OBVIOUS
  <2>1. ASSUME NEW s \in SessionIds, Registry!Join(s) PROVE Registry!RegistrySound'
    <3>1. IsFiniteSet(Listed) /\ Cardinality(Listed) < MaxSessions
      BY <2>1 DEF Registry!Join, IsFiniteSet, Registry!IsFiniteSet, Cardinality, Registry!Cardinality
    <3>2. IsFiniteSet(Listed \cup {s}) /\ Cardinality(Listed \cup {s}) = Cardinality(Listed) + 1
      BY <2>1, <3>1, FS_AddElement DEF Registry!Join
    <3>3. Cardinality(Listed) \in Nat
      BY <3>1, FS_CardinalityType
    <3>4. Cardinality(Listed \cup {s}) <= MaxSessions
      BY <3>1, <3>2, <3>3, SessionsAssumption
    <3>5. Listed' = Listed \cup {s}
      BY <2>1 DEF Registry!Join
    <3>6. Registry!IsFiniteSet(Listed') /\ Registry!Cardinality(Listed') <= MaxSessions
      BY <3>2, <3>4, <3>5 DEF IsFiniteSet, Registry!IsFiniteSet, Cardinality, Registry!Cardinality
    <3> QED BY <2>1, <3>6 DEF Registry!Join
  <2>2. ASSUME NEW s \in SessionIds, NEW k \in Keys, Registry!Attach(k, s)
        PROVE  Registry!RegistrySound'
    BY <2>2 DEF Registry!Attach
  <2>3. ASSUME NEW s \in SessionIds, NEW k \in Keys, Registry!Depart(k, s)
        PROVE  Registry!RegistrySound'
    <3>1. IsFiniteSet(Listed) /\ Cardinality(Listed) <= MaxSessions
      BY DEF IsFiniteSet, Registry!IsFiniteSet, Cardinality, Registry!Cardinality
    <3>2. Listed' = Listed \ {s} /\ Doomed' = Doomed \ {s}
      BY <2>3 DEF Registry!Depart
    <3>3. IsFiniteSet(Listed') /\ Cardinality(Listed') <= Cardinality(Listed)
      BY <3>1, <3>2, FS_Subset
    <3>4. Cardinality(Listed) \in Nat /\ Cardinality(Listed') \in Nat
      BY <3>1, <3>3, FS_CardinalityType
    <3>5. Cardinality(Listed') <= MaxSessions
      BY <3>1, <3>3, <3>4, SessionsAssumption
    <3>6. Registry!IsFiniteSet(Listed') /\ Registry!Cardinality(Listed') <= MaxSessions
      BY <3>3, <3>5 DEF IsFiniteSet, Registry!IsFiniteSet, Cardinality, Registry!Cardinality
    <3> QED BY <2>3, <3>2, <3>6 DEF Registry!Depart
  <2>4. ASSUME NEW S \in SUBSET Listed, Registry!Doom(S) PROVE Registry!RegistrySound'
    BY <2>4 DEF Registry!Doom
  <2>5. CASE UNCHANGED Registry!rvars
    BY <2>5 DEF Registry!rvars
  <2> QED BY <2>1, <2>2, <2>3, <2>4, <2>5 DEF Registry!RegistryNext
<1> QED BY <1>1, <1>2, ImplementsIt, PTL DEF ImplementsRegistry, Registry!RegistrySpec
=============================================================================
