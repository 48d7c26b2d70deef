# Formal models of aws-greengrass-labs-webrtc

The program streams one RTSP camera to WebRTC viewers: it receives signaling
messages from viewers, keeps a streaming session per viewer, and sends every
media frame of the camera to all sessions. It is a small multi-threaded C
program on top of two large libraries (the KVS WebRTC SDK and GStreamer), and
what is hard about it is not computation but who may touch which session when.
This directory holds TLA+ modules of its parts, configurations that TLC checks,
and proofs that TLAPS checks. Paths below are relative to `source/src/`.

## 1. The system

### Components

| component | code | state it keeps | operations |
|---|---|---|---|
| streaming sessions | `AppCommon.c` | `streamingSessionList`, `streamingSessionCount`, `pRemoteRtcPeerConnections`, the sessions in the heap, `iceCandidatePairStatsTimerId`, two locks | `onSignalingMessageReceived`, `createStreamingSession`, `handleOffer`, `freeStreamingSession`, `pollApp`, `onMediaSinkHook`, `getIceCandidatePairStatsCallback`, `onMediaEosHook`, `onConnectionStateChange` |
| pending ICE candidates | `AppMessageQueue.c` | the connection queue and the queue of each viewer | create, push, look up, handle, expire, free |
| media thread | `AppCommon.c`, `AppRtspSrc.c` | `mediaThreadStarted`, `peerConnectionConnected`, `shutdownRtspSrc`, `terminateApp`, main loop, pipeline | `mediaSenderRoutine`, `runMediaSource`, `closeGstRtspSrc`, sample and bus callbacks, `shutdownMediaSource` |
| signaling client | `AppSignaling.c`, `AppCommon.c` | `signalingClientHandle`, `restartSignalingClient`, `signalingSendMessageLock`, `iceUriCount` | connect, check, restart, send, query, error callback |
| certificate pool | `AppCredential.c`, `AppCommon.c` | `generatedCertificates` | generate (timer), pop, destroy |
| credential selection | `AppCredential.c` | the provider | `createCredential`, `destroyCredential` |
| pipeline construction, discovery | `AppRtspSrc.c` | `videoStream`, `audioStream`, `codecConfigLatched`, the sinks, the main loop, `codecConfLock` | pad callbacks, `discoverMediaSource`, `isMediaSourceReady`, capability queries, `closeGstRtspSrc`, the cleanup of `runMediaSource` |
| initialisation, termination | `AppCommon.c`, `AppMain.c` | whether each part of the configuration exists, `sigInt`, `terminateApp`, `mediaSenderTid`, the armed timers | `main`, `initApp`, `runApp`, `freeApp`, `sigIntHandler` |
| launcher | `../run_webrtc.py` | one process per camera | fetch the secret, start, wait |
| ECS credential provider | `../patches/0001-ecs-support.patch` | cached credentials | refresh over HTTP |
| metrics, wrappers, scripts | `AppMetrics.c`, `App*Wrap.c`, `AppWebRTC.c`, `AppDataChannel.c`, `../../scripts` | none | logging, forwarding, AWS CLI calls |

### Threads and how they interact

* The **main thread** runs `initApp`, `runApp`, then `pollApp` until SIGINT or an
  error, then `freeApp`. A pass of `pollApp` holds `appConfigurationObjLock` from
  its begin to the wait on the condition variable.
* **Signaling threads** of the SDK run `onSignalingMessageReceived`, under the
  same lock, except for its last step, which adds the statistics timer.
* The **timer queue** runs the statistics and the certificate callback, under the
  same lock.
* **GStreamer's streaming threads** run `onMediaSinkHook` for every frame, under
  `streamingSessionListReadLock` only. They are the reason a session is taken
  out of the array under both locks.
* **Peer connection threads** run `onConnectionStateChange` and
  `onIceCandidateHandler`, with no lock; the second reads a flag that the handler
  of the offer writes, and sends the answer of a viewer that does not trickle.
* The **media thread** waits for a connected viewer and then runs the pipeline's
  main loop. A discovery runs the same code shape with the same context on the
  thread of `initApp` or, while nothing is latched, of an offer's handler.
* `freeApp` runs on the main thread while all the others may still be there: it
  joins the media thread, frees the signaling client and passes through two
  critical sections, and cancels the timers after the locks are freed.

### What makes each part correct

* Sessions: no thread touches a freed session; the array and the hash table
  agree; an ended session is freed and a running one stays reachable; one session
  per viewer.
* Pending candidates: a viewer's candidates reach its own session, in order, once;
  a queue is freed exactly once, by its offer or after its time.
* Media thread: at most one; it ends when the application does, but for two hangs the
  code has; a connected viewer gets media.
* Signaling client: one at a time; a client found failing is replaced; no handler
  sends on a freed client; every offer is answered once, by one of two threads.
* Certificates: none is used twice, none is freed while it waits.
* Pipelines: discovery and playback never overlap; each app sink gets the stream
  whose codec the viewers were promised; nobody quits a freed main loop.
* Initialisation and termination: wherever `initApp` fails, what exists is freed
  once and nothing is left but what a named failure loses; `freeApp` frees nothing
  under a thread that uses it; the program ends unless a thread hangs by itself.

The lines where each of these can go wrong are the `hazards` of `PROJECT.json`.

## 2. The modules

| module | models |
|---|---|
| `Sessions` | the streaming sessions, step by step as the threads interleave |
| `SessionRegistry` | what that bookkeeping promises, without threads, locks, array or heap |
| `SessionsProofs` | the proofs about `Sessions`: memory, routes |
| `SessionsRegistryProofs` | more of them: passes of `pollApp`, leaks, key frames, the refinement of `SessionRegistry` |
| `PendingMsgQ` | `AppMessageQueue.c` as `AppCommon.c` uses it |
| `PendingMsgQProofs` | the proofs about `PendingMsgQ` |
| `MediaSource` | the media thread and the flags and callbacks that start and stop it |
| `MediaSourceProofs` | the proofs about `MediaSource` |
| `Signaling` | the signaling client, its restarts, the threads that send, and the answer of an offer |
| `SignalingProofs` | the proofs about `Signaling` |
| `CertPool` | the queue of certificates |
| `CertPoolProofs` | the proofs about `CertPool`, which `LifecycleProofs` instantiates |
| `RtspPads` | discovery and playback: the pads, the codec table, the main loop they share |
| `RtspPadsProofs` | the proofs about `RtspPads` |
| `Lifecycle` | `main`, `initApp` and `freeApp` with the threads they meet; composes `CertPool` |
| `LifecycleProofs` | the proofs about `Lifecycle` |
| `MC*` | the instances TLC checks |

The names of variables are those of the code; the names of actions say which
part of which function they are, and `PROJECT.json` gives the lines. Operators
marked `mutant` in the modules are wrong variants of the definition that follows
them, used to show that a property notices the mistake.

**Sessions.** An action is a part of a function between two points at which
another thread can observe or change what it uses. A function that holds a lock
is split only where a thread that does not need that lock can interfere:
`onSignalingMessageReceived` into receiving, creating, appending (which needs the
read lock), answering, routing, and adding the timer (outside the lock);
cancelling that timer and forgetting its id (two steps, as the add may come between);
`pollApp` into taking the lock, one step per array entry, unlinking, freeing, and
waiting; `onMediaSinkHook` into one step to pick a session and one to write to
it. Taking a lock is the first step of a critical section; a thread that waits
for it has no state of its own. `appConfigurationObjLock` is recursive, so that
`freeStreamingSession` takes it under `pollApp` and under a handler without a
step. The condition variable only shortens `pollApp`'s wait, so a pass may begin
at any time. One `"sink"` stands for the video and the audio thread: each
invocation of the hook holds the read lock from its begin to its end, so two of
them never overlap and any order of them is an order of one thread's calls.
`peerIds` are compared by CRC32 (`KeyOf`), which the constants leave open, so
two viewers may collide. `Faults` says which calls may fail; what a failing call
leaves behind is the code's doing and part of the actions. `due` and `keySent`
are history variables.

**SessionRegistry.** Members, doomed members, and routes. `Sessions` implements
it with `members <- Listed`, `doomed <-` the listed sessions that are marked, and
`route <- pRemoteRtcPeerConnections`: each action is one of `Join`, `Attach`,
`Doom`, `Depart`, or a stutter. `RegistrySound` is what every such registry keeps.

**PendingMsgQ.** Every use is under `appConfigurationObjLock`, so an operation is
one step. `Lookup` is `getPendingMsgQByHashVal` with the value it really
returns. `Keep` is the rotation of `removeExpiredPendingMsgQ`, and the removal of a
match, as a recursive function. Time is the age of a queue, cut off past the interval. Where the code
would dereference a freed queue the model stops: what follows is undefined.
`FreeConnectionMsgQ` is what `freeApp` does to the queues; nothing happens after
it (`open`). `forgotten` is a history variable: the queues that an offer refused
for a full array has unlinked without freeing them.

**MediaSource.** A session is its viewer and a pass of `pollApp` one step. The
media thread has the steps of `mediaSenderRoutine` and `runMediaSource`. Each sink has
the callback that links it and the callback of its samples. A failed hook closes the
pipeline and ends the sink's stream (`GST_FLOW_EOS`): it gets no further sample, so a
quit that came to nothing is not repeated by it. External and modelled from its use: a
quit of a GLib main loop that does not run yet is lost, and setting a pipeline to NULL
holds the state lock while it waits for callbacks in progress, so that a pad-added
callback that is about to set its sink PLAYING never returns. The steps that need the
object lock are assumed to get it; a handler that keeps it for ever is in `Lifecycle`.

**Signaling.** External and modelled from its use: a client is created, becomes
ready when fetched, and can then be connected; `freeSignalingClient` either frees
the client and clears the handle or does nothing. `handleOffer` is the order its
steps have: `remoteCanTrickleIce` is stored, gathering is started, and then the
handler answers or leaves the answer to the thread of the peer connection, which
ends its candidates at any moment after gathering has started. A session is its
viewer's and the flag's value of trickling, whether gathering is done, how many
answers were sent, and whether a call failed that explains a missing one
(`trickles`, `answers` and `failed` are history). A send on a client that has been freed
meanwhile is undefined: the answer may have gone out or not.

**CertPool.** Everything runs under `appConfigurationObjLock`. Addresses are
reused after a free.

**RtspPads.** `runMediaSource` and `discoverMediaSource` are the same steps on one
context, so that there is one set of actions for two `Pipelines`: set PLAYING,
create the main loop, run it, and the cleanup, in which the pipeline goes to NULL
before the loop is freed and its pointer cleared. A pipeline's own thread
announces the camera's pads in any order; a callback holds `codecConfLock` from
its first look at the table to the link of the sink, and closes the pipeline
after it has given the lock up. External and modelled from its use: a quit of a
loop that does not run is lost; state changes of a pipeline exclude each other,
and NULL waits for the pipeline's thread. An element whose name is taken cannot
be made: `videoAppSink` has one name for all pads, a queue has its pad's.
`streams` is the codec table, `promised` (history) the tables sessions were made
with. Which codec an encoding has is left to `Supported`.

**Lifecycle.** `made` says of each thing `initApp` makes whether it exists; `Create`
is the next step of `InitOrder`, `CreateFails` its failure, and the steps of `freeApp`
are taken in `FreeOrder`. Around it run one handler, the media thread and one timer
callback at a time, reduced to what they use, when they look at `terminateApp`, and
what they leave behind (a media thread, a statistics timer, a session). A thread that
finds something freed goes on, and the properties say where that cannot happen. The
fault `"hang"` is the two hangs of the pipelines: a discovery that never returns,
in a handler that holds the object lock, and a playback that does not end. What is
`"leaked"` has lost its last pointer.
What the SDK does is open: `freeWaits` says whether `freeSignalingClient` waits for
the handlers it has called, and properties that need it say so. The certificates are
an instance of `CertPool`, whose `pc` is derived from the credential's state, so that
`NoReuse` and the pool's types are checked from the first timer to the end.

## 3. What TLC checks

| run | bounds | shows | states |
|---|---|---|---|
| `SessionsFaults` | 2 viewers, array of 2, 2 addresses, 2 timers, 1 handler, all faults | types, `ListSound`, `TableSound`, `NoUseAfterFree`, `StatsTimerExact` | 944 k |
| `SessionsClean` | 2 viewers, array of 2, 3 addresses, 2 handlers, no faults | `ScanComplete`, `Routed`, `OneSessionPerPeer`, `NoLeak`, `FirstKeyFrameSent`, `RouteUntilUnlisted`, the refinement of `SessionRegistry` | 1.1 M |
| `SessionsLive` | 1 viewer, failing offers, fairness | `Reaped` | 85 k |
| `PendingMsgQOne` | 1 viewer, 4 candidates, 2 addresses, failing creation, push and full array, fairness | `LinkedAllocated`, `NoQueueLeak`, `InOrder`, `OfferDrains`, `QueueEnds` | 40 k |
| `MediaSourceAll` | 2 viewers, 2 sinks, all faults, fairness | `OneMediaThread`, `TerminateEnds` (but for `QuitLost` and `PadBlocked`) | 31 k |
| `SignalingAll` | 2 clients, 1 handler, 2 peer connections, all faults, fairness | `OneClient`, `AnswerOnLiveClient`, `RestartServed`, `AnswerOnce`, `Answered` | 60 k |
| `LifecycleAll` | 1 handler, 1 session, 2 certificates, maximum 1, all faults and hangs, fairness | `FreedOnce`, `NothingLeft`, `PipelineStopped`, `CallbacksOnLive`, `NoReuse`, `Ends` | 344 k |
| `RtspPadsAll` | 4 cameras with 2 or 3 pads, all faults but a reconfigured camera | `NoOverlap`, `SinkMatches`, `QuitOnLiveLoop` | 1.8 k |

Two entries are enough for the array to be full, for a swap that moves an entry
under the index, and for a removal of the last one; two viewers are enough for
one to be refused while the other runs; a third address lets a freed one rest
while another is taken. Addresses are interchangeable and nothing compares them
in order, so the safety runs use symmetry; the liveness runs do not. In
`SignalingAll` one handler is enough, as a second would only wait for the object
lock; two peer connections are needed for a candidate thread to answer while the
handler serves another offer. In `LifecycleAll` every step of `initApp` fails in
some behaviour and every other fault can follow; a second handler, session or
certificate callback would be serialised by the same lock. In `RtspPadsAll` the
cameras are a plain one, one without a codec for its video, and two with a second
video stream, of which one has no codec and one has: so pads arrive in an order in
which the wrong one comes first or last, and a discovery may fail between them.

Four runs expect a violation. Each is a place where a comment says one thing and
the code does another (`findings` in `PROJECT.json` quotes both):

| run | property | in a sentence |
|---|---|---|
| `SessionsZombie` | `OneSessionPerPeer` | a failed `handleOffer` leaves an unrouted session in the array, and the viewer's next offer starts a second one |
| `PendingMsgQMixed` | `OwnCandidatesOnly` | a lookup that finds nothing returns the last queue visited, so viewers get each other's candidates |
| `MediaSourceShutdown` | `ShutdownEnds` | a shutdown noticed before the main loop runs is forgotten |
| `SignalingLost` | `FailingReplaced` | a restart requested during a restart is cleared by the one that ends |

One more configuration passes: `PendingMsgQTwo` (`InOrder` with two viewers and all
faults, 255 k states). `CertPool` is checked as part of `Lifecycle`.

Further configurations show consequences and smaller disagreements. They are kept
for whoever changes the code, and each ends in a violation of its one property:
`SessionsEvicted` (a route that vanishes while its session runs, after
`SessionsZombie`), `SessionsStats` (a statistics timer without a session,
against `AppCommon.c:685`), `SessionsTimers` (with two threads to deliver messages,
each finds no timer under the lock and adds one after it, `AppCommon.c:481`),
`SessionsKeyFrame` (`firstKeyFrame` set although the write failed, against
`include/AppCommon.h:90`), `PendingMsgQDangling` (a freed queue stays linked, after
`PendingMsgQMixed`), `PendingMsgQLeak` (`NeverForgotten`: the queue of a refused
offer, against `AppCommon.c:438`), `MediaSourceNoMedia` and
`MediaSourceNoStart` (a connected viewer without media), `MediaSourceHang`
(`TerminateAlways`: the join waits for a media thread whose quit was lost or whose
pipeline waits for a pad-added callback), `SignalingFetch`
(a re-created client is never fetched, against `AppSignaling.c:95`), `SignalingCount`
(STUN counted twice, against `include/AppCommon.h:71`), `CertPoolLeak` (the pointer
is cleared before the free, against `AppCommon.c:590`);
of termination, `LifecycleTimer` (the object lock is freed at `AppCommon.c:884`
while a timer callback may take it), `LifecycleStats` (statistics of sessions
`freeApp` has freed), `LifecycleLate` (a media thread made after the join still
runs when the configuration is freed), `LifecycleSignal` (a signal after `initApp`
has freed what it set up), `LifecycleHang` (after a hash table error in
`pollApp` the join waits for a thread that waits for the read lock) and
`LifecycleLeak` (`MediaFreed`: the error path of `initMediaSource` frees at the wrong
address, `AppRtspSrc.c:896`);
of the pipelines, `RtspPadsPayload` (two streams with one payload type),
`RtspPadsCamera` (a camera reconfigured after the discovery), `RtspPadsLost` (all
pads announced before the main loop runs: the discovery never ends) and
`RtspPadsState` (a pad-added callback and the cleanup wait for each other).

### Fairness

Weak fairness of a thread's steps says that the operating system runs it; strong
fairness of a step that takes a lock says that a mutex is granted in the end to a
thread that keeps asking, which Linux mutexes do in practice although they do
not promise it: without it a camera whose frames follow each other without a gap
could keep `pollApp` from the read lock for ever. Nothing is assumed of viewers,
frames, timers or errors, with these exceptions.

* `PendingMsgQ`: time passes.
* `MediaSource`: a camera that plays announces its pads and sends until the callback
  has ended the stream (the flags are read only when a sample arrives). A pad-added
  callback that asks for `codecConfLock` again and again gets it. A hook that fails is
  not tried again. Where that is not enough, the media thread hangs, and `TerminateEnds`
  names the two states in which it does.
* `Signaling`: freeing the client does not fail every time it is retried, and a peer
  connection stops reporting candidates.
* `Lifecycle`: each thread takes the steps it can take again and again. Nothing is
  assumed of `initApp`, of viewers, or of a thread that hangs. The pipeline ends after
  `terminateApp` unless the read lock was left held or it hangs, which is what
  `TerminateEnds` of `MediaSource` says of it. `Ends` excuses both, and a discovery that
  hangs under the object lock, by name.

`EagerSpec` of `MediaSource` adds that a waiting media thread sees a flag that is set
again and again; it makes `MediaSourceNoStart` a stronger counterexample. `RtspPads`
needs fairness only in the configurations that end in a violation.

`CHECK_DEADLOCK FALSE` appears where the system really stops: `PendingMsgQOne` and
`PendingMsgQTwo` (all candidates sent and the queues freed, or the model's end at a
freed queue), `MediaSourceAll` and `LifecycleAll` (the application
has terminated), `SignalingAll` (`pollApp` has ended and nothing is left to send)
and `RtspPadsAll` (the lost quit and the state lock, see `RtspPadsLost` and
`RtspPadsState`).

## 4. What is proved

`SessionsProofs` proves, for every number of viewers, addresses, array entries,
timers and handler threads, every assignment of keys to viewers, and every set of
failing calls:

* `SafeAlways`: `Spec => []Safe`, the invariant the others rest on, and from it
  `TypeCorrect`, `ListCorrect`, `TableCorrect` and `MemorySafe`;
* `TimerCorrect` (`StatsTimerExact`), if one thread delivers the messages; with two it
  is false (`SessionsTimers`). The invariant `Timed` says where the id and
  the armed timers may differ: only between a cancellation and its reset, where none is
  armed. A handler that is about to add a timer has seen that there is none, and it stays
  so: only a remembered timer is cancelled, and nobody else adds one;
* `RoutedAlways`, `OneSession` and `RouteLasts`: `Routed`, `OneSessionPerPeer` and
  `RouteUntilUnlisted`, from the assumption that `handleOffer` does not fail.
  `SessionsZombie` and `SessionsEvicted` show that the assumption is needed.

But for these two, the only assumption is `SessionsAssumption`, which says what the constants
are. The argument: none of the properties is inductive alone. That no freed
session is used needs to know that the session a thread works on is in the array
(`InHand`, `Starting`), hence that the array has no duplicates (`ListSound`),
hence that a handler appends only a session not listed yet; that `InHand` is kept
by other threads needs the locks they hold (`LocksHeld`): the media thread's
session cannot leave the array because `PollUnlink` needs the read lock, the
statistics callback's because it needs the object lock. `TableSound` lets a
handler use what the hash table returns. `Safe` is their conjunction together with
`TypeOK`; each `...Step` lemma shows that a step from `Safe` ends in one of the
parts, `ThreadWriters` and `DataWriters` confine each lemma to the steps that
write what it is about, and `Removed` and `Appended` say what swap-remove and
append do to the set of listed sessions. `Routed` adds what `OneSessionPerPeer` needs:
a listed session is routed or its handler, which holds the lock, is about to do
it.

`SafeAlways` covers failing hash table calls, after which `pollApp` keeps the
read lock: `TableSound` then lets a route lead to a session out of the array.

`SignalingProofs` proves, for any number of client addresses, handlers and peer
connections, any number of TURN URIs and every set of failing calls: `SignalingTyped`
(`TypeOK`), `OnlyClient` (`OneClient`), `AnswersOnLive` (`AnswerOnLiveClient`) and
`AnsweredOnce` (`AnswerOnce`), from `SignalingAssumption` alone. The inductive
invariant has three parts besides the types. `Locked`: a busy handler and a pass of
`pollApp` hold the object lock, so that they exclude each other. `Handles`: the
handle leads to the only client, it is invalid when one is created, and a handler
between the test of the handle and the end of its call still has the client the
handle leads to, because a restart is a pass of `pollApp`. `Answers`: who may still
answer an offer. The flag is stored before gathering starts (`FlagStored`), so the peer
connection's thread, which reads it without a lock, reads what the offer said; a
handler sends only for a viewer that trickles and the thread only for one that does
not, after gathering, and each only while no answer was sent. The lemmas go by thread:
main and the client change no session, `OwnSession` says what a handler's write to its
session leaves to the thread that reports on it, and `OwnReport` the converse.

`RtspPadsProofs` proves, for every set of cameras, encodings and faults: `PadsTyped`
(`TypeOK`), `NeverOverlap` (`NoOverlap`) and `LoopLive` (`QuitOnLiveLoop`), from
`RtspPadsAssumption`. The inductive invariant adds `Turns`: a session is made only of
a latched table while no discovery runs, playback needs a session, a callback needs a
running pipeline, and the pointer leads to a freed main loop only until the cleanup
that freed it clears it. `SinksMatch` (`SinkMatches`) assumes that a camera gives each
stream of a medium its own payload type (`DistinctPayloads`) and is not reconfigured;
`RtspPadsPayload` and `RtspPadsCamera` show that both are needed. It adds what the
sinks are picked from (`Choice`).

`SessionsRegistryProofs` goes on from `Safe`, each time with an inductive invariant
of its own that TLC checked before (`Passed`, `Owned` and `KeyWritten`):

* `PassComplete` (`ScanComplete`), with no further assumption. `Passed`: no index the
  pass has left behind holds a session that was marked when it began, and those
  that were are still marked. The swap puts the last entry under the index, which
  is why the code must not advance then (`PassedRemoval`); nobody else moves entries
  during a pass (`PassUndisturbed`), and a mark goes only with the memory
  (`MarkStays`).
* `NothingLeaks` (`NoLeak`), if the media source is ready and the hash table works: on
  both other paths a session is lost, as `CreateSessionFails` and `PollUnlinkFails` say.
* `KeyFrameFirst` (`FirstKeyFrameSent`), if `writeFrame` does not fail, which
  `SessionsKeyFrame` shows to be needed.
* `ImplementsIt` (`ImplementsRegistry`), if the hash table does not fail; every other
  call may, `handleOffer` included. Each step is mapped by a lemma: `AppendJoins` needs
  that the count of the array is the cardinality of the set of sessions
  (`CountIsCardinality`, by a bijection), `PutAttaches` that the handler's key has
  still no route (`KeyFree`), `UnlinkDeparts` that no other key leads to the session
  (`TableSound`) and that it has a peer (`Named`); `OtherStutters` is the rest.
* `PromiseKept` (`RegistrySound`) follows from that refinement and an argument about
  `SessionRegistry` alone: room for every session, and routes to running ones only.

`PendingMsgQProofs` proves for every number of peers, queues and candidates
`TypeCorrect` (`TypeOK`), `QueuesFreed` (`NoQueueLeak`), `DeliveredInOrder` (`InOrder`)
and, if no queued candidate is refused, `OfferSubmitsAll` (`OfferDrains`). The first
part of the invariant is not in the source: the connection queue never links more
than one queue (`OneQueue`), because one is created only when the lookup finds none,
and a lookup in a queue that is not empty always returns one. It is a consequence of
what `PendingMsgQMixed` shows, and it is why no second queue with the same key can be
missed by an offer. The second part is `Ordered`: in every queue, and in what every
session got, the candidates of each peer are in sequence and were all sent, also
after they were put into another peer's queue. `NoneDangles` (`LinkedAllocated`)
assumes one peer; with two it is false (`PendingMsgQDangling`). What `Keep` computes is
proved for sequences of any length by induction on its index. The induction is in the
form of a least counterexample (`Least`, from `WFMin` and the well-foundedness of the
natural numbers), because the library's induction rules take an operator as their
parameter, which the installed provers cannot instantiate; `KeptExists` shows in the
same way that the recursion defines a function.

`MediaSourceProofs`: `TypeCorrect` (`TypeOK`) and `OneThread` (`OneMediaThread`), which are
inductive together, for any number of viewers and any failing calls.

`CertPoolProofs`: `PoolSound` (`TypeOK` and `NoReuse` of `CertPool`, which are inductive
together) for any set of addresses and any maximum. Its lemmas speak of one step
each, so that `LifecycleProofs` can cite them for the pool's steps inside `Lifecycle`.

`LifecycleProofs` proves all of the safety properties of `Lifecycle`, from
`LifecycleAssumption`: `TypeCorrect` (`TypeOK`), `NeverTwice` (`FreedOnce`), `AllFreed`
(`NothingLeft`, which lists the four things a failure may lose and excuses no other), `JoinStopsPipeline` (`PipelineStopped`), `CallbacksFindLive`
(`CallbacksOnLive`) and `CertNotReused` (`NoReuse`). The properties speak of the end, or
of a thread at work; the invariant (`Order`) says what is made and what is freed at
every place: up to a step of `initApp` exactly what the steps before it make
(`Starting`), after a step of `freeApp` nothing its earlier steps free (`Cleaning`), and
what a thing needs is there while it lives (`Needs`, `Handled`). `Lost` says what may have been leaked and
which failure it takes, so that everything else was freed. `Locked` and `Threads` are
about the lock and the media thread's id: a thread that plays has its id stored, so
that the join awaits it, or it looks at `terminateApp` after that was set. Unlike the
runs, the proof is for any number of certificate addresses and any maximum; the
handler, the session and the steps of `initApp` and `freeApp` are those of the model.

Only model-checked: all liveness (`Reaped`, `QueueEnds`, `TerminateEnds`,
`RestartServed`, `Answered`, `Ends`), as fairness and `ENABLED` are out of the prover's
reach. The configurations that end in a violation are counterexamples and have
nothing to prove. Every other property of a passing run is stated by a theorem.

## 5. Not modelled

* Which credential provider `createCredential` picks: it reads the environment once,
  before any thread exists. That it fails, and what it leaves, is in `Lifecycle`.
* The elements a sink is made of and how they are linked: one step that may fail.
  The URL and password of the camera, and the hooks, which are set once.
* How candidates and answers are formatted and parsed; SDK statistics.
* The launcher, the ECS patch, the deployment scripts, metrics, and the wrappers, which
  keep no state of their own.
* Numbers that are only logged: statistics, bandwidth estimates, frame indices.

## 6. Plan

Done: the sessions with their abstract specification, pending candidates, the media
thread, the signaling client with the answers, the certificates, the two pipelines,
and initialisation and termination with the threads they meet; every safety property
of the passing runs is proved. Next, in order of importance:

1. An abstract specification of the candidates of one viewer (submitted in order,
   once, or expired) that `PendingMsgQ` with one key implements, and its proof.
2. The composition of `Sessions` and `PendingMsgQ`: a candidate that races with the
   offer and the end of its session.
3. Which of the assumptions of the theorems about `Sessions` can be weakened: a hash
   table that fails only once, for example, after which `pollApp` has ended.
