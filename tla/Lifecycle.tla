----------------------------- MODULE Lifecycle -----------------------------
(***************************************************************************)
(* The life of the application: main, initApp, runApp, pollApp's end,      *)
(* freeApp and sigIntHandler, and the threads freeApp meets on its way: a  *)
(* signaling handler, the media thread and the callbacks of the timer      *)
(* queue.  What matters of a thing initApp creates is whether it lives.    *)
(*                                                                         *)
(* A thread that uses a thing that has been freed goes on here as if it    *)
(* were still there, as mostly happens; the properties say where it may.   *)
(* One session stands for the array and one handler for all of them: the   *)
(* Sessions module has their detail.                                       *)
(***************************************************************************)
EXTENDS Naturals, Sequences, SequencesExt, FiniteSets

CONSTANTS
  Certs,                               (* the addresses of certificates       *)
  MAX_RTCCONFIGURATION_CERTIFICATES,
  Faults,                              (* what may go wrong, see AllFaults    *)
  NULL

(* What initApp creates, in its order.                                       *)
InitOrder ==
  <<"config", "credential", "objLock", "cvar", "readLock", "timerQueue", "sendLock",
    "msgQ", "hashTable", "media", "webrtc">>

(* The steps of freeApp, in their order.                                     *)
ClientLast ==   (* mutant: the messages are stopped after what they use is freed *)
  <<"join", "joined", "sendLock", "msgQ", "hashTable", "client", "session", "webrtc", "media",
    "barrier", "objLock", "readLock", "cvar", "timerQueue", "credential", "config">>
TimersLast ==   (* mutant: the timers are stopped after the credential is freed *)
  <<"join", "joined", "client", "sendLock", "msgQ", "hashTable", "session", "webrtc", "media",
    "barrier", "objLock", "readLock", "cvar", "credential", "timerQueue", "config">>
NoReadLock ==   (* mutant: a lock is forgotten *)
  <<"join", "joined", "client", "sendLock", "msgQ", "hashTable", "session", "webrtc", "media",
    "barrier", "objLock", "cvar", "timerQueue", "credential", "config">>
FreeOrder ==
  <<"join", "joined", "client", "sendLock", "msgQ", "hashTable", "session", "webrtc", "media",
    "barrier", "objLock", "readLock", "cvar", "timerQueue", "credential", "config">>

Things == ToSet(InitOrder) \cup {"client", "session"}

AllFaults ==
  (ToSet(InitOrder) \ {"cvar"}) \cup   (* its creation in initApp; CVAR_CREATE is not tested *)
  { "timer",                  (* appTimeQueueAdd in initApp                   *)
    "client",                 (* connectAppSignaling                          *)
    "free",                   (* freeSignalingClient                          *)
    "poll",                   (* a call of pollApp                            *)
    "hash",                   (* a call of pollApp under the read lock        *)
    "hang",                   (* a call into GStreamer never returns          *)
    "create", "enqueue", "peer" }   (* see CertPool                           *)

ASSUME LifecycleAssumption ==
  /\ MAX_RTCCONFIGURATION_CERTIFICATES \in Nat
  /\ Faults \subseteq AllFaults
  /\ NULL \notin {"handler", "timer"}

VARIABLES
  made,               (* the state of each of Things                          *)
  main,               (* control state of the main thread: "abort" is freeApp
                         called by initApp, "free" freeApp called by main     *)
  at,                 (* its place in InitOrder or FreeOrder                  *)
  pAppConfiguration,  (* whether initApp leaves main a pointer                *)
  gAppConfiguration,  (* whether sigIntHandler has one                        *)
  sigInt, terminateApp, mediaThreadStarted,   (* the flags of these names     *)
  mediaSenderTid,     (* whether it names the media thread that runs          *)
  awaited,            (* whether main joins the media thread that runs        *)
  objLock,            (* who holds appConfigurationObjLock                    *)
  readLockLeft,       (* pollApp has ended with the read lock held            *)
  handler, media, timer,      (* control states of the other threads          *)
  certTimer, statsTimer,      (* the timers that are armed                    *)
  freeWaits,          (* whether freeSignalingClient waits for the handlers;
                         the SDK decides, and it never changes                *)
  generatedCertificates, allocated, configured   (* see CertPool              *)

certs   == <<generatedCertificates, allocated, configured>>
flags   == <<pAppConfiguration, gAppConfiguration, sigInt, terminateApp, readLockLeft, freeWaits>>
thread  == <<media, mediaThreadStarted, mediaSenderTid, awaited>>
timers  == <<timer, certTimer, statsTimer>>
vars    == <<made, main, at, flags, thread, objLock, handler, timers, certs>>

Pool == INSTANCE CertPool WITH
  Faults <- Faults \cap {"create", "enqueue", "peer"},
  pc <- IF made["credential"] = "freed" THEN "end" ELSE "run"

Live(things) == \A r \in things : made[r] = "live"
MainStep(from, to) == main = from /\ main' = to
Take(t) == objLock = NULL /\ objLock' = t
Leave(t) == objLock = t /\ objLock' = NULL

-----------------------------------------------------------------------------
(* initApp and runApp                                                        *)

(* freeApp begins; a caller without a configuration does not call it.        *)
EnterFree(from, to) ==
  /\ MainStep(from, to)
  /\ at' = 1
  /\ terminateApp' = TRUE
  /\ UNCHANGED <<pAppConfiguration, gAppConfiguration, sigInt, freeWaits>>

Create ==
  /\ main = "init" /\ at <= Len(InitOrder)
  /\ made' = [made EXCEPT ![InitOrder[at]] = "live"]
  /\ at' = at + 1
  /\ pAppConfiguration' = TRUE
  /\ UNCHANGED <<main, gAppConfiguration, sigInt, terminateApp, readLockLeft, freeWaits,
                 thread, objLock, handler, timers, certs>>

(* createCredential frees what it has made; initMediaSource passes its       *)
(* context to detroyMediaSource where the address of a pointer is expected,  *)
(* so that it is lost.                                                       *)
AfterFailure(r) ==
  {"none"} \cup (IF r = "credential" THEN {"freed"} ELSE {})
           \cup (IF r = "media" THEN {"leaked"} ELSE {})

CreateFails ==
  /\ main = "init" /\ at <= Len(InitOrder)
  /\ InitOrder[at] \in Faults
  /\ \E state \in AfterFailure(InitOrder[at]) : made' = [made EXCEPT ![InitOrder[at]] = state]
  /\ IF pAppConfiguration THEN EnterFree("init", "abort")
     ELSE main' = "done" /\ UNCHANGED <<at, pAppConfiguration, gAppConfiguration, sigInt,
                                        terminateApp, freeWaits>>
  /\ UNCHANGED <<readLockLeft, thread, objLock, handler, timers, certs>>

InitDone ==
  /\ MainStep("init", "run") /\ at > Len(InitOrder)
  /\ gAppConfiguration' = TRUE
  /\ certTimer' = TRUE
  /\ UNCHANGED <<made, at, pAppConfiguration, sigInt, terminateApp, readLockLeft, freeWaits,
                 thread, objLock, handler, timer, statsTimer, certs>>

(* The signal handler keeps the pointer to what freeApp frees.               *)
InitTimerFails ==
  /\ "timer" \in Faults
  /\ MainStep("init", "abort") /\ at > Len(InitOrder)
  /\ at' = 1
  /\ gAppConfiguration' = TRUE
  /\ terminateApp' = TRUE
  /\ UNCHANGED <<made, pAppConfiguration, sigInt, readLockLeft, freeWaits, thread, objLock,
                 handler, timers, certs>>

RunApp ==
  /\ MainStep("run", "poll")
  /\ \/ made' = [made EXCEPT !["client"] = "live"]
     \/ "client" \in Faults /\ UNCHANGED made
  /\ UNCHANGED <<at, flags, thread, objLock, handler, timers, certs>>

-----------------------------------------------------------------------------
(* pollApp                                                                   *)

Poll == main = "poll" /\ objLock = NULL

(* A pass frees the session, if its peer has gone.                           *)
PollReap ==
  /\ Poll
  /\ made["session"] = "live"
  /\ made' = [made EXCEPT !["session"] = "none"]
  /\ statsTimer' = FALSE
  /\ UNCHANGED <<main, at, flags, thread, objLock, handler, timer, certTimer, certs>>

(* It has left the array when a call on the hash table fails.                *)
PollReapFails ==
  /\ "hash" \in Faults
  /\ Poll
  /\ made["session"] = "live"
  /\ made' = [made EXCEPT !["session"] = "leaked"]
  /\ EnterFree("poll", "free")
  /\ readLockLeft' = TRUE
  /\ UNCHANGED <<thread, objLock, handler, timers, certs>>

PollFails ==
  /\ Poll
  /\ made["client"] # "live" \/ "poll" \in Faults
  /\ EnterFree("poll", "free")
  /\ UNCHANGED <<made, readLockLeft, thread, objLock, handler, timers, certs>>

PollEnds ==
  /\ sigInt
  /\ EnterFree("poll", "free")
  /\ UNCHANGED <<made, readLockLeft, thread, objLock, handler, timers, certs>>

(* sigIntHandler: until initApp has ended a signal is lost.                  *)
SigInt ==
  /\ main # "done"
  /\ sigInt' = (sigInt \/ gAppConfiguration)
  /\ UNCHANGED <<made, main, at, pAppConfiguration, gAppConfiguration, terminateApp,
                 readLockLeft, freeWaits, thread, objLock, handler, timers, certs>>

-----------------------------------------------------------------------------
(* freeApp                                                                   *)

Freeing(step) ==
  /\ main \in {"abort", "free"}
  /\ at <= Len(FreeOrder)
  /\ FreeOrder[at] = step
  /\ at' = at + 1
  /\ main' = main

(* The handles that a free makes invalid, so that a second one does nothing. *)
Cleared == {"credential", "client", "msgQ", "media", "timerQueue"}

Freed(r) ==
  [made EXCEPT ![r] = IF @ = "live" THEN "freed"
                      ELSE IF @ = "freed" /\ r \notin Cleared THEN "twice"
                      ELSE @]

(* THREAD_JOIN waits for the thread mediaSenderTid names, not for a later.   *)
FreeJoin ==
  /\ Freeing("join")
  /\ awaited' = mediaSenderTid
  /\ UNCHANGED <<made, flags, media, mediaThreadStarted, mediaSenderTid, objLock, handler,
                 timers, certs>>

FreeJoined ==
  /\ Freeing("joined")
  /\ ~awaited
  /\ UNCHANGED <<made, flags, thread, objLock, handler, timers, certs>>

FreeClient ==
  /\ Freeing("client")
  /\ freeWaits => handler = "idle"
  /\ made' = Freed("client")
  /\ UNCHANGED <<flags, thread, objLock, handler, timers, certs>>

(* The client stays, with its thread and its callbacks.                      *)
FreeClientFails ==
  /\ "free" \in Faults
  /\ Freeing("client")
  /\ made["client"] = "live"
  /\ made' = [made EXCEPT !["client"] = "leaked"]
  /\ UNCHANGED <<flags, thread, objLock, handler, timers, certs>>

(* The session is freed under the object lock, and stays in the array.       *)
FreeSession ==
  /\ Freeing("session")
  /\ objLock = NULL
  /\ made' = IF made["session"] = "live" THEN [made EXCEPT !["session"] = "freed"] ELSE made
  /\ UNCHANGED <<flags, thread, objLock, handler, timers, certs>>

(* The lock is taken and left at once.                                       *)
FreeBarrier ==
  /\ Freeing("barrier")
  /\ objLock = NULL
  /\ UNCHANGED <<made, flags, thread, objLock, handler, timers, certs>>

CancelCertOnly == certTimer' = FALSE /\ UNCHANGED statsTimer   (* mutant *)
CancelTimers == certTimer' = FALSE /\ statsTimer' = FALSE

(* The timers are cancelled, and the queue's thread ends.                    *)
FreeTimers ==
  /\ Freeing("timerQueue")
  /\ timer = "idle"
  /\ made' = Freed("timerQueue")
  /\ CancelTimers
  /\ UNCHANGED <<flags, thread, objLock, handler, timer, certs>>

FreeCredential ==
  /\ Freeing("credential")
  /\ made' = Freed("credential")
  /\ IF made["credential"] = "live" THEN Pool!Destroy ELSE UNCHANGED certs
  /\ UNCHANGED <<flags, thread, objLock, handler, timers>>

KeepPointer == UNCHANGED pAppConfiguration   (* mutant: the caller keeps its pointer *)
ClearPointer == pAppConfiguration' = FALSE

FreeConfig ==
  /\ Freeing("config")
  /\ made' = Freed("config")
  /\ ClearPointer
  /\ UNCHANGED <<gAppConfiguration, sigInt, terminateApp, readLockLeft, freeWaits, thread,
                 objLock, handler, timers, certs>>

FreeOther ==
  /\ \E r \in {"sendLock", "msgQ", "hashTable", "webrtc", "media", "objLock", "readLock", "cvar"} :
       Freeing(r) /\ made' = Freed(r)
  /\ UNCHANGED <<flags, thread, objLock, handler, timers, certs>>

(* freeApp returns; main calls it for what a failing initApp has left.       *)
FreeReturns ==
  /\ at > Len(FreeOrder)
  /\ \/ main = "abort" /\ pAppConfiguration /\ main' = "free" /\ at' = 1
     \/ main = "abort" /\ ~pAppConfiguration /\ main' = "done" /\ at' = at
     \/ main = "free" /\ main' = "done" /\ at' = at
  /\ UNCHANGED <<made, flags, thread, objLock, handler, timers, certs>>

-----------------------------------------------------------------------------
(* onSignalingMessageReceived                                                *)

HandlerStep(from, to) == handler = from /\ handler' = to

(* The client delivers a message; the handler does not hold the lock yet.    *)
Deliver ==
  /\ made["client"] \in {"live", "leaked"}
  /\ HandlerStep("idle", "message")
  /\ UNCHANGED <<made, main, at, flags, thread, objLock, timers, certs>>

HandlerLock ==
  /\ HandlerStep("message", "locked")
  /\ Take("handler")
  /\ UNCHANGED <<made, main, at, flags, thread, timers, certs>>

(* A candidate, a message of another type, or an offer that is refused or    *)
(* fails: for one, when pMediaContext is gone.                               *)
HandleOther ==
  /\ HandlerStep("locked", "idle")
  /\ Leave("handler")
  /\ UNCHANGED <<made, main, at, flags, thread, timers, certs>>

(* An offer that finds no codecs asks the camera under the object lock, and  *)
(* a discovery that hears nothing of it waits for ever (see RtspPadsLost).   *)
HandlerHangs ==
  /\ "hang" \in Faults
  /\ HandlerStep("locked", "hung")
  /\ UNCHANGED <<made, main, at, flags, thread, objLock, timers, certs>>

(* An offer takes a certificate, if there is one, and starts the media       *)
(* thread, if none is started; THREAD_CREATE stores its id afterwards.       *)
HandleOffer ==
  /\ HandlerStep("locked", "store")
  /\ made["session"] = "none"
  /\ made["media"] = "live"
  /\ made' = [made EXCEPT !["session"] = "live"]
  /\ IF generatedCertificates # <<>> THEN Pool!ConfigurePeer ELSE UNCHANGED certs
  /\ mediaThreadStarted' = TRUE
  /\ media' = IF mediaThreadStarted THEN media ELSE "wait"
  /\ UNCHANGED <<main, at, flags, mediaSenderTid, awaited, objLock, timers>>

StoreTid ==
  /\ HandlerStep("store", IF statsTimer THEN "idle" ELSE "stats")
  /\ mediaSenderTid' = (media # "none")
  /\ Leave("handler")
  /\ UNCHANGED <<made, main, at, flags, media, mediaThreadStarted, awaited, timers, certs>>

(* Outside of the lock.                                                      *)
StartStats ==
  /\ HandlerStep("stats", "idle")
  /\ statsTimer' = (statsTimer \/ made["timerQueue"] = "live")
  /\ UNCHANGED <<made, main, at, flags, thread, objLock, timer, certTimer, certs>>

-----------------------------------------------------------------------------
(* mediaSenderRoutine                                                        *)

MediaStep(from, to) == media = from /\ media' = to

LockIgnored == TRUE   (* mutant: the thread looks at the flags without the lock *)
LockFree == objLock = NULL
WaitConnected(connected) == connected   (* mutant: terminateApp does not end the wait *)
WaitDone(connected) == connected \/ terminateApp

(* The loop's test is under the lock; connected is peerConnectionConnected,  *)
(* which the connections of the viewers set and clear at any time.           *)
MediaWait(connected) ==
  /\ MediaStep("wait", "decide")
  /\ LockFree
  /\ WaitDone(connected)
  /\ UNCHANGED <<made, main, at, flags, mediaThreadStarted, mediaSenderTid, awaited, objLock,
                 handler, timers, certs>>

MediaDecide ==
  /\ MediaStep("decide", IF terminateApp THEN "end" ELSE "play")
  /\ UNCHANGED <<made, main, at, flags, mediaThreadStarted, mediaSenderTid, awaited, objLock,
                 handler, timers, certs>>

(* The pipeline ends by itself, or because of terminateApp or a shutdown.    *)
MediaPlayed ==
  /\ MediaStep("play", "end")
  /\ UNCHANGED <<made, main, at, flags, mediaThreadStarted, mediaSenderTid, awaited, objLock,
                 handler, timers, certs>>

(* It does not end, whoever asks: the quit came before the loop ran, or the  *)
(* two set_state deadlock (see MediaSourceShutdown and MediaSourceHang).     *)
MediaHangs ==
  /\ "hang" \in Faults
  /\ MediaStep("play", "hung")
  /\ UNCHANGED <<made, main, at, flags, mediaThreadStarted, mediaSenderTid, awaited, objLock,
                 handler, timers, certs>>

MediaEnd ==
  /\ MediaStep("end", "none")
  /\ mediaThreadStarted' = FALSE
  /\ mediaSenderTid' = FALSE
  /\ awaited' = FALSE
  /\ UNCHANGED <<made, main, at, flags, objLock, handler, timers, certs>>

-----------------------------------------------------------------------------
(* The timer queue's thread: pregenerateCertTimerCallback and                *)
(* getIceCandidatePairStatsCallback.                                         *)

TimerFire ==
  /\ timer = "idle"
  /\ \/ certTimer /\ timer' = "cert"
     \/ statsTimer /\ timer' = "stats"
  /\ UNCHANGED <<made, main, at, flags, thread, objLock, handler, certTimer, statsTimer, certs>>

TimerLock ==
  /\ timer \in {"cert", "stats"}
  /\ timer' = IF timer = "cert" THEN "generate" ELSE "walk"
  /\ Take("timer")
  /\ UNCHANGED <<made, main, at, flags, thread, handler, certTimer, statsTimer, certs>>

TimerGenerate ==
  /\ timer = "generate" /\ timer' = "idle"
  /\ UNCHANGED made
  /\ \/ Pool!GenerateCert
     \/ Pool!GenerateCertFails
     \/ ~Pool!NotEnough /\ UNCHANGED certs
  /\ Leave("timer")
  /\ UNCHANGED <<main, at, flags, thread, handler, certTimer, statsTimer>>

TimerWalk ==
  /\ timer = "walk" /\ timer' = "idle"
  /\ Leave("timer")
  /\ UNCHANGED <<made, main, at, flags, thread, handler, certTimer, statsTimer, certs>>

-----------------------------------------------------------------------------
Init ==
  /\ made = [r \in Things |-> "none"]
  /\ main = "init" /\ at = 1
  /\ pAppConfiguration = FALSE /\ gAppConfiguration = FALSE
  /\ sigInt = FALSE /\ terminateApp = FALSE /\ readLockLeft = FALSE
  /\ freeWaits \in BOOLEAN
  /\ media = "none" /\ mediaThreadStarted = FALSE
  /\ mediaSenderTid = FALSE /\ awaited = FALSE
  /\ objLock = NULL
  /\ handler = "idle"
  /\ timer = "idle" /\ certTimer = FALSE /\ statsTimer = FALSE
  /\ Pool!Init

Start == Create \/ CreateFails \/ InitDone \/ InitTimerFails \/ RunApp
Main == Start \/ PollReap \/ PollReapFails \/ PollFails \/ PollEnds
FreeApp ==
  \/ FreeJoin \/ FreeJoined \/ FreeClient \/ FreeClientFails \/ FreeSession \/ FreeBarrier
  \/ FreeTimers \/ FreeCredential \/ FreeConfig \/ FreeOther \/ FreeReturns
Handler ==
  HandlerLock \/ HandleOther \/ HandlerHangs \/ HandleOffer \/ StoreTid \/ StartStats
Media ==
  \/ \E connected \in BOOLEAN : MediaWait(connected)
  \/ MediaDecide \/ MediaPlayed \/ MediaHangs \/ MediaEnd
Timer == TimerLock \/ TimerGenerate \/ TimerWalk

Next == Main \/ FreeApp \/ SigInt \/ Deliver \/ Handler \/ Media \/ TimerFire \/ Timer

Spec == Init /\ [][Next]_vars

(* Threads run and a mutex is granted to a thread that keeps asking for it.  *)
(* A pipeline that does not hang ends when the application terminates, but   *)
(* if its streaming threads wait for the read lock pollApp has left held.    *)
(* Nothing is assumed of initApp, of viewers, or of a thread that hangs.     *)
FairMain == RunApp \/ FreeApp \/ (objLock = NULL /\ PollEnds)
FairHandler == HandlerLock \/ HandleOther \/ HandleOffer \/ StoreTid \/ StartStats
FairMedia ==
  \/ MediaWait(FALSE) \/ MediaDecide \/ MediaEnd
  \/ ~readLockLeft /\ terminateApp /\ MediaPlayed

FairSpec ==
  Spec /\ SF_vars(FairMain) /\ SF_vars(FairHandler) /\ SF_vars(FairMedia) /\ SF_vars(Timer)

-----------------------------------------------------------------------------
(* Properties                                                                *)

TypeOK ==
  /\ made \in [Things -> {"none", "live", "freed", "leaked", "twice"}]
  /\ main \in {"init", "run", "poll", "abort", "free", "done"}
  /\ at \in 1 .. Len(FreeOrder) + 1
  /\ \A b \in {pAppConfiguration, gAppConfiguration, sigInt, terminateApp, readLockLeft,
               freeWaits, mediaThreadStarted, mediaSenderTid, awaited, certTimer,
               statsTimer} : b \in BOOLEAN
  /\ objLock \in {NULL, "handler", "timer"}
  /\ handler \in {"idle", "message", "locked", "hung", "store", "stats"}
  /\ media \in {"none", "wait", "decide", "play", "hung", "end"}
  /\ timer \in {"idle", "cert", "stats", "generate", "walk"}
  /\ certTimer \/ statsTimer => Live({"timerQueue"})
  /\ Pool!TypeOK

(* Wherever initApp fails, it is cleaned up after once: freeApp frees what   *)
(* has been made, main does not free it again, and no failing step of        *)
(* initApp frees what freeApp will free.                                     *)
FreedOnce == \A r \in Things : made[r] # "twice"

(* When the program ends, of a complete or of a failed start, it has lost    *)
(* nothing that was made, whatever failed on the way and whatever the other  *)
(* threads did, but for these: the media context, if initMediaSource failed  *)
(* (it frees at the wrong address); a client that would not be freed; the    *)
(* session pollApp had in hand when it left with the read lock; and one that *)
(* a handler nobody waited for made after freeApp went by.                   *)
Unwaited == ~freeWaits \/ made["client"] = "leaked"
Forgotten(r) ==
  \/ r = "media" /\ made[r] = "leaked" /\ ~gAppConfiguration
  \/ r = "client" /\ made[r] = "leaked" /\ "free" \in Faults
  \/ r = "session" /\ made[r] = "leaked" /\ readLockLeft
  \/ r = "session" /\ made[r] = "live" /\ Unwaited
NothingLeft ==
  main = "done" => \A r \in Things : made[r] \in {"none", "freed"} \/ Forgotten(r)

(* "terminateApp": after freeApp's join of the media thread no pipeline      *)
(* plays, although a handler may create another media thread at any moment   *)
(* and the join cannot wait for a thread whose id is not stored yet.         *)
PipelineStopped ==
  main \in {"abort", "free"} /\ at > 2 => media \notin {"play", "hung"}

(* The callbacks of the timers never find the configuration, the credential  *)
(* or the certificates freed, though freeApp cancels the timers late; and a  *)
(* handler finds what it uses, if freeSignalingClient waits for handlers.    *)
HandlerUses == {"config", "objLock", "readLock", "sendLock", "msgQ", "hashTable", "credential"}
CallbacksOnLive ==
  /\ timer # "idle" => Live({"config", "credential", "timerQueue"})
  /\ handler # "idle" /\ freeWaits /\ made["client"] # "leaked" => Live(HandlerUses)

(* See CertPool: no certificate serves two peer connections, from the first  *)
(* timer to the end of the application.                                      *)
NoReuse == Pool!NoReuse

(* A signal that was noticed, or an error, ends the program: freeApp waits   *)
(* for the media thread, the handlers, the timers and the lock in an order   *)
(* in which each of them can end, if none of them hangs by itself.           *)
Hung == handler = "hung" \/ media = "hung"
Ends == sigInt \/ terminateApp ~> main = "done" \/ readLockLeft \/ Hung

(* The object lock is not freed under a callback that takes it or holds it.  *)
TimerOnLiveLock == timer # "idle" => Live({"objLock"})

(* "execute this under the object lock due to race conditions": statistics   *)
(* are not taken of a session that has been freed.                           *)
StatsOnLiveSession == timer = "walk" => made["session"] # "freed"

(* The media thread ends before the configuration is freed.                  *)
MediaOnLiveConfig == media # "none" => Live({"config", "objLock"})

(* The signal handler does not store into a configuration that was freed.    *)
SigIntOnLiveConfig == gAppConfiguration /\ main # "done" => Live({"config", "cvar"})

(* A failing initMediaSource frees the context it has made.                  *)
MediaFreed == main = "done" => made["media"] # "leaked"

(* freeApp ends although pollApp has left the read lock held.                *)
EndsAlways == terminateApp ~> main = "done"
=============================================================================
