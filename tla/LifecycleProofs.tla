-------------------------- MODULE LifecycleProofs --------------------------
(***************************************************************************)
(* The life of the application, for any addresses of certificates, any     *)
(* maximum of them and any set of faults.                                  *)
(*                                                                         *)
(* The invariants of the runs say what holds at some place of initApp or   *)
(* of freeApp; Inv adds what is made and what is freed at every place.     *)
(* Made and Past are the things and the steps before the main thread's     *)
(* place, so that a step's argument speaks of sets and not of numbers.     *)
(***************************************************************************)
EXTENDS Lifecycle, TLAPS

PoolProofs == INSTANCE CertPoolProofs WITH
  Faults <- Faults \cap {"create", "enqueue", "peer"},
  pc <- IF made["credential"] = "freed" THEN "end" ELSE "run"

Created == ToSet(InitOrder)
Made == {InitOrder[j] : j \in 1 .. at - 1}
Past == {FreeOrder[j] : j \in 1 .. at - 1}
InFree == main \in {"abort", "free"}

(* What is made and what is freed at a place of the main thread.             *)
Starting ==
  main = "init" =>
    /\ at \in 1 .. Len(InitOrder) + 1
    /\ \A r \in Created : made[r] = IF r \in Made THEN "live" ELSE "none"
    /\ made["client"] = "none" /\ made["session"] = "none"
    /\ pAppConfiguration <=> at > 1
    /\ ~certTimer /\ ~statsTimer /\ timer = "idle"
Running ==
  main \in {"run", "poll"} => Live(Created) /\ pAppConfiguration
Cleaning ==
  InFree =>
    /\ \A r \in Things \ {"session"} : r \in Past => made[r] # "live"
    /\ \A r \in Things \ (Cleared \cup {"session"} \cup Past) : made[r] # "freed"
    /\ "config" \in Past => ~pAppConfiguration
    /\ terminateApp
Ended ==
  main = "done" => \A r \in Things \ {"session"} : made[r] # "live"

(* What a thing needs while it lives.                                        *)
Needs ==
  /\ made["client"] = "live" => Live(Created)
  /\ made["client"] = "none" => made["session"] = "none"
  /\ made["timerQueue"] = "live" => Live({"config", "credential"})
  /\ certTimer \/ statsTimer \/ timer # "idle" => made["timerQueue"] = "live"

(* A handler is one of a client that lives, unless its free does not wait.   *)
Handled ==
  /\ handler # "idle" => made["client"] # "none" /\ (made["client"] = "live" \/ Unwaited)
  /\ (main = "done" \/ (InFree /\ "session" \in Past)) /\ made["session"] = "live" =>
       Unwaited

(* What is leaked, and which failure it takes: initMediaSource's is one of   *)
(* initApp, so that sigIntHandler is not given the configuration.            *)
Lost ==
  /\ main = "init" => ~gAppConfiguration
  /\ \A r \in Things : made[r] = "leaked" =>
       \/ r = "media" /\ ~gAppConfiguration
       \/ r = "client" /\ "free" \in Faults
       \/ r = "session" /\ readLockLeft

(* The object lock, and the id of the media thread, which is stored before   *)
(* the lock is left.                                                         *)
Locked ==
  /\ handler \in {"locked", "hung", "store"} <=> objLock = "handler"
  /\ timer \in {"generate", "walk"} <=> objLock = "timer"
Threads ==
  /\ mediaThreadStarted <=> media # "none"
  /\ media \in {"decide", "play", "hung", "end"} => mediaSenderTid
  /\ media = "wait" => mediaSenderTid \/ handler = "store"
  /\ InFree /\ "join" \in Past /\ media \in {"play", "hung"} => awaited
  /\ PipelineStopped

Order ==
  /\ Starting /\ Running /\ Cleaning /\ Ended
  /\ Needs /\ Handled /\ FreedOnce

Inv == TypeOK /\ NoReuse /\ Order /\ Lost /\ Locked /\ Threads

-----------------------------------------------------------------------------
(* Places                                                                    *)

LEMMA Names ==
  /\ Len(InitOrder) = 11 /\ Len(FreeOrder) = 16
  /\ Created = {"config", "credential", "objLock", "cvar", "readLock", "timerQueue",
                "sendLock", "msgQ", "hashTable", "media", "webrtc"}
  /\ Things = Created \cup {"client", "session"}
BY DEF Created, Things, InitOrder, FreeOrder, ToSet

(* initApp creates each thing once; after the last one all are made.         *)
LEMMA InitPlaces ==
  ASSUME at \in 1 .. Len(InitOrder) + 1
  PROVE  /\ at = 1 => Made = {}
         /\ at > Len(InitOrder) => Created \subseteq Made
         /\ at <= Len(InitOrder) => InitOrder[at] \in Created \ Made
         /\ at <= Len(InitOrder) /\ at' = at + 1 => Made' = Made \cup {InitOrder[at]}
         /\ at <= Len(InitOrder) /\ InitOrder[at] = "timerQueue" =>
              {"config", "credential"} \subseteq Made
<1> USE Names
<1>1. \A i, j \in 1 .. 11 : InitOrder[i] = InitOrder[j] => i = j
  BY DEF InitOrder
<1>2. at = 1 => Made = {}
  BY DEF Made
<1>3. at > Len(InitOrder) => Created \subseteq Made
  BY DEF Made, Created, InitOrder, ToSet
<1>4. at <= Len(InitOrder) => InitOrder[at] \in Created
  BY DEF Created, ToSet, InitOrder
<1>5. at <= Len(InitOrder) => InitOrder[at] \notin Made
  BY <1>1 DEF Made
<1>6. at <= Len(InitOrder) /\ at' = at + 1 => Made' = Made \cup {InitOrder[at]}
  BY DEF Made
<1>7. at <= Len(InitOrder) /\ InitOrder[at] = "timerQueue" =>
        {"config", "credential"} \subseteq Made
  <2>1. InitOrder[1] = "config" /\ InitOrder[2] = "credential" /\ InitOrder[6] = "timerQueue"
    BY DEF InitOrder
  <2>2. at <= Len(InitOrder) /\ InitOrder[at] = "timerQueue" => at = 6
    BY <1>1, <2>1
  <2> QED BY <2>1, <2>2 DEF Made
<1> QED BY <1>2, <1>3, <1>4, <1>5, <1>6, <1>7

(* freeApp takes each step once, and in an order that frees nothing before   *)
(* what needs it.                                                            *)
LEMMA FreePlaces ==
  ASSUME TypeOK, NEW step, Freeing(step)
  PROVE  /\ InFree /\ InFree' /\ main' = main
         /\ at \in 1 .. 16 /\ at' = at + 1
         /\ step \notin Past /\ Past' = Past \cup {step}
         /\ step = "join" => at = 1
         /\ step = "joined" => "join" \in Past
         /\ step \notin {"join", "joined"} => at > 2
         /\ step \in Created => "client" \in Past
         /\ step = "credential" => "timerQueue" \in Past
         /\ step = "config" => {"timerQueue", "credential"} \subseteq Past
<1> USE Names
<1>1. at \in 1 .. 16 /\ FreeOrder[at] = step /\ at' = at + 1 /\ main' = main
  BY DEF Freeing, TypeOK
<1>2. \A i, j \in 1 .. 16 : FreeOrder[i] = FreeOrder[j] => i = j
  BY DEF FreeOrder
<1>3. step \notin Past
  BY <1>1, <1>2 DEF Past
<1>4. Past' = Past \cup {step}
  BY <1>1 DEF Past
<1>5. /\ FreeOrder[1] = "join" /\ FreeOrder[2] = "joined" /\ FreeOrder[3] = "client"
      /\ FreeOrder[14] = "timerQueue" /\ FreeOrder[15] = "credential"
      /\ FreeOrder[16] = "config"
  BY DEF FreeOrder
<1>6. \A i \in 1 .. at - 1 : FreeOrder[i] \in Past
  BY DEF Past
<1>7. step \in Created => at > 3
  BY <1>1, <1>5
<1>8. step = "joined" => "join" \in Past
  BY <1>1, <1>2, <1>5, <1>6
<1>9. step = "credential" => "timerQueue" \in Past
  BY <1>1, <1>2, <1>5, <1>6
<1>10. step = "config" => {"timerQueue", "credential"} \subseteq Past
  BY <1>1, <1>2, <1>5, <1>6
<1>11. step \in Created => "client" \in Past
  BY <1>1, <1>5, <1>6, <1>7
<1> QED
  BY <1>1, <1>2, <1>3, <1>4, <1>5, <1>8, <1>9, <1>10, <1>11 DEF InFree, Freeing

(* Where freeApp begins nothing is past, where it returns everything is.     *)
LEMMA FreeEnds ==
  ASSUME TypeOK
  PROVE  /\ at = 1 => Past = {}
         /\ at' = 1 => Past' = {}
         /\ at > Len(FreeOrder) => Things \subseteq Past
         /\ "session" \in Past => "client" \in Past
<1> USE Names
<1>1. Things \subseteq {FreeOrder[j] : j \in 1 .. 16}
  BY DEF FreeOrder
<1>2. at > Len(FreeOrder) => at = 17
  BY DEF TypeOK
<1>3. "session" \in Past => "client" \in Past
  <2>1. FreeOrder[3] = "client" /\ \A j \in 1 .. 2 : FreeOrder[j] # "session"
    BY DEF FreeOrder
  <2>2. at \in Nat
    BY DEF TypeOK
  <2> QED BY <2>1, <2>2 DEF Past
<1> QED BY <1>1, <1>2, <1>3 DEF Past

-----------------------------------------------------------------------------
(* The certificates: every step leaves them alone or is one of the pool's.   *)

PoolInv == Pool!TypeOK /\ Pool!NoReuse

LEMMA PoolSame == PoolInv /\ UNCHANGED certs => PoolInv'
BY DEF PoolInv, Pool!TypeOK, Pool!NoReuse, Pool!Queued, certs

(* Pool and PoolProofs are two copies of CertPool.                           *)
LEMMA Copies ==
  /\ Pool!Queued = PoolProofs!Queued
  /\ PoolInv <=> PoolProofs!Inv
<1> USE DEF Pool!Queued, PoolProofs!Queued, Pool!ToSet, PoolProofs!ToSet
<1>1. Pool!NoReuse <=> PoolProofs!NoReuse
  BY DEF Pool!NoReuse, PoolProofs!NoReuse, Pool!IsInjective, PoolProofs!IsInjective
<1>2. Pool!TypeOK <=> PoolProofs!TypeOK
  BY DEF Pool!TypeOK, PoolProofs!TypeOK
<1> QED BY <1>1, <1>2 DEF PoolInv, PoolProofs!Inv

LEMMA CopiesNext == PoolInv' <=> PoolProofs!Inv'
BY Copies, PTL

LEMMA PoolSteps ==
  ASSUME PoolInv, Pool!GenerateCert \/ Pool!ConfigurePeer \/ Pool!Destroy
  PROVE  PoolInv'
<1>1. PoolProofs!GenerateCert \/ PoolProofs!ConfigurePeer \/ PoolProofs!Destroy
  BY Copies
  DEF Pool!GenerateCert, Pool!ConfigurePeer, Pool!Destroy, Pool!NotEnough, Pool!PopCert,
      PoolProofs!GenerateCert, PoolProofs!ConfigurePeer, PoolProofs!Destroy,
      PoolProofs!NotEnough, PoolProofs!PopCert
<1>2. PoolProofs!Inv'
  BY <1>1, Copies, LifecycleAssumption, PoolProofs!Generated, PoolProofs!Configured,
     PoolProofs!Destroyed
<1> QED BY <1>2, CopiesNext

LEMMA PoolNext ==
  ASSUME PoolInv, [Next]_vars
  PROVE  PoolInv'
<1>1. ASSUME Main \/ SigInt
      PROVE  UNCHANGED certs
  BY <1>1 DEF Main, Start, Create, CreateFails, InitDone, InitTimerFails, RunApp, PollReap,
              PollReapFails, PollFails, PollEnds, SigInt
<1>2. ASSUME FreeApp, ~Pool!Destroy
      PROVE  UNCHANGED certs
  BY <1>2 DEF FreeApp, FreeJoin, FreeJoined, FreeClient, FreeClientFails, FreeSession,
              FreeBarrier, FreeTimers, FreeCredential, FreeConfig, FreeOther, FreeReturns
<1>3. ASSUME Deliver \/ Handler, ~Pool!ConfigurePeer
      PROVE  UNCHANGED certs
  BY <1>3 DEF Deliver, Handler, HandlerLock, HandleOther, HandlerHangs, HandleOffer, StoreTid, StartStats
<1>4. ASSUME Media
      PROVE  UNCHANGED certs
  BY <1>4 DEF Media, MediaWait, MediaDecide, MediaPlayed, MediaHangs, MediaEnd
<1>5. ASSUME TimerFire \/ Timer, ~Pool!GenerateCert
      PROVE  UNCHANGED certs
  BY <1>5 DEF TimerFire, Timer, TimerLock, TimerGenerate, TimerWalk, Pool!GenerateCertFails,
              Pool!vars, certs
<1>6. CASE UNCHANGED vars
  BY <1>6, PoolSame DEF vars
<1> QED BY <1>1, <1>2, <1>3, <1>4, <1>5, <1>6, PoolSame, PoolSteps DEF Next

-----------------------------------------------------------------------------
(* Types                                                                     *)

(* freeApp makes of a thing what its free makes of it.                       *)
LEMMA FreedMade ==
  ASSUME TypeOK, NEW r \in Things \ {"session"}, made' = Freed(r)
  PROVE  /\ made' \in [Things -> {"none", "live", "freed", "leaked", "twice"}]
         /\ \A q \in Things : q # r => made'[q] = made[q]
         /\ made[r] = "live" => made'[r] = "freed"
         /\ made[r] # "live" => made'[r] \in {made[r], "twice"}
         /\ made[r] # "live" /\ (r \in Cleared \/ made[r] # "freed") => made'[r] = made[r]
BY DEF TypeOK, Freed

LEMMA TypeStart ==
  ASSUME TypeOK, Pool!TypeOK', Starting, Main \/ SigInt
  PROVE  TypeOK'
<1> USE Names DEF TypeOK, flags, thread, timers, EnterFree, MainStep, Poll, Live
<1>1. CASE Create
  BY <1>1, InitPlaces DEF Create, Starting
<1>2. CASE CreateFails
  <2>1. /\ made' \in [Things -> {"none", "live", "freed", "leaked", "twice"}]
        /\ ~certTimer' /\ ~statsTimer'
    BY <1>2, InitPlaces DEF CreateFails, Starting, AfterFailure
  <2>2. at' \in 1 .. 17 /\ main' \in {"abort", "done"}
    BY <1>2 DEF CreateFails
  <2>3. pAppConfiguration' \in BOOLEAN /\ terminateApp' \in BOOLEAN
    BY <1>2 DEF CreateFails
  <2> QED BY <1>2, <2>1, <2>2, <2>3 DEF CreateFails
<1>3. CASE InitDone
  BY <1>3, InitPlaces DEF InitDone, Starting
<1>4. CASE InitTimerFails
  BY <1>4 DEF InitTimerFails
<1>5. CASE RunApp
  BY <1>5 DEF RunApp
<1>6. CASE PollReap
  BY <1>6 DEF PollReap
<1>7. CASE PollReapFails
  BY <1>7 DEF PollReapFails
<1>8. CASE PollFails
  BY <1>8 DEF PollFails
<1>9. CASE PollEnds
  BY <1>9 DEF PollEnds
<1>10. CASE SigInt
  BY <1>10 DEF SigInt
<1> QED
  BY <1>1, <1>2, <1>3, <1>4, <1>5, <1>6, <1>7, <1>8, <1>9, <1>10 DEF Main, Start

LEMMA TypeFree ==
  ASSUME TypeOK, Pool!TypeOK', FreeApp
  PROVE  TypeOK'
<1> USE Names DEF TypeOK, flags, thread, timers, Live
<1>1. ASSUME NEW r, Freeing(r)
      PROVE  at' \in 1 .. 17 /\ main' \in {"abort", "free"}
  BY <1>1 DEF Freeing
<1>2. CASE FreeJoin
  BY <1>1, <1>2 DEF FreeJoin
<1>3. CASE FreeJoined
  BY <1>1, <1>3 DEF FreeJoined
<1>4. CASE FreeClient
  BY <1>1, <1>4, FreedMade DEF FreeClient
<1>5. CASE FreeClientFails
  BY <1>1, <1>5 DEF FreeClientFails
<1>6. CASE FreeSession
  BY <1>1, <1>6 DEF FreeSession
<1>7. CASE FreeBarrier
  BY <1>1, <1>7 DEF FreeBarrier
<1>8. CASE FreeTimers
  <2>1. "timerQueue" \in Things \ {"session"}
    OBVIOUS
  <2>2. made' \in [Things -> {"none", "live", "freed", "leaked", "twice"}]
    BY <1>8, <2>1, FreedMade DEF FreeTimers
  <2>3. ~certTimer' /\ ~statsTimer' /\ certTimer' \in BOOLEAN /\ statsTimer' \in BOOLEAN
    BY <1>8 DEF FreeTimers, CancelTimers
  <2>4. at' \in 1 .. 17 /\ main' \in {"abort", "free"}
    BY <1>1, <1>8 DEF FreeTimers
  <2> QED BY <1>8, <2>2, <2>3, <2>4 DEF FreeTimers
<1>9. CASE FreeCredential
  BY <1>1, <1>9, FreedMade DEF FreeCredential
<1>10. CASE FreeConfig
  <2>1. "config" \in Things \ {"session"}
    OBVIOUS
  <2>2. /\ made' \in [Things -> {"none", "live", "freed", "leaked", "twice"}]
        /\ made'["timerQueue"] = made["timerQueue"]
    BY <1>10, <2>1, FreedMade DEF FreeConfig
  <2>3. pAppConfiguration' \in BOOLEAN
    BY <1>10 DEF FreeConfig, ClearPointer
  <2>4. at' \in 1 .. 17 /\ main' \in {"abort", "free"}
    BY <1>1, <1>10 DEF FreeConfig
  <2> QED BY <1>10, <2>2, <2>3, <2>4 DEF FreeConfig
<1>11. CASE FreeOther
  BY <1>1, <1>11, FreedMade DEF FreeOther
<1>12. CASE FreeReturns
  BY <1>12 DEF FreeReturns
<1> QED
  BY <1>2, <1>3, <1>4, <1>5, <1>6, <1>7, <1>8, <1>9, <1>10, <1>11, <1>12 DEF FreeApp

LEMMA TypeThreads ==
  ASSUME TypeOK, Pool!TypeOK', Deliver \/ Handler \/ Media \/ TimerFire \/ Timer
  PROVE  TypeOK'
<1> USE Names DEF TypeOK, flags, thread, timers, Live, HandlerStep, MediaStep, Take, Leave
<1>1. CASE Deliver
  BY <1>1 DEF Deliver
<1>2. CASE HandlerLock \/ HandleOther \/ HandlerHangs
  BY <1>2 DEF HandlerLock, HandleOther, HandlerHangs
<1>3. CASE HandleOffer
  BY <1>3 DEF HandleOffer
<1>4. CASE StoreTid
  BY <1>4 DEF StoreTid
<1>5. CASE StartStats
  BY <1>5 DEF StartStats
<1>6. CASE (\E connected \in BOOLEAN : MediaWait(connected)) \/ MediaDecide \/ MediaPlayed
           \/ MediaHangs
  BY <1>6 DEF MediaWait, MediaDecide, MediaPlayed, MediaHangs
<1>9. CASE MediaEnd
  BY <1>9 DEF MediaEnd
<1>7. CASE TimerFire
  BY <1>7 DEF TimerFire
<1>8. CASE Timer
  BY <1>8 DEF Timer, TimerLock, TimerGenerate, TimerWalk
<1> QED BY <1>1, <1>2, <1>3, <1>4, <1>5, <1>6, <1>7, <1>8, <1>9 DEF Handler, Media

-----------------------------------------------------------------------------
(* The object lock and the media thread                                      *)

(* A thread enters what it does under the object lock with it, and leaves    *)
(* both at once.                                                             *)
LEMMA LockedNext ==
  ASSUME TypeOK, Locked, [Next]_vars
  PROVE  Locked'
<1> USE LifecycleAssumption DEF Locked
<1>1. CASE UNCHANGED <<objLock, handler, timer>>
  BY <1>1
<1>2. ASSUME Main \/ SigInt \/ FreeApp \/ Media \/ UNCHANGED vars
      PROVE  UNCHANGED <<objLock, handler, timer>>
  <2>1. CASE Main \/ SigInt
    BY <2>1 DEF Main, Start, Create, CreateFails, InitDone, InitTimerFails, RunApp, PollReap,
                PollReapFails, PollFails, PollEnds, SigInt, timers
  <2>2. CASE FreeApp
    BY <2>2 DEF FreeApp, FreeJoin, FreeJoined, FreeClient, FreeClientFails, FreeSession,
                FreeBarrier, FreeTimers, FreeCredential, FreeConfig, FreeOther, FreeReturns,
                timers
  <2>3. CASE Media
    BY <2>3 DEF Media, MediaWait, MediaDecide, MediaPlayed, MediaHangs, MediaEnd, timers
  <2> QED BY <1>2, <2>1, <2>2, <2>3 DEF vars, timers
<1>3. CASE Deliver \/ Handler
  BY <1>3 DEF Deliver, Handler, HandlerLock, HandleOther, HandlerHangs, HandleOffer, StoreTid, StartStats,
              HandlerStep, Take, Leave, timers, TypeOK
<1>4. CASE TimerFire \/ Timer
  BY <1>4 DEF TimerFire, Timer, TimerLock, TimerGenerate, TimerWalk, Take, Leave, TypeOK
<1> QED BY <1>1, <1>2, <1>3, <1>4 DEF Next

(* A pipeline that plays when freeApp comes to its join belongs to a thread  *)
(* whose id is stored, so that the join waits for it; the others find        *)
(* terminateApp before they play.                                            *)
LEMMA ThreadsNext ==
  ASSUME TypeOK, Locked, Cleaning, Threads, [Next]_vars
  PROVE  Threads'
<1> USE DEF Threads, PipelineStopped, InFree
<1>1. CASE Main \/ SigInt
  <2>1. UNCHANGED <<thread, handler>>
    BY <1>1 DEF Main, Start, Create, CreateFails, InitDone, InitTimerFails, RunApp, PollReap,
                PollReapFails, PollFails, PollEnds, SigInt
  <2>2. ~InFree' \/ at' = 1 \/ UNCHANGED <<main, at>>
    BY <1>1 DEF Main, Start, Create, CreateFails, InitDone, InitTimerFails, RunApp, PollReap,
                PollReapFails, PollFails, PollEnds, SigInt, EnterFree, MainStep, Poll
  <2> QED BY <2>1, <2>2, FreeEnds DEF thread, Past
<1>2. CASE FreeJoin
  BY <1>2, FreePlaces DEF FreeJoin
<1>3. CASE FreeJoined
  BY <1>3, FreePlaces DEF FreeJoined, thread
<1>4. ASSUME NEW r, r \notin {"join", "joined"}, Freeing(r), UNCHANGED <<thread, handler>>
      PROVE  Threads'
  BY <1>4, FreePlaces DEF thread
<1>5. CASE FreeClient \/ FreeClientFails \/ FreeSession \/ FreeBarrier \/ FreeTimers
           \/ FreeCredential \/ FreeConfig \/ FreeOther
  BY <1>4, <1>5 DEF FreeClient, FreeClientFails, FreeSession, FreeBarrier, FreeTimers,
                    FreeCredential, FreeConfig, FreeOther, thread
<1>6. CASE FreeReturns
  BY <1>6, FreeEnds DEF FreeReturns, thread
<1>7. CASE UNCHANGED <<main, at, thread, handler>>
  BY <1>7 DEF thread, Past
<1>8. CASE Deliver \/ Handler
  <2>1. UNCHANGED <<main, at>> /\ Past' = Past
    BY <1>8 DEF Deliver, Handler, HandlerLock, HandleOther, HandlerHangs, HandleOffer, StoreTid, StartStats,
                Past
  <2>2. CASE Deliver \/ HandlerLock \/ HandleOther \/ HandlerHangs \/ StartStats
    BY <2>1, <2>2 DEF Deliver, HandlerLock, HandleOther, HandlerHangs, StartStats,
                      HandlerStep, thread, timers
  <2>3. CASE HandleOffer
    BY <2>1, <2>3 DEF HandleOffer, HandlerStep
  <2>4. CASE StoreTid
    BY <2>1, <2>4 DEF StoreTid, HandlerStep
  <2> QED BY <1>8, <2>2, <2>3, <2>4 DEF Handler
<1>9. CASE Media
  <2>1. UNCHANGED <<main, at, handler>> /\ Past' = Past
    BY <1>9 DEF Media, MediaWait, MediaDecide, MediaPlayed, MediaHangs, MediaEnd, Past
  <2>2. CASE \E connected \in BOOLEAN : MediaWait(connected)
    BY <2>1, <2>2, LifecycleAssumption DEF MediaWait, MediaStep, LockFree, Locked
  <2>3. CASE MediaDecide
    BY <2>1, <2>3 DEF MediaDecide, MediaStep, Cleaning
  <2>4. CASE MediaPlayed \/ MediaHangs
    BY <2>1, <2>4 DEF MediaPlayed, MediaHangs, MediaStep
  <2>5. CASE MediaEnd
    BY <2>1, <2>5 DEF MediaEnd, MediaStep
  <2> QED BY <1>9, <2>2, <2>3, <2>4, <2>5 DEF Media
<1>10. ASSUME TimerFire \/ Timer \/ UNCHANGED vars
       PROVE  UNCHANGED <<main, at, thread, handler>>
  BY <1>10 DEF TimerFire, Timer, TimerLock, TimerGenerate, TimerWalk, vars
<1> QED
  BY <1>1, <1>2, <1>3, <1>5, <1>6, <1>7, <1>8, <1>9, <1>10 DEF Next, FreeApp

-----------------------------------------------------------------------------
(* What is made and what is freed                                            *)

(* initApp makes one thing after another, or cleans up.                      *)
LEMMA OrderStart ==
  ASSUME TypeOK, Order, Start
  PROVE  Order'
<1> USE Names DEF Order, Starting, Running, Cleaning, Ended, Needs, Handled, FreedOnce, InFree,
                  Live, Unwaited, TypeOK, MainStep, timers, flags
<1> HIDE DEF Pool!TypeOK
<1>1. CASE Create
  <2> DEFINE x == InitOrder[at]
  <2>1. /\ x \in Created \ Made /\ Made' = Made \cup {x}
        /\ x = "timerQueue" => {"config", "credential"} \subseteq Made
    BY <1>1, InitPlaces DEF Create
  <2>2. made' = [made EXCEPT ![x] = "live"] /\ main' = "init" /\ at' = at + 1
    BY <1>1 DEF Create
  <2> HIDE DEF x
  <2>3. Starting'
    BY <1>1, <2>1, <2>2 DEF Create
  <2>4. Needs'
    BY <1>1, <2>1, <2>2 DEF Create
  <2>5. Handled' /\ FreedOnce'
    BY <1>1, <2>1, <2>2 DEF Create
  <2> QED BY <2>2, <2>3, <2>4, <2>5
<1>2. CASE CreateFails
  <2> DEFINE x == InitOrder[at]
  <2>1. x \in Created \ Made
    BY <1>2, InitPlaces DEF CreateFails
  <2>2. PICK state \in {"none", "freed", "leaked"} :
          /\ made' = [made EXCEPT ![x] = state]
          /\ state = "freed" => x = "credential"
    <3>1. PICK state \in AfterFailure(x) : made' = [made EXCEPT ![x] = state]
      BY <1>2, Zenon DEF CreateFails
    <3>2. state \in {"none", "freed", "leaked"} /\ (state = "freed" => x = "credential")
      BY <3>1 DEF AfterFailure
    <3> QED BY <3>1, <3>2
  <2> HIDE DEF x
  <2>3. FreedOnce' /\ Handled' /\ Needs'
    BY <1>2, <2>1, <2>2 DEF CreateFails, EnterFree
  <2>4. CASE pAppConfiguration
    BY <1>2, <2>1, <2>2, <2>3, <2>4, FreeEnds DEF CreateFails, EnterFree, Cleared
  <2>5. CASE ~pAppConfiguration
    <3>1. Made = {}
      BY <1>2, <2>5, InitPlaces DEF CreateFails
    <3> QED BY <1>2, <2>1, <2>2, <2>3, <2>5, <3>1 DEF CreateFails
  <2> QED BY <2>4, <2>5
<1>3. CASE InitDone
  BY <1>3, InitPlaces DEF InitDone
<1>4. CASE InitTimerFails
  BY <1>4, InitPlaces, FreeEnds DEF InitTimerFails
<1>5. CASE RunApp
  BY <1>5 DEF RunApp
<1> QED BY <1>1, <1>2, <1>3, <1>4, <1>5 DEF Start

(* pollApp makes nothing; where it ends freeApp begins.                      *)
LEMMA OrderPoll ==
  ASSUME TypeOK, Order, PollReap \/ PollReapFails \/ PollFails \/ PollEnds \/ SigInt
  PROVE  Order'
<1> USE Names DEF Order, Starting, Running, Cleaning, Ended, Needs, Handled, FreedOnce, InFree,
                  Live, Unwaited, TypeOK, MainStep, EnterFree, Poll, timers, flags
<1> HIDE DEF Pool!TypeOK
<1>1. CASE PollReap
  BY <1>1 DEF PollReap
<1>2. ASSUME main = "poll", EnterFree("poll", "free"),
             made' = made \/ made' = [made EXCEPT !["session"] = "leaked"],
             made["client"] = "none" => made' = made, UNCHANGED <<handler, timers>>
      PROVE  Order'
  <2>1. Past' = {} /\ main' = "free" /\ terminateApp' /\ UNCHANGED freeWaits
    BY <1>2, FreeEnds
  <2>2. \A r \in Created \cup {"client"} : made'[r] = made[r]
    BY <1>2
  <2>3. Starting' /\ Running' /\ Ended' /\ Cleaning'
    BY <1>2, <2>1, <2>2 DEF Cleared
  <2>4. Needs' /\ FreedOnce'
    BY <1>2, <2>1, <2>2
  <2>5. Handled'
    BY <1>2, <2>1, <2>2
  <2> QED BY <2>3, <2>4, <2>5
<1>3. CASE PollReapFails
  BY <1>2, <1>3 DEF PollReapFails
<1>4. CASE PollFails \/ PollEnds
  BY <1>2, <1>4 DEF PollFails, PollEnds
<1>5. CASE SigInt
  BY <1>5 DEF SigInt, Made, Past
<1> QED BY <1>1, <1>2, <1>3, <1>4, <1>5

(* freeApp frees a thing, in its place.                                      *)
LEMMA OrderFreed ==
  ASSUME TypeOK, Order, NEW r \in Created \cup {"client"}, Freeing(r), made' = Freed(r),
         r = "client" /\ freeWaits => handler = "idle",
         UNCHANGED <<handler, freeWaits, terminateApp>>,
         IF r = "config" THEN ~pAppConfiguration' ELSE UNCHANGED pAppConfiguration,
         IF r = "timerQueue" THEN ~certTimer' /\ ~statsTimer' /\ timer' = "idle"
         ELSE UNCHANGED timers
  PROVE  Order'
<1> USE Names
<1>1. /\ InFree /\ main' = main /\ r \notin Past /\ Past' = Past \cup {r}
      /\ r \in Created => "client" \in Past
      /\ r = "credential" => "timerQueue" \in Past
      /\ r = "config" => {"timerQueue", "credential"} \subseteq Past
  BY FreePlaces
<1>2. /\ \A q \in Things : q # r => made'[q] = made[q]
      /\ made'[r] # "live" /\ (made'[r] # "none" \/ made[r] = "none")
      /\ made[r] # "live" => made'[r] = made[r]
      /\ made[r] = "live" => made'[r] = "freed"
  <2>1. r \in Cleared \/ made[r] # "freed"
    BY <1>1 DEF Order, Cleaning
  <2>2. made[r] \in {"none", "live", "freed", "leaked"}
    BY DEF Order, FreedOnce, TypeOK
  <2> QED BY <2>1, <2>2, FreedMade
<1> HIDE DEF Freed
<1>3. Starting' /\ Running' /\ Ended'
  BY <1>1 DEF Starting, Running, Ended, InFree
<1>4. Cleaning'
  BY <1>1, <1>2 DEF Order, Cleaning, InFree
<1>5. FreedOnce'
  BY <1>2 DEF Order, FreedOnce
<1>6. Needs'
  <2>1. made'["client"] = "live" => Live(Created)'
    BY <1>1, <1>2 DEF Order, Needs, Cleaning, Live
  <2>2. made'["client"] = "none" => made'["session"] = "none"
    BY <1>2 DEF Order, Needs
  <2>3. made'["timerQueue"] = "live" => Live({"config", "credential"})'
    BY <1>1, <1>2 DEF Order, Needs, Cleaning, Live
  <2>4. certTimer' \/ statsTimer' \/ timer' # "idle" => made'["timerQueue"] = "live"
    BY <1>1, <1>2 DEF Order, Needs, timers
  <2> QED BY <2>1, <2>2, <2>3, <2>4 DEF Needs
<1>7. Handled'
  BY <1>1, <1>2 DEF Order, Handled, Unwaited, Needs, InFree
<1> QED BY <1>3, <1>4, <1>5, <1>6, <1>7 DEF Order

(* A step of freeApp frees a thing in its place, or none.                    *)
LEMMA OrderFree ==
  ASSUME TypeOK, Order, FreeApp
  PROVE  Order'
<1> USE Names
<1>1. ASSUME NEW r, Freeing(r), r \notin Created \cup {"client"},
             UNCHANGED <<handler, timers, pAppConfiguration, terminateApp, freeWaits>>,
             made' = IF r = "session" /\ made["session"] = "live"
                     THEN [made EXCEPT !["session"] = "freed"] ELSE made
      PROVE  Order'
  <2>1. /\ InFree /\ main' = main /\ r \notin Past /\ Past' = Past \cup {r}
    BY <1>1, FreePlaces
  <2>2. /\ \A q \in Things \ {"session"} : made'[q] = made[q]
        /\ made'["session"] \in {made["session"], "freed"}
        /\ made["session"] # "live" => made'["session"] = made["session"]
        /\ r = "session" => made'["session"] # "live"
    BY <1>1 DEF TypeOK
  <2>3. Starting' /\ Running' /\ Ended'
    BY <2>1 DEF Starting, Running, Ended, InFree
  <2>4. Cleaning'
    BY <1>1, <2>1, <2>2 DEF Order, Cleaning, InFree
  <2>5. Needs' /\ FreedOnce'
    BY <1>1, <2>2 DEF Order, Needs, FreedOnce, Live, timers
  <2>6. Handled'
    BY <1>1, <2>1, <2>2 DEF Order, Handled, Unwaited, InFree
  <2> QED BY <2>3, <2>4, <2>5, <2>6 DEF Order
<1>2. CASE FreeJoin
  BY <1>1, <1>2 DEF FreeJoin, flags
<1>3. CASE FreeJoined \/ FreeBarrier
  BY <1>1, <1>3 DEF FreeJoined, FreeBarrier, flags
<1>11. CASE FreeSession
  BY <1>1, <1>11 DEF FreeSession, flags
<1>4. CASE FreeClient
  BY <1>4, OrderFreed DEF FreeClient, flags
<1>5. CASE FreeClientFails
  <2>1. /\ InFree /\ main' = main /\ Past' = Past \cup {"client"}
    BY <1>5, FreePlaces DEF FreeClientFails
  <2> QED
    BY <1>5, <2>1 DEF FreeClientFails, Order, Starting, Running, Cleaning, Ended, Needs,
       Handled, FreedOnce, InFree, Live, Unwaited, timers, flags, TypeOK
<1>6. CASE FreeTimers
  BY <1>6, OrderFreed DEF FreeTimers, CancelTimers, flags
<1>7. CASE FreeCredential
  BY <1>7, OrderFreed DEF FreeCredential, flags
<1>8. CASE FreeConfig
  BY <1>8, OrderFreed DEF FreeConfig, ClearPointer
<1>9. CASE FreeOther
  BY <1>9, OrderFreed DEF FreeOther, flags
<1>10. CASE FreeReturns
  <2>1. UNCHANGED <<made, handler, timers, flags>>
    BY <1>10 DEF FreeReturns
  <2>2. InFree /\ Things \subseteq Past /\ ~pAppConfiguration /\ main' = "done"
    BY <1>10, FreeEnds DEF FreeReturns, InFree, Order, Cleaning
  <2> QED
    BY <2>1, <2>2 DEF Order, Starting, Running, Cleaning, Ended, Needs, Handled, FreedOnce,
       InFree, Live, Unwaited, timers, flags
<1> QED
  BY <1>2, <1>3, <1>4, <1>5, <1>6, <1>7, <1>8, <1>9, <1>10, <1>11 DEF FreeApp

(* The other threads make nothing but sessions, and arm timers only while    *)
(* their queue lives.                                                        *)
LEMMA OrderThreads ==
  ASSUME TypeOK, Locked, Order, Deliver \/ Handler \/ Media \/ TimerFire \/ Timer
  PROVE  Order'
<1> USE Names
<1>1. UNCHANGED <<main, at, flags>> /\ Past' = Past /\ Made' = Made
  BY DEF Deliver, Handler, HandlerLock, HandleOther, HandlerHangs, HandleOffer, StoreTid, StartStats, Media,
         MediaWait, MediaDecide, MediaPlayed, MediaHangs, MediaEnd, TimerFire, Timer, TimerLock,
         TimerGenerate, TimerWalk, Past, Made
<1> USE <1>1 DEF flags
<1>2. ASSUME UNCHANGED <<made, handler>>,
             certTimer' \/ statsTimer' \/ timer' # "idle" =>
               certTimer \/ statsTimer \/ timer # "idle"
      PROVE  Order'
  BY <1>2 DEF Order, Starting, Running, Cleaning, Ended, Needs, Handled, FreedOnce, InFree,
              Live, Unwaited, TypeOK
<1>3. CASE Media
  BY <1>2, <1>3 DEF Media, MediaWait, MediaDecide, MediaPlayed, MediaHangs, MediaEnd, timers
<1>4. CASE TimerFire \/ Timer
  BY <1>2, <1>4 DEF TimerFire, Timer, TimerLock, TimerGenerate, TimerWalk
<1>5. ASSUME UNCHANGED <<made, timers>>,
             handler' # "idle" => handler # "idle" \/ made["client"] \in {"live", "leaked"}
      PROVE  Order'
  BY <1>5 DEF Order, Starting, Running, Cleaning, Ended, Needs, Handled, FreedOnce, InFree,
              Live, Unwaited, timers
<1>6. CASE Deliver
  BY <1>5, <1>6 DEF Deliver, HandlerStep
<1>7. CASE HandlerLock \/ HandleOther \/ HandlerHangs \/ StoreTid
  BY <1>5, <1>7 DEF HandlerLock, HandleOther, HandlerHangs, StoreTid, HandlerStep
<1>8. CASE HandleOffer
  <2>1. /\ handler # "idle" /\ handler' # "idle" /\ UNCHANGED timers
        /\ made' = [made EXCEPT !["session"] = "live"]
    BY <1>8 DEF HandleOffer, HandlerStep
  <2>2. \A q \in Things \ {"session"} : made'[q] = made[q]
    BY <2>1 DEF TypeOK
  <2>3. made'["session"] = "live" /\ made["client"] # "none"
    BY <2>1 DEF TypeOK, Order, Handled
  <2>4. Starting' /\ Running' /\ Ended' /\ Cleaning'
    BY <2>1, <2>2, <2>3 DEF Order, Starting, Running, Ended, Cleaning, InFree, Live
  <2>5. Needs' /\ FreedOnce'
    BY <2>1, <2>2, <2>3 DEF Order, Needs, FreedOnce, Live, timers
  <2>6. Handled'
    BY <2>1, <2>2, <2>3, FreeEnds DEF Order, Ended, Cleaning, Handled, Unwaited, InFree
  <2> QED BY <2>4, <2>5, <2>6 DEF Order
<1>9. CASE StartStats
  BY <1>9 DEF StartStats, HandlerStep, Order, Starting, Running, Cleaning, Ended, Needs,
              Handled, FreedOnce, InFree, Live, Unwaited, TypeOK
<1> QED BY <1>3, <1>4, <1>6, <1>7, <1>8, <1>9 DEF Handler

-----------------------------------------------------------------------------
(* What is leaked                                                            *)

LEMMA LostNext ==
  ASSUME TypeOK, Starting, Lost, [Next]_vars
  PROVE  Lost'
<1> USE Names DEF Lost
<1>1. ASSUME \A r \in Things : made'[r] = "leaked" => made[r] = "leaked",
             UNCHANGED <<gAppConfiguration, readLockLeft>>, main' = "init" => main = "init"
      PROVE  Lost'
  BY <1>1
<1>2. CASE Create
  BY <1>1, <1>2 DEF Create, TypeOK
<1>3. CASE CreateFails
  <2>1. main' # "init" /\ UNCHANGED <<gAppConfiguration, readLockLeft>> /\ ~gAppConfiguration
    BY <1>3 DEF CreateFails, EnterFree, MainStep
  <2>2. PICK state \in AfterFailure(InitOrder[at]) :
          made' = [made EXCEPT ![InitOrder[at]] = state]
    BY <1>3, Zenon DEF CreateFails
  <2>3. \A r \in Things : made'[r] = "leaked" => made[r] = "leaked" \/ r = "media"
    BY <2>2 DEF AfterFailure, TypeOK
  <2> QED BY <2>1, <2>3
<1>4. CASE InitDone \/ InitTimerFails
  <2>1. /\ \A r \in Things : made[r] # "leaked"
        /\ UNCHANGED made /\ main' # "init"
    BY <1>4 DEF InitDone, InitTimerFails, MainStep, Starting
  <2> QED BY <2>1
<1>5. CASE RunApp \/ PollReap
  BY <1>1, <1>5 DEF RunApp, PollReap, MainStep, Poll, flags, TypeOK
<1>6. CASE PollReapFails
  <2>1. /\ main' # "init" /\ readLockLeft' /\ UNCHANGED gAppConfiguration
        /\ made' = [made EXCEPT !["session"] = "leaked"]
    BY <1>6 DEF PollReapFails, EnterFree, MainStep
  <2> QED BY <2>1 DEF TypeOK
<1>7. CASE PollFails \/ PollEnds \/ SigInt
  BY <1>1, <1>7 DEF PollFails, PollEnds, SigInt, EnterFree, MainStep
<1>8. ASSUME NEW r \in Things \ {"session"}, Freeing(r), made' = Freed(r),
             UNCHANGED <<gAppConfiguration, readLockLeft>>
      PROVE  Lost'
  <2>1. \A q \in Things : made'[q] = "leaked" => made[q] = "leaked"
    BY <1>8, FreedMade
  <2> QED BY <1>1, <1>8, <2>1 DEF Freeing
<1>9. CASE FreeClient \/ FreeTimers \/ FreeCredential \/ FreeConfig \/ FreeOther
  BY <1>8, <1>9 DEF FreeClient, FreeTimers, FreeCredential, FreeConfig, FreeOther, flags
<1>10. CASE FreeClientFails
  BY <1>10 DEF FreeClientFails, Freeing, flags, TypeOK
<1>11. CASE FreeJoin \/ FreeJoined \/ FreeSession \/ FreeBarrier \/ FreeReturns
  BY <1>1, <1>11 DEF FreeJoin, FreeJoined, FreeSession, FreeBarrier, FreeReturns, Freeing, flags,
                     TypeOK
<1>12. CASE Deliver \/ Handler
  BY <1>1, <1>12 DEF Deliver, Handler, HandlerLock, HandleOther, HandlerHangs, HandleOffer,
                     StoreTid, StartStats, flags, TypeOK
<1>13. CASE Media \/ TimerFire \/ Timer \/ UNCHANGED vars
  BY <1>1, <1>13 DEF Media, MediaWait, MediaDecide, MediaPlayed, MediaHangs, MediaEnd, TimerFire,
                     Timer, TimerLock, TimerGenerate, TimerWalk, vars, flags
<1> QED
  BY <1>2, <1>3, <1>4, <1>5, <1>6, <1>7, <1>9, <1>10, <1>11, <1>12, <1>13
  DEF Next, Main, Start, FreeApp

-----------------------------------------------------------------------------
LEMMA InvInit == Init => Inv
<1> SUFFICES ASSUME Init PROVE Inv
  OBVIOUS
<1> USE Names, LifecycleAssumption DEF Init
<1>1. Made = {} /\ Past = {}
  BY DEF Made, Past
<1>2. PoolInv
  <2>1. PoolProofs!Init
    BY DEF Pool!Init, PoolProofs!Init
  <2> QED BY <2>1, PoolProofs!InvInit, Copies
<1>3. TypeOK
  <2>1. made \in [Things -> {"none", "live", "freed", "leaked", "twice"}] /\ at \in 1 .. 17
    OBVIOUS
  <2>2. \A b \in {pAppConfiguration, gAppConfiguration, sigInt, terminateApp, readLockLeft,
                 freeWaits, mediaThreadStarted, mediaSenderTid, awaited, certTimer,
                 statsTimer} : b \in BOOLEAN
    OBVIOUS
  <2>3. objLock \in {NULL, "handler", "timer"} /\ (certTimer \/ statsTimer => Live({"timerQueue"}))
    OBVIOUS
  <2> QED BY <1>2, <2>1, <2>2, <2>3 DEF TypeOK, PoolInv
<1>4. Order
  BY <1>1 DEF Order, Starting, Running, Cleaning, Ended, Needs, Handled, FreedOnce, InFree
<1>5. Locked /\ Threads /\ Lost
  BY DEF Locked, Threads, PipelineStopped, InFree, Lost
<1> QED BY <1>2, <1>3, <1>4, <1>5 DEF Inv, NoReuse, PoolInv

LEMMA InvNext == Inv /\ [Next]_vars => Inv'
<1> SUFFICES ASSUME Inv, [Next]_vars PROVE Inv'
  OBVIOUS
<1> USE DEF Inv
<1>1. PoolInv'
  BY PoolNext DEF PoolInv, TypeOK, NoReuse
<1>2. Locked' /\ Threads' /\ Lost'
  BY LockedNext, ThreadsNext, LostNext DEF Order
<1>3. CASE UNCHANGED vars
  <2>1. TypeOK'
    BY <1>1, <1>3 DEF TypeOK, Live, vars, flags, thread, timers, PoolInv
  <2>2. Made' = Made /\ Past' = Past
    BY <1>3 DEF Made, Past, vars
  <2>3. Order'
    BY <1>3, <2>2 DEF Order, Starting, Running, Cleaning, Ended, Needs, Handled, FreedOnce,
       InFree, Live, Unwaited, vars, flags, timers
  <2> QED BY <1>1, <1>2, <2>1, <2>3 DEF PoolInv, NoReuse
<1>4. CASE Next
  <2>1. TypeOK'
    BY <1>1, <1>4, TypeStart, TypeFree, TypeThreads DEF Order, Next, PoolInv
  <2>2. Order'
    BY <1>4, OrderStart, OrderPoll, OrderFree, OrderThreads DEF Next, Main
  <2> QED BY <1>1, <1>2, <2>1, <2>2 DEF PoolInv, NoReuse
<1> QED BY <1>3, <1>4

LEMMA Invariant == Spec => []Inv
BY InvInit, InvNext, PTL DEF Spec

-----------------------------------------------------------------------------
(* Every variable has its type at every step of initApp, pollApp, freeApp    *)
(* and the threads; and a timer is armed only while the timer queue lives.   *)
THEOREM TypeCorrect == Spec => []TypeOK
<1>1. Inv => TypeOK
  BY DEF Inv
<1> QED BY <1>1, Invariant, PTL

(* Wherever initApp fails, freeApp frees each thing it meets once.           *)
THEOREM NeverTwice == Spec => []FreedOnce
<1>1. Inv => FreedOnce
  BY DEF Inv, Order
<1> QED BY <1>1, Invariant, PTL

(* When main returns, after a complete or a failed initApp, nothing that was *)
(* made is lost, alive or leaked, but what a named failure excuses.          *)
THEOREM AllFreed == Spec => []NothingLeft
<1>1. ASSUME Inv, main = "done", NEW r \in Things
      PROVE  made[r] \in {"none", "freed"} \/ Forgotten(r)
  <2>1. made[r] \in {"none", "live", "freed", "leaked"}
    BY <1>1 DEF Inv, Order, FreedOnce, TypeOK
  <2>2. made[r] = "live" => Forgotten(r)
    BY <1>1 DEF Inv, Order, Ended, Handled, Forgotten
  <2>3. made[r] = "leaked" => Forgotten(r)
    BY <1>1 DEF Inv, Lost, Forgotten
  <2> QED BY <2>1, <2>2, <2>3
<1>2. Inv => NothingLeft
  BY <1>1 DEF NothingLeft
<1> QED BY <1>2, Invariant, PTL

(* After freeApp's join no pipeline plays: the thread that had one is        *)
(* joined, and any other sees terminateApp first.                            *)
THEOREM JoinStopsPipeline == Spec => []PipelineStopped
<1>1. Inv => PipelineStopped
  BY DEF Inv, Threads
<1> QED BY <1>1, Invariant, PTL

(* The callbacks of the timer queue and, where the client's free waits for   *)
(* them, the signaling handlers find what they use alive.                    *)
THEOREM CallbacksFindLive == Spec => []CallbacksOnLive
<1>1. ASSUME Inv
      PROVE  CallbacksOnLive
  <2>1. timer # "idle" => Live({"config", "credential", "timerQueue"})
    BY <1>1 DEF Inv, Order, Needs, Live
  <2>2. handler # "idle" /\ freeWaits /\ made["client"] # "leaked" => Live(Created)
    BY <1>1 DEF Inv, Order, Handled, Unwaited, Needs
  <2>3. HandlerUses \subseteq Created
    BY Names DEF HandlerUses
  <2> QED BY <2>1, <2>2, <2>3 DEF CallbacksOnLive, Live
<1> QED BY <1>1, Invariant, PTL

(* The pool's promise holds where the application uses it: from the first    *)
(* timer to destroyCredential no certificate serves two peer connections.    *)
THEOREM CertNotReused == Spec => []NoReuse
<1>1. Inv => NoReuse
  BY DEF Inv
<1> QED BY <1>1, Invariant, PTL
=============================================================================
