------------------------- MODULE MediaSourceProofs -------------------------
(***************************************************************************)
(* The media thread, for any number of viewers and of streaming threads    *)
(* and any set of faults: TypeOK and OneMediaThread together are           *)
(* inductive.  Each step lemma shows that a group of steps preserves them. *)
(***************************************************************************)
EXTENDS MediaSource, TLAPS

Inv == TypeOK /\ OneMediaThread

-----------------------------------------------------------------------------
(* The steps of the sessions move the media thread only to start it.         *)
LEMMA ViewerStep ==
  ASSUME Inv, NEW v \in Viewers,
         Offer(v) \/ Connected(v) \/ Connecting(v) \/ Lost(v) \/ Reap(v)
  PROVE  Inv'
<1> USE DEF Inv, TypeOK, OneMediaThread
<1>1. CASE Offer(v)
  <2>1. media' \in {"none", "wait", "decide", "start", "loop", "stop", "end"}
    BY <1>1 DEF Offer, StartMediaThread
  <2>2. mediaThreadStarted' = TRUE /\ media' # "none"
    BY <1>1 DEF Offer, StartMediaThread
  <2>3. media' # media => media = "none" /\ media' = "wait"
    BY <1>1 DEF Offer, StartMediaThread
  <2> QED BY <1>1, <2>1, <2>2, <2>3 DEF Offer
<1>2. CASE Connected(v)
  BY <1>2 DEF Connected
<1>3. CASE Connecting(v)
  BY <1>3 DEF Connecting, viewers
<1>4. CASE Lost(v)
  BY <1>4 DEF Lost
<1>5. CASE Reap(v)
  BY <1>5 DEF Reap, EndSession
<1> QED BY <1>1, <1>2, <1>3, <1>4, <1>5

(* The steps of mediaSenderRoutine and runMediaSource: the thread enters its *)
(* main loop without one, and leaves it when the callbacks have returned.    *)
LEMMA MediaThreadStep ==
  ASSUME Inv, Media
  PROVE  Inv'
<1> USE DEF Inv, TypeOK, OneMediaThread, MediaStep, viewers
<1>1. CASE MediaWait
  BY <1>1 DEF MediaWait
<1>2. CASE MediaDecide
  BY <1>2 DEF MediaDecide
<1>3. CASE MediaPlay
  BY <1>3 DEF MediaPlay
<1>4. CASE MediaPlayFails
  BY <1>4 DEF MediaPlayFails
<1>5. CASE MediaLoop
  BY <1>5 DEF MediaLoop
<1>6. CASE MediaQuit
  BY <1>6 DEF MediaQuit
<1>7. CASE MediaStop
  BY <1>7 DEF MediaStop
<1>8. CASE MediaEnd
  BY <1>8 DEF MediaEnd
<1> QED
  BY <1>1, <1>2, <1>3, <1>4, <1>5, <1>6, <1>7, <1>8 DEF Media

(* closeGstRtspSrc ends a main loop that runs and makes none.                *)
LEMMA CloseLoop ==
  ASSUME Inv, Close
  PROVE  /\ mainLoop' \in {"none", "new", "running", "quit"}
         /\ mainLoop' # "none" <=> mainLoop # "none"
         /\ shutdownRtspSrc' = FALSE
BY DEF Inv, TypeOK, Close

(* The callbacks of GStreamer begin while the pipeline plays.                *)
LEMMA CallbackStep ==
  ASSUME Inv,
         (\E k \in Sinks : Callback(k)) \/ BusError \/ BusEos
  PROVE  Inv'
<1> USE DEF Inv, TypeOK, OneMediaThread, viewers
<1>1. ASSUME NEW k \in Sinks, PadAdded(k) \/ PadLinked(k) \/ PadFails(k) \/ Sample(k)
      PROVE  Inv'
  <2>1. /\ sink' \in [Sinks -> {"none", "pad", "idle", "close", "closeEos", "eos"}]
        /\ UNCHANGED <<viewers, peerConnectionConnected, mediaThreadStarted, terminateApp,
                       shutdownRtspSrc, media, playing, mainLoop>>
    BY <1>1 DEF PadAdded, PadLinked, PadFails, Sample
  <2>2. playing \/ sink[k] # "none"
    BY <1>1 DEF PadAdded, PadLinked, PadFails, Sample
  <2> QED BY <2>1, <2>2
<1>2. ASSUME NEW k \in Sinks, SampleClose(k)
      PROVE  Inv'
  <2>1. /\ sink[k] # "none"
        /\ sink' \in [Sinks -> {"none", "pad", "idle", "close", "closeEos", "eos"}]
    BY <1>2 DEF SampleClose
  <2> QED BY <1>2, <2>1, CloseLoop DEF SampleClose
<1>3. CASE BusError
  BY <1>3, CloseLoop DEF BusError
<1>4. CASE BusEos
  BY <1>4, CloseLoop DEF BusEos
<1> QED BY <1>1, <1>2, <1>3, <1>4 DEF Callback

LEMMA InvInit == Init => Inv
BY DEF Init, Inv, TypeOK, OneMediaThread

LEMMA InvNext == Inv /\ [Next]_vars => Inv'
<1> SUFFICES ASSUME Inv, [Next]_vars PROVE Inv'
  OBVIOUS
<1>1. CASE Terminate
  BY <1>1 DEF Terminate, Inv, TypeOK, OneMediaThread, viewers
<1>2. CASE UNCHANGED vars
  BY <1>2 DEF vars, Inv, TypeOK, OneMediaThread, viewers
<1> QED BY <1>1, <1>2, ViewerStep, MediaThreadStep, CallbackStep DEF Next

LEMMA Invariant == Spec => []Inv
BY InvInit, InvNext, PTL DEF Spec

-----------------------------------------------------------------------------
(* The flags, the thread and the pipeline always have one of their states,   *)
(* and only a session that exists is connected or marked.                    *)
THEOREM TypeCorrect == Spec => []TypeOK
<1>1. Inv => TypeOK
  BY DEF Inv
<1> QED BY <1>1, Invariant, PTL

(* mediaThreadStarted, set by handleOffer and cleared by the thread at its   *)
(* end, lets no second media thread share the pipeline and the main loop     *)
(* with an old one that cleans up; and no callback outlives the pipeline.    *)
THEOREM OneThread == Spec => []OneMediaThread
<1>1. Inv => OneMediaThread
  BY DEF Inv
<1> QED BY <1>1, Invariant, PTL
=============================================================================
