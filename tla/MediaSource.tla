---------------------------- MODULE MediaSource ----------------------------
(***************************************************************************)
(* The media thread: mediaSenderRoutine of AppCommon.c, which waits for a  *)
(* connected viewer and then runs runMediaSource of AppRtspSrc.c; the      *)
(* flags that start and stop it; and the GStreamer threads that deliver    *)
(* pads, samples and bus messages to it.  A session is its viewer here,    *)
(* and one step of pollApp or of a signaling handler; Sessions has their   *)
(* detail, RtspPads that of the pads, and Lifecycle what becomes of        *)
(* freeApp when a handler never gives back the object lock.                *)
(***************************************************************************)
EXTENDS Naturals, FiniteSets

CONSTANTS
  Viewers,   (* the remote viewers                                            *)
  Sinks,     (* the app sinks: the video and the audio streaming thread       *)
  Faults     (* what may go wrong, see AllFaults                              *)

AllFaults ==
  { "play",       (* a call of runMediaSource before the main loop exists     *)
    "pad",        (* a call of onRtspSrcPadAdded before its set_state         *)
    "error",      (* an error message on the bus                              *)
    "eos",        (* an end-of-stream message on the bus                      *)
    "terminate" } (* freeApp                                                  *)

ASSUME MediaSourceAssumption == Faults \subseteq AllFaults

VARIABLES
  sessions,                   (* the viewers in streamingSessionList          *)
  connected,                  (* those whose peer connection is up            *)
  marked,                     (* those with terminateFlag                     *)
  peerConnectionConnected, mediaThreadStarted, terminateApp, shutdownRtspSrc,
                              (* the flags of the same names                  *)
  media,                      (* control state of the media thread            *)
  playing,                    (* the pipeline is in state PLAYING             *)
  mainLoop,                   (* the GMainLoop                                *)
  sink                        (* control state of the streaming threads:
                                 "none" before its pad is announced, "pad" in
                                 onRtspSrcPadAdded, "idle" between two samples,
                                 "close" before closeGstRtspSrc, "closeEos" before
                                 it and GST_FLOW_EOS, "eos" after the stream     *)

viewers == <<sessions, connected, marked>>
vars == <<viewers, peerConnectionConnected, mediaThreadStarted, terminateApp,
          shutdownRtspSrc, media, playing, mainLoop, sink>>

-----------------------------------------------------------------------------
(* The sessions, as far as they start and stop media.                        *)

(* handleOffer starts the media thread, unless its flag says it runs.        *)
StartAlways ==   (* mutant: the flag is not tested *)
  mediaThreadStarted' = TRUE /\ media' = "wait"
StartMediaThread ==
  /\ mediaThreadStarted' = TRUE
  /\ media' = IF mediaThreadStarted THEN media ELSE "wait"

Offer(v) ==
  /\ v \notin sessions
  /\ sessions' = sessions \cup {v}
  /\ StartMediaThread
  /\ UNCHANGED <<connected, marked, peerConnectionConnected, terminateApp,
                 shutdownRtspSrc, playing, mainLoop, sink>>

(* onConnectionStateChange: CONNECTED.                                       *)
Connected(v) ==
  /\ v \in sessions \ connected
  /\ connected' = connected \cup {v}
  /\ peerConnectionConnected' = TRUE
  /\ UNCHANGED <<sessions, marked, mediaThreadStarted, terminateApp, shutdownRtspSrc,
                 media, playing, mainLoop, sink>>

(* NEW or CONNECTING of one session clears the flag all sessions share.      *)
Connecting(v) ==
  /\ v \in sessions \ connected
  /\ peerConnectionConnected' = FALSE
  /\ UNCHANGED <<viewers, mediaThreadStarted, terminateApp, shutdownRtspSrc,
                 media, playing, mainLoop, sink>>

(* FAILED, CLOSED or DISCONNECTED.                                           *)
Lost(v) ==
  /\ v \in sessions
  /\ marked' = marked \cup {v}
  /\ connected' = connected \ {v}
  /\ peerConnectionConnected' = FALSE
  /\ UNCHANGED <<sessions, mediaThreadStarted, terminateApp, shutdownRtspSrc,
                 media, playing, mainLoop, sink>>

EndKeepsFlags(v) ==   (* mutant: what is known of a session outlives it *)
  sessions' = sessions \ {v} /\ UNCHANGED <<connected, marked>>
EndSession(v) ==
  /\ sessions' = sessions \ {v}
  /\ connected' = connected \ {v}
  /\ marked' = marked \ {v}

(* pollApp takes a marked session out; after the last one it asks the media  *)
(* source to shut down.  Closing the peer connection may report CLOSED,      *)
(* which clears the flag all sessions share.                                 *)
Reap(v) ==
  /\ v \in sessions \cap marked
  /\ ~terminateApp
  /\ EndSession(v)
  /\ shutdownRtspSrc' = (shutdownRtspSrc \/ sessions = {v})
  /\ peerConnectionConnected' \in {peerConnectionConnected, FALSE}
  /\ UNCHANGED <<mediaThreadStarted, terminateApp, media, playing, mainLoop, sink>>

(* pollApp has returned, and freeApp joins the media thread.                 *)
Terminate ==
  /\ "terminate" \in Faults
  /\ ~terminateApp
  /\ terminateApp' = TRUE
  /\ UNCHANGED <<viewers, peerConnectionConnected, mediaThreadStarted,
                 shutdownRtspSrc, media, playing, mainLoop, sink>>

-----------------------------------------------------------------------------
(* mediaSenderRoutine and runMediaSource                                     *)

MediaStep(from, to) == media = from /\ media' = to

WaitConnected ==   (* mutant: terminateApp does not end the wait *)
  peerConnectionConnected
WaitDone == peerConnectionConnected \/ terminateApp

MediaWait ==
  /\ MediaStep("wait", "decide")
  /\ WaitDone
  /\ UNCHANGED <<viewers, peerConnectionConnected, mediaThreadStarted, terminateApp,
                 shutdownRtspSrc, playing, mainLoop, sink>>

MediaDecide ==
  /\ MediaStep("decide", IF terminateApp THEN "end" ELSE "start")
  /\ UNCHANGED <<viewers, peerConnectionConnected, mediaThreadStarted, terminateApp,
                 shutdownRtspSrc, playing, mainLoop, sink>>

(* From here on the streaming threads run; there is no main loop yet.        *)
MediaPlay ==
  /\ MediaStep("start", "loop")
  /\ playing' = TRUE
  /\ UNCHANGED <<viewers, peerConnectionConnected, mediaThreadStarted, terminateApp,
                 shutdownRtspSrc, mainLoop, sink>>

MediaPlayFails ==
  /\ "play" \in Faults
  /\ MediaStep("start", "end")
  /\ UNCHANGED <<viewers, peerConnectionConnected, mediaThreadStarted, terminateApp,
                 shutdownRtspSrc, playing, mainLoop, sink>>

(* app_g_main_loop_new, then app_g_main_loop_run: a quit in between is lost. *)
MediaLoop ==
  /\ media = "loop"
  /\ \/ mainLoop = "none" /\ mainLoop' = "new"
     \/ mainLoop = "new" /\ mainLoop' = "running"
  /\ UNCHANGED <<viewers, peerConnectionConnected, mediaThreadStarted, terminateApp,
                 shutdownRtspSrc, media, playing, sink>>

(* The main loop returns and the pipeline is set to NULL: no callback begins *)
(* any more.                                                                 *)
MediaQuit ==
  /\ MediaStep("loop", "stop")
  /\ mainLoop = "quit"
  /\ playing' = FALSE
  /\ UNCHANGED <<viewers, peerConnectionConnected, mediaThreadStarted, terminateApp,
                 shutdownRtspSrc, mainLoop, sink>>

(* The call holds the pipeline's state lock and waits for the callbacks that *)
(* have begun: also for a pad-added callback that waits for that lock.       *)
StopWaits(k) == sink[k] \in {"pad", "close", "closeEos"}

MediaStop ==
  /\ MediaStep("stop", "end")
  /\ \A k \in Sinks : ~StopWaits(k)
  /\ mainLoop' = "none"
  /\ sink' = [k \in Sinks |-> "none"]
  /\ UNCHANGED <<viewers, peerConnectionConnected, mediaThreadStarted, terminateApp,
                 shutdownRtspSrc, playing>>

MediaEnd ==
  /\ MediaStep("end", "none")
  /\ mediaThreadStarted' = FALSE
  /\ UNCHANGED <<viewers, peerConnectionConnected, terminateApp, shutdownRtspSrc,
                 playing, mainLoop, sink>>

-----------------------------------------------------------------------------
(* The callbacks of GStreamer                                                *)

(* closeGstRtspSrc                                                           *)
CloseKeepsLoop ==   (* mutant: the main loop is not told to quit *)
  shutdownRtspSrc' = FALSE /\ UNCHANGED mainLoop
Close ==
  /\ mainLoop' = IF mainLoop = "running" THEN "quit" ELSE mainLoop
  /\ shutdownRtspSrc' = FALSE

(* onRtspSrcPadAdded holds codecConfLock, and closeGstRtspSrc takes it.      *)
CodecConfFree == \A k \in Sinks : sink[k] # "pad"

PadAdded(k) ==
  /\ playing
  /\ sink[k] = "none"
  /\ CodecConfFree
  /\ sink' = [sink EXCEPT ![k] = "pad"]
  /\ UNCHANGED <<viewers, peerConnectionConnected, mediaThreadStarted, terminateApp,
                 shutdownRtspSrc, media, playing, mainLoop>>

(* The callback sets the pipeline to PLAYING, which takes its state lock:    *)
(* it waits while runMediaSource sets the pipeline to NULL.                  *)
PadLinked(k) ==
  /\ sink[k] = "pad"
  /\ media # "stop"
  /\ sink' = [sink EXCEPT ![k] = "idle"]
  /\ UNCHANGED <<viewers, peerConnectionConnected, mediaThreadStarted, terminateApp,
                 shutdownRtspSrc, media, playing, mainLoop>>

(* The sink is not made or not linked: the callback closes the source, and   *)
(* no sample ever comes from this pad.                                       *)
PadFails(k) ==
  /\ "pad" \in Faults
  /\ sink[k] = "pad"
  /\ sink' = [sink EXCEPT ![k] = "closeEos"]
  /\ UNCHANGED <<viewers, peerConnectionConnected, mediaThreadStarted, terminateApp,
                 shutdownRtspSrc, media, playing, mainLoop>>

(* onNewSampleFromAppSink: the sink hook fails once the app terminates, and  *)
(* then the callback ends the stream; a sample without a frame does not call *)
(* the hook.  The shutdown flag is read after that.                          *)
Sample(k) ==
  /\ playing
  /\ sink[k] = "idle"
  /\ \/ terminateApp /\ sink' = [sink EXCEPT ![k] = "closeEos"]
     \/ shutdownRtspSrc /\ sink' = [sink EXCEPT ![k] = "close"]
  /\ UNCHANGED <<viewers, peerConnectionConnected, mediaThreadStarted, terminateApp,
                 shutdownRtspSrc, media, playing, mainLoop>>

SampleClose(k) ==
  /\ CodecConfFree
  /\ \/ sink[k] = "close" /\ sink' = [sink EXCEPT ![k] = "idle"]
     \/ sink[k] = "closeEos" /\ sink' = [sink EXCEPT ![k] = "eos"]
  /\ Close
  /\ UNCHANGED <<viewers, peerConnectionConnected, mediaThreadStarted, terminateApp,
                 media, playing>>

(* onMsgErrorFromBus, and onMsgEosFromBus with onMediaEosHook: the main loop *)
(* delivers them, in the media thread.                                       *)
BusError ==
  /\ "error" \in Faults
  /\ mainLoop = "running"
  /\ CodecConfFree
  /\ Close
  /\ UNCHANGED <<viewers, peerConnectionConnected, mediaThreadStarted, terminateApp,
                 media, playing, sink>>

BusEos ==
  /\ "eos" \in Faults
  /\ mainLoop = "running"
  /\ CodecConfFree
  /\ Close
  /\ marked' = sessions
  /\ UNCHANGED <<sessions, connected, peerConnectionConnected, mediaThreadStarted,
                 terminateApp, media, playing, sink>>

-----------------------------------------------------------------------------
Init ==
  /\ sessions = {} /\ connected = {} /\ marked = {}
  /\ peerConnectionConnected = FALSE
  /\ mediaThreadStarted = FALSE
  /\ terminateApp = FALSE
  /\ shutdownRtspSrc = FALSE
  /\ media = "none"
  /\ playing = FALSE
  /\ mainLoop = "none"
  /\ sink = [k \in Sinks |-> "none"]

Media == MediaWait \/ MediaDecide \/ MediaPlay \/ MediaPlayFails \/ MediaLoop
         \/ MediaQuit \/ MediaStop \/ MediaEnd

Callback(k) == PadAdded(k) \/ PadLinked(k) \/ PadFails(k) \/ Sample(k) \/ SampleClose(k)

Next ==
  \/ \E v \in Viewers : Offer(v) \/ Connected(v) \/ Connecting(v) \/ Lost(v) \/ Reap(v)
  \/ Terminate
  \/ Media
  \/ \E k \in Sinks : Callback(k)
  \/ BusError \/ BusEos

Spec == Init /\ [][Next]_vars

(* pollApp and the media thread run, and get the object lock; a camera that  *)
(* plays announces its pads, and sends on each until the callback ends the   *)
(* stream; a callback that asks for codecConfLock again and again gets it.   *)
FairSpec ==
  /\ Spec
  /\ WF_vars(Media)
  /\ \A v \in Viewers : WF_vars(Reap(v))
  /\ \A k \in Sinks : /\ SF_vars(PadAdded(k)) /\ WF_vars(PadLinked(k))
                      /\ WF_vars(Sample(k)) /\ SF_vars(SampleClose(k))

(* And a media thread that waits does not miss the flag again and again.     *)
EagerSpec == FairSpec /\ SF_vars(MediaWait)

-----------------------------------------------------------------------------
(* Properties                                                                *)

TypeOK ==
  /\ sessions \subseteq Viewers
  /\ connected \subseteq sessions
  /\ marked \subseteq sessions
  /\ {peerConnectionConnected, mediaThreadStarted, terminateApp, shutdownRtspSrc, playing}
       \subseteq BOOLEAN
  /\ media \in {"none", "wait", "decide", "start", "loop", "stop", "end"}
  /\ mainLoop \in {"none", "new", "running", "quit"}
  /\ sink \in [Sinks -> {"none", "pad", "idle", "close", "closeEos", "eos"}]

(* There is one media thread at a time and it owns the pipeline and the main *)
(* loop: an offer that comes while an old thread cleans up starts no second  *)
(* one that shares them.                                                     *)
OneMediaThread ==
  /\ mediaThreadStarted <=> media # "none"
  /\ playing <=> media = "loop"
  /\ mainLoop # "none" => media \in {"loop", "stop"}
  /\ media \notin {"loop", "stop"} => \A k \in Sinks : sink[k] = "none"

(* Two ways for the media thread to hang.  The streams have ended, their     *)
(* callbacks have told a main loop to quit that did not run yet, and nothing *)
(* tells it again.  And the thread waits for a pad-added callback that waits *)
(* for the state lock the thread holds.                                      *)
QuitLost   == media = "loop" /\ mainLoop # "quit" /\ \A k \in Sinks : sink[k] = "eos"
PadBlocked == media = "stop" /\ \E k \in Sinks : sink[k] = "pad"

(* freeApp joins the media thread, and waits for ever only in these two: not *)
(* because no viewer connects, nor because a stream ended, a shutdown was    *)
(* forgotten, a call failed, or the thread was about to start the pipeline.  *)
TerminateEnds == terminateApp ~> media = "none" \/ QuitLost \/ PadBlocked

(* What freeApp would need: violated by either hang.                         *)
TerminateAlways == terminateApp ~> media = "none"

(* "shutdown the media source and the main thread will be terminated as      *)
(* well": a pipeline asked to shut down stops.                               *)
ShutdownEnds == playing /\ shutdownRtspSrc ~> ~playing

(* "allowing remote viewers to watch the streams": while a viewer stays      *)
(* connected, the pipeline does not stay stopped.                            *)
ConnectedGetsMedia ==
  \A v \in Viewers : <>[](v \in connected \ marked) => []<>playing

(* The same where no shutdown was ever asked for.                            *)
ConnectedStartsMedia == []~shutdownRtspSrc => ConnectedGetsMedia
=============================================================================
