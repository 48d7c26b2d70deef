------------------------------ MODULE RtspPads ------------------------------
(***************************************************************************)
(* The two pipelines of AppRtspSrc.c and what they share.  The discovery   *)
(* pipeline (discoverMediaSource, run by initMediaSource and, while        *)
(* nothing is latched, by the handler of an offer) finds out the camera's  *)
(* streams; the playback pipeline (runMediaSource) links each stream to an *)
(* app sink or a dummy sink.  Both use one context: the codec table, the   *)
(* pointer to the main loop, and codecConfLock.                            *)
(*                                                                         *)
(* GStreamer and GLib are external: a thread of the pipeline announces the *)
(* pads one after the other and then that there are no more; the state of  *)
(* a pipeline is set under its state lock, and NULL waits for that thread; *)
(* a main loop forgets a quit that comes before it runs.                   *)
(***************************************************************************)
EXTENDS Naturals, FiniteSets

CONSTANTS
  Cameras,     (* the cameras, each the set of pads its streams get           *)
  Supported,   (* the encodings that have a codec                             *)
  Faults,      (* what may go wrong, see AllFaults                            *)
  NULL

AllFaults ==
  { "play",       (* a call before the main loop exists                       *)
    "link",       (* a call of a pad-added callback                           *)
    "bus",        (* an error or end-of-stream message on the bus             *)
    "sample",     (* a sample whose callback ends the pipeline                *)
    "camera" }    (* the camera is reconfigured between two pipelines         *)

Media == {"video", "audio"}
Pads  == UNION Cameras

ASSUME RtspPadsAssumption ==
  /\ \A p \in Pads : p.media \in Media /\ p.payload \in Nat /\ p.encoding # NULL
  /\ NULL \notin Supported \cup {"freed"}
  /\ Faults \subseteq AllFaults

Pipelines == {"discovery", "playback"}

VARIABLES
  camera,               (* the pads of the camera                             *)
  streams,              (* videoStream and audioStream; a codec is the name of
                           its encoding, NULL for GST_CODEC_INVALID_VALUE     *)
  codecConfigLatched,   (* the flag of the same name                          *)
  promised,             (* history: the tables sessions were made with        *)
  run,                  (* control state of the function of each pipeline     *)
  mainLoop,             (* what the context's pointer leads to                *)
  codecConfLock,        (* the pipeline whose callback holds it               *)
  callback,             (* control state of each pipeline's own thread        *)
  sinks                 (* the pads each pipeline has announced, with the codec
                           of their app sink, NULL for a dummy sink           *)

table == <<streams, codecConfigLatched, promised>>
vars  == <<camera, table, run, mainLoop, codecConfLock, callback, sinks>>

RunStep(t, from, to) == run[t] = from /\ run' = [run EXCEPT ![t] = to]
CallbackStep(t, from, to) == callback[t] = from /\ callback' = [callback EXCEPT ![t] = to]
Announced(t) == {s.pad : s \in sinks[t]}

-----------------------------------------------------------------------------
(* Sessions, as far as they depend on the table.                             *)

Queried(m) == streams[m].codec # NULL

(* createStreamingSession: isMediaSourceReady, then the video and the audio  *)
(* capability.  It runs under the object lock, as a discovery does.          *)
CreateSession ==
  /\ run["discovery"] = "idle"
  /\ codecConfigLatched
  /\ \A m \in Media : Queried(m)
  /\ promised' = promised \cup {streams}
  /\ UNCHANGED <<camera, streams, codecConfigLatched, run, mainLoop, codecConfLock, callback, sinks>>

-----------------------------------------------------------------------------
(* discoverMediaSource and runMediaSource                                    *)

MayDiscoverAgain == TRUE   (* mutant: every offer discovers *)
MayDiscover == ~codecConfigLatched

Begin(t) ==
  /\ RunStep(t, "idle", "play")
  /\ camera' \in (IF "camera" \in Faults THEN Cameras ELSE {camera})
  /\ sinks' = [sinks EXCEPT ![t] = {}]
  /\ UNCHANGED <<table, mainLoop, codecConfLock, callback>>

Discover == MayDiscover /\ Begin("discovery")
(* The media thread is started by an offer, and may outlive its session.     *)
Play == promised # {} /\ Begin("playback")

(* A call up to set_state(PLAYING) fails.                                    *)
PlayFails(t) ==
  /\ "play" \in Faults
  /\ RunStep(t, "play", "null")
  /\ UNCHANGED <<camera, table, mainLoop, codecConfLock, callback, sinks>>

(* The pipeline is PLAYING, and its thread runs from here on.                *)
Playing(t) ==
  /\ RunStep(t, "play", "new")
  /\ UNCHANGED <<camera, table, mainLoop, codecConfLock, callback, sinks>>

NewLoop(t) ==
  /\ RunStep(t, "new", "run")
  /\ mainLoop' = "new"
  /\ UNCHANGED <<camera, table, codecConfLock, callback, sinks>>

RunLoop(t) ==
  /\ RunStep(t, "run", "loop")
  /\ mainLoop' = "running"
  /\ UNCHANGED <<camera, table, codecConfLock, callback, sinks>>

(* The order of the cleanup: the pipeline, then the main loop.               *)
LoopFirst == [loop |-> "unref", unref |-> "clear", clear |-> "null", null |-> "idle"]   (* mutant *)
Then == [loop |-> "null", null |-> "unref", unref |-> "clear", clear |-> "idle"]

LoopEnds(t) ==
  /\ mainLoop = "quit"
  /\ RunStep(t, "loop", Then.loop)
  /\ UNCHANGED <<camera, table, mainLoop, codecConfLock, callback, sinks>>

(* set_state(NULL) waits for the pipeline's thread.  The pads are removed,   *)
(* and onRtspSrcPadRemoved quits a main loop that has ended.                 *)
SetNull(t) ==
  /\ RunStep(t, "null", Then.null)
  /\ callback[t] = "idle"
  /\ UNCHANGED <<camera, table, mainLoop, codecConfLock, callback, sinks>>

(* The loop is freed, and then the pointer is cleared.                       *)
UnrefLoop(t) ==
  /\ RunStep(t, "unref", Then.unref)
  /\ mainLoop' = IF mainLoop = NULL THEN NULL ELSE "freed"
  /\ UNCHANGED <<camera, table, codecConfLock, callback, sinks>>

ClearLoop(t) ==
  /\ RunStep(t, "clear", Then.clear)
  /\ mainLoop' = NULL
  /\ UNCHANGED <<camera, table, codecConfLock, callback, sinks>>

-----------------------------------------------------------------------------
(* closeGstRtspSrc; its callers are the callbacks.                           *)

Quit ==
  /\ codecConfLock = NULL
  /\ mainLoop' = IF mainLoop = "running" THEN "quit" ELSE mainLoop

(* From the bus: its callbacks run in the main loop.                         *)
BusClose(t) ==
  /\ "bus" \in Faults
  /\ run[t] = "loop"
  /\ Quit
  /\ UNCHANGED <<camera, table, run, codecConfLock, callback, sinks>>

(* From a sample of an app sink.                                             *)
SampleClose ==
  /\ "sample" \in Faults
  /\ run["playback"] \in {"new", "run", "loop"}
  /\ \E s \in sinks["playback"] : s.codec # NULL
  /\ Quit
  /\ UNCHANGED <<camera, table, run, codecConfLock, callback, sinks>>

-----------------------------------------------------------------------------
(* The pipeline's thread                                                     *)

Active(t) == run[t] \in {"new", "run", "loop", "null"}

(* A pad-added callback takes codecConfLock at its begin.                    *)
Announce(t, p, codec) ==
  /\ Active(t)
  /\ p \in camera \ Announced(t)
  /\ CallbackStep(t, "idle", "pad")
  /\ codecConfLock = NULL /\ codecConfLock' = t
  /\ sinks' = [sinks EXCEPT ![t] = @ \cup {[pad |-> p, codec |-> codec]}]
  /\ UNCHANGED <<camera, codecConfigLatched, promised, run, mainLoop>>

Entry(p) == [codec |-> p.encoding, payload |-> p.payload]
RecordCodecOnly(p) ==   (* mutant: the payload type is not kept *)
  streams' = [streams EXCEPT ![p.media].codec = p.encoding]
Record(p) == streams' = IF p.encoding \in Supported
                        THEN [streams EXCEPT ![p.media] = Entry(p)] ELSE streams

(* onRtspSrcPadAddedDiscovery                                                *)
PadAddedDiscovery(p) ==
  /\ Announce("discovery", p, NULL)
  /\ Record(p)

AnyPayload(p) == TRUE   (* mutant: the payload type is not compared *)
PayloadMatches(p) == streams[p.media].payload = p.payload

(* onRtspSrcPadAdded                                                         *)
PadAdded(p) ==
  /\ Announce("playback", p, IF PayloadMatches(p) THEN streams[p.media].codec ELSE NULL)
  /\ UNCHANGED streams

(* The sink is in the pipeline: a discovery names dummy sinks by their       *)
(* medium, playback has one name for each medium's app sink.                 *)
NameTaken(t) ==
  \E s, u \in sinks[t] :
    /\ s # u /\ s.pad.media = u.pad.media
    /\ t = "playback" => s.codec # NULL /\ u.codec # NULL

(* Playback sets PLAYING again, under the pipeline's state lock.             *)
PadDone(t) ==
  /\ CallbackStep(t, "pad", "idle")
  /\ ~NameTaken(t)
  /\ t = "playback" => run[t] # "null"
  /\ codecConfLock' = NULL
  /\ UNCHANGED <<camera, table, run, mainLoop, sinks>>

PadFails(t) ==
  /\ NameTaken(t) \/ "link" \in Faults
  /\ CallbackStep(t, "pad", "close")
  /\ codecConfLock' = NULL
  /\ UNCHANGED <<camera, table, run, mainLoop, sinks>>

(* onRtspSrcNoMorePadsDiscovery, after the last pad.                         *)
NoMorePadsDiscovery ==
  /\ Active("discovery")
  /\ Announced("discovery") = camera
  /\ ~codecConfigLatched
  /\ CallbackStep("discovery", "idle", "close")
  /\ codecConfigLatched' = TRUE
  /\ UNCHANGED <<camera, streams, promised, run, mainLoop, codecConfLock, sinks>>

CallbackClose(t) ==
  /\ CallbackStep(t, "close", "idle")
  /\ Quit
  /\ UNCHANGED <<camera, table, run, codecConfLock, sinks>>

-----------------------------------------------------------------------------
Init ==
  /\ camera \in Cameras
  /\ streams = [m \in Media |-> [codec |-> NULL, payload |-> 0]]
  /\ codecConfigLatched = FALSE
  /\ promised = {}
  /\ run = [t \in Pipelines |-> "idle"]
  /\ mainLoop = NULL
  /\ codecConfLock = NULL
  /\ callback = [t \in Pipelines |-> "idle"]
  /\ sinks = [t \in Pipelines |-> {}]

Runner(t) ==
  \/ PlayFails(t) \/ Playing(t) \/ NewLoop(t) \/ RunLoop(t)
  \/ LoopEnds(t) \/ SetNull(t) \/ UnrefLoop(t) \/ ClearLoop(t)
Callback(t) ==
  PadDone(t) \/ PadFails(t) \/ CallbackClose(t)
AnyPad == \E p \in Pads : PadAddedDiscovery(p) \/ PadAdded(p)

Next ==
  \/ CreateSession \/ Discover \/ Play
  \/ \E t \in Pipelines : Runner(t) \/ Callback(t) \/ BusClose(t)
  \/ AnyPad \/ NoMorePadsDiscovery \/ SampleClose

Spec == Init /\ [][Next]_vars

(* The functions and the pipelines' threads run, and codecConfLock is        *)
(* granted; nothing is assumed of the bus, of samples and of offers.         *)
FairSpec ==
  /\ Spec
  /\ \A t \in Pipelines : WF_vars(Runner(t)) /\ SF_vars(Callback(t))
  /\ SF_vars(AnyPad) /\ WF_vars(NoMorePadsDiscovery)

-----------------------------------------------------------------------------
(* Properties                                                                *)

TypeOK ==
  /\ camera \in Cameras
  /\ streams \in [Media -> [codec : Supported \cup {NULL}, payload : {0} \cup {p.payload : p \in Pads}]]
  /\ codecConfigLatched \in BOOLEAN
  /\ promised \subseteq {streams}
  /\ run \in [Pipelines -> {"idle", "play", "new", "run", "loop", "null", "unref", "clear"}]
  /\ mainLoop \in {NULL, "new", "running", "quit", "freed"}
  /\ codecConfLock \in Pipelines \cup {NULL}
  /\ callback \in [Pipelines -> {"idle", "pad", "close"}]
  /\ \A t \in Pipelines : \A s \in sinks[t] : s.pad \in Pads /\ s.codec \in Supported \cup {NULL}

(* Discovery and playback never run at the same time, although nothing but   *)
(* codecConfigLatched and the order in which an offer uses it keeps the      *)
(* media thread and a handler from sharing the pipeline and the main loop.   *)
NoOverlap == run["discovery"] = "idle" \/ run["playback"] = "idle"

(* For a camera whose streams of a medium differ in their payload types:     *)
(* an app sink gets the stream whose codec every viewer was promised, and    *)
(* once the camera has announced all its streams each medium has exactly one *)
(* app sink; in whatever order the pads come, and however many discoveries   *)
(* have failed half-way before.                                              *)
AppSinks(m) == {s \in sinks["playback"] : s.pad.media = m /\ s.codec # NULL}
SinkMatches ==
  run["playback"] # "idle" =>
    \A m \in Media :
      /\ \A s \in AppSinks(m) :
           s.pad.encoding = s.codec /\ \A q \in promised : q[m].codec = s.codec
      /\ Announced("playback") = camera => Cardinality(AppSinks(m)) = 1

(* closeGstRtspSrc never quits a main loop that has been freed, although the *)
(* cleanup frees it and clears the pointer without codecConfLock.            *)
QuitOnLiveLoop ==
  mainLoop = "freed" =>
    \A t \in Pipelines : callback[t] = "idle" /\ ~Active(t)

(* A discovery ends; the object lock is held until it does.                  *)
DiscoveryEnds == run["discovery"] # "idle" ~> run["discovery"] = "idle"

(* Setting the pipeline to NULL ends.                                        *)
SetNullEnds == run["playback"] = "null" ~> run["playback"] # "null"
=============================================================================
