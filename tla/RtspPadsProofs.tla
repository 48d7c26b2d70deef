--------------------------- MODULE RtspPadsProofs ---------------------------
(***************************************************************************)
(* The two pipelines of RtspPads, for every set of cameras and encodings   *)
(* and every set of faults.  What keeps them apart is the order in which   *)
(* an offer uses the latched flag: Turns says so, and types, NoOverlap and *)
(* QuitOnLiveLoop follow.  Choice adds what the sinks are picked from, and *)
(* gives SinkMatches for cameras that tell the streams of a medium apart.  *)
(***************************************************************************)
EXTENDS RtspPads, FiniteSetTheorems, TLAPS

(* The sinks of both pipelines, as TypeOK has them but as a function.        *)
SinksOK == sinks \in [Pipelines -> SUBSET [pad : Pads, codec : Supported \cup {NULL}]]

(* Sessions are made of a latched table while no discovery runs, playback    *)
(* needs a session, a callback needs a pipeline, and the pointer leads to a  *)
(* freed main loop only until the pipeline that freed it clears it.          *)
Turns ==
  /\ promised # {} => codecConfigLatched /\ run["discovery"] = "idle"
  /\ run["playback"] # "idle" => promised # {}
  /\ \A t \in Pipelines : callback[t] # "idle" => Active(t)
  /\ mainLoop = "freed" => \E t \in Pipelines : run[t] = "clear"

Inv == TypeOK /\ SinksOK /\ Turns

-----------------------------------------------------------------------------
(* Types and turns                                                           *)

LEMMA InvInit == Init => Inv
<1> SUFFICES ASSUME Init PROVE Inv
  OBVIOUS
<1> USE DEF Init, Pipelines
<1>1. TypeOK
  BY DEF TypeOK
<1>2. SinksOK
  BY DEF SinksOK
<1>3. Turns
  BY RtspPadsAssumption DEF Turns
<1> QED BY <1>1, <1>2, <1>3 DEF Inv

(* Sessions and the begin of a pipeline.                                     *)
LEMMA BeginStep ==
  ASSUME Inv, CreateSession \/ Discover \/ Play PROVE Inv'
<1> USE DEF Inv, TypeOK, SinksOK, Turns, Active, Pipelines
<1>1. CASE CreateSession
  BY <1>1 DEF CreateSession
<1>2. CASE Discover
  BY <1>2 DEF Discover, MayDiscover, Begin, RunStep, table
<1>3. CASE Play
  BY <1>3 DEF Play, Begin, RunStep, table
<1> QED BY <1>1, <1>2, <1>3

(* The function that runs a pipeline.                                        *)
LEMMA RunnerStep ==
  ASSUME Inv, NEW t \in Pipelines, Runner(t) PROVE Inv'
<1> USE DEF Inv, TypeOK, SinksOK, Turns, Active, Pipelines, RunStep, table, Then
<1>1. CASE PlayFails(t) \/ Playing(t) \/ NewLoop(t) \/ RunLoop(t)
  BY <1>1 DEF PlayFails, Playing, NewLoop, RunLoop
<1>2. CASE LoopEnds(t) \/ SetNull(t)
  BY <1>2 DEF LoopEnds, SetNull
<1>3. CASE UnrefLoop(t)
  BY <1>3 DEF UnrefLoop
<1>4. CASE ClearLoop(t)
  BY <1>4, RtspPadsAssumption DEF ClearLoop
<1> QED BY <1>1, <1>2, <1>3, <1>4 DEF Runner

(* A pad is announced: a discovery may write the table, as no session has    *)
(* been made of it yet.                                                      *)
LEMMA AnnounceStep ==
  ASSUME Inv, NEW p \in Pads, PadAddedDiscovery(p) \/ PadAdded(p) PROVE Inv'
<1> USE DEF Inv, TypeOK, SinksOK, Turns, Active, Pipelines, Announce, CallbackStep
<1>1. p.media \in Media
  BY RtspPadsAssumption
<1>2. CASE PadAddedDiscovery(p)
  <2>1. streams' \in [Media -> [codec : Supported \cup {NULL},
                                payload : {0} \cup {r.payload : r \in Pads}]]
    BY <1>1, <1>2 DEF PadAddedDiscovery, Record, Entry
  <2>2. promised = {}
    BY <1>2 DEF PadAddedDiscovery
  <2> QED BY <1>2, <2>1, <2>2 DEF PadAddedDiscovery
<1>3. CASE PadAdded(p)
  BY <1>1, <1>3 DEF PadAdded
<1> QED BY <1>2, <1>3

(* The other steps of the callbacks, and closeGstRtspSrc.                    *)
LEMMA CallbackStepKeeps ==
  ASSUME Inv,
         \/ \E t \in Pipelines : Callback(t) \/ BusClose(t)
         \/ NoMorePadsDiscovery \/ SampleClose
  PROVE  Inv'
<1> USE RtspPadsAssumption
    DEF Inv, TypeOK, SinksOK, Turns, Active, Pipelines, CallbackStep, Quit, table
<1>1. ASSUME NEW t \in Pipelines, PadDone(t) \/ PadFails(t) \/ CallbackClose(t) PROVE Inv'
  BY <1>1 DEF PadDone, PadFails, CallbackClose
<1>2. ASSUME NEW t \in Pipelines, BusClose(t) PROVE Inv'
  BY <1>2 DEF BusClose
<1>3. CASE NoMorePadsDiscovery
  BY <1>3 DEF NoMorePadsDiscovery
<1>4. CASE SampleClose
  BY <1>4 DEF SampleClose
<1> QED BY <1>1, <1>2, <1>3, <1>4 DEF Callback

(* A step leads from Inv to Inv.                                             *)
LEMMA InvStep == Inv /\ [Next]_vars => Inv'
<1> SUFFICES ASSUME Inv, [Next]_vars PROVE Inv'
  OBVIOUS
<1>1. CASE Next
  BY <1>1, BeginStep, RunnerStep, AnnounceStep, CallbackStepKeeps DEF Next, AnyPad
<1>2. CASE UNCHANGED vars
  BY <1>2 DEF Inv, TypeOK, SinksOK, Turns, Active, vars, table
<1> QED BY <1>1, <1>2

LEMMA InvAlways == Spec => []Inv
BY InvInit, InvStep, PTL DEF Spec

(* The table, the sinks and the control states have their types, and all     *)
(* sessions were made of the same table.                                     *)
THEOREM PadsTyped == Spec => []TypeOK
<1>1. Inv => TypeOK
  BY DEF Inv
<1> QED BY <1>1, InvAlways, PTL

(* The discovery and the playback pipeline never run at the same time, for   *)
(* any number of offers and half-failed discoveries.                         *)
THEOREM NeverOverlap == Spec => []NoOverlap
<1>1. Inv => NoOverlap
  BY DEF Inv, Turns, NoOverlap
<1> QED BY <1>1, InvAlways, PTL

(* closeGstRtspSrc quits no main loop that the cleanup has freed.            *)
THEOREM LoopLive == Spec => []QuitOnLiveLoop
<1>1. Inv => QuitOnLiveLoop
  BY DEF Inv, Turns, QuitOnLiveLoop, Active, Pipelines
<1> QED BY <1>1, InvAlways, PTL

-----------------------------------------------------------------------------
(* The choice of the sinks                                                   *)

(* The streams of a medium are told apart by their payload types.            *)
DistinctPayloads ==
  \A c \in Cameras : \A p, q \in c :
    p.media = q.media /\ p.payload = q.payload => p = q

(* The codec of the sink a pad gets in playback.                             *)
SinkCodec(p) == IF PayloadMatches(p) THEN streams[p.media].codec ELSE NULL

(* Each recorded stream is one of the camera's; a session was made of a      *)
(* table with a stream for each medium, and playback picks by it.            *)
Recorded ==
  \A m \in Media : Queried(m) =>
    \E p \in camera : p.media = m /\ streams[m] = Entry(p)
Picked ==
  /\ promised # {} => \A m \in Media : Queried(m)
  /\ promised = {} => sinks["playback"] = {}
  /\ \A s \in sinks["playback"] : s.pad \in camera /\ s.codec = SinkCodec(s.pad)

Choice == Recorded /\ Picked

LEMMA ChoiceInit == Init => Choice
BY DEF Init, Choice, Recorded, Picked, Queried, Media, Pipelines

(* A discovery records streams of the camera only.                           *)
LEMMA RecordedStep ==
  ASSUME Inv, Recorded, "camera" \notin Faults, [Next]_vars PROVE Recorded'
<1>1. ASSUME NEW p \in Pads, PadAddedDiscovery(p) PROVE Recorded'
  <2>1. p \in camera /\ camera' = camera /\ p.media \in Media
    BY <1>1, RtspPadsAssumption DEF PadAddedDiscovery, Announce
  <2> QED BY <1>1, <2>1 DEF PadAddedDiscovery, Record, Recorded, Queried, Entry, Inv, TypeOK
<1>2. ASSUME UNCHANGED <<camera, streams>> PROVE Recorded'
  BY <1>2 DEF Recorded, Queried, Entry
<1>3. \/ \E p \in Pads : PadAddedDiscovery(p)
      \/ UNCHANGED <<camera, streams>>
  <2> USE DEF table, vars
  <2>1. CASE CreateSession \/ Discover \/ Play
    BY <2>1 DEF CreateSession, Discover, Play, Begin
  <2>2. ASSUME NEW t \in Pipelines, Runner(t) PROVE UNCHANGED <<camera, streams>>
    BY <2>2 DEF Runner, PlayFails, Playing, NewLoop, RunLoop, LoopEnds, SetNull, UnrefLoop, ClearLoop
  <2>3. ASSUME NEW t \in Pipelines, Callback(t) \/ BusClose(t) PROVE UNCHANGED <<camera, streams>>
    BY <2>3 DEF Callback, PadDone, PadFails, CallbackClose, BusClose
  <2>4. CASE NoMorePadsDiscovery \/ SampleClose
    BY <2>4 DEF NoMorePadsDiscovery, SampleClose
  <2>5. ASSUME NEW p \in Pads, PadAdded(p) PROVE UNCHANGED <<camera, streams>>
    BY <2>5 DEF PadAdded, Announce
  <2>6. CASE UNCHANGED vars
    BY <2>6
  <2> QED BY <2>1, <2>2, <2>3, <2>4, <2>5, <2>6 DEF Next, AnyPad
<1> QED BY <1>1, <1>2, <1>3

(* Playback picks from the table as it was when the session was made.        *)
LEMMA PickedStep ==
  ASSUME Inv, Picked, "camera" \notin Faults, [Next]_vars PROVE Picked'
<1> USE DEF table, vars, Picked, Queried, SinkCodec, PayloadMatches, Pipelines
<1>1. CASE CreateSession
  BY <1>1 DEF CreateSession
<1>2. CASE Discover \/ Play
  BY <1>2 DEF Discover, Play, Begin, Inv, SinksOK
<1>3. ASSUME NEW t \in Pipelines, Runner(t) PROVE Picked'
  BY <1>3 DEF Runner, PlayFails, Playing, NewLoop, RunLoop, LoopEnds, SetNull, UnrefLoop, ClearLoop
<1>4. ASSUME NEW t \in Pipelines, Callback(t) \/ BusClose(t) PROVE Picked'
  BY <1>4 DEF Callback, PadDone, PadFails, CallbackClose, BusClose
<1>5. CASE NoMorePadsDiscovery \/ SampleClose
  BY <1>5 DEF NoMorePadsDiscovery, SampleClose
<1>6. ASSUME NEW p \in Pads, PadAddedDiscovery(p) PROVE Picked'
  <2>1. promised = {} /\ promised' = {} /\ sinks'["playback"] = sinks["playback"]
    BY <1>6 DEF PadAddedDiscovery, Announce, Active, Inv, Turns, SinksOK
  <2> QED BY <2>1
<1>7. ASSUME NEW p \in Pads, PadAdded(p) PROVE Picked'
  <2>1. promised # {} /\ UNCHANGED <<camera, streams, promised>> /\ p \in camera
    BY <1>7 DEF PadAdded, Announce, Active, Inv, Turns
  <2>2. sinks'["playback"] = sinks["playback"] \cup {[pad |-> p, codec |-> SinkCodec(p)]}
    BY <1>7 DEF PadAdded, Announce, Inv, SinksOK
  <2> QED BY <2>1, <2>2
<1>8. CASE UNCHANGED vars
  BY <1>8
<1> QED BY <1>1, <1>2, <1>3, <1>4, <1>5, <1>6, <1>7, <1>8 DEF Next, AnyPad

(* What the table and the rule of the sinks say of the sinks in playback.    *)
LEMMA ChoiceMatches ==
  ASSUME Inv, Choice, DistinctPayloads PROVE SinkMatches
<1> SUFFICES ASSUME run["playback"] # "idle", NEW m \in Media
             PROVE  /\ \A s \in AppSinks(m) :
                         s.pad.encoding = s.codec /\ \A q \in promised : q[m].codec = s.codec
                    /\ Announced("playback") = camera => Cardinality(AppSinks(m)) = 1
  BY DEF SinkMatches
<1>1. PICK p \in camera : p.media = m /\ streams[m] = Entry(p)
  BY DEF Choice, Recorded, Picked, Inv, Turns
<1>2. ASSUME NEW s \in AppSinks(m)
      PROVE  s.pad = p /\ s.codec = p.encoding /\ s.codec = streams[m].codec
  <2>1. s \in sinks["playback"] /\ s.pad.media = m /\ s.codec # NULL
    BY DEF AppSinks
  <2>2. s.pad \in camera /\ s.pad.payload = streams[m].payload /\ s.codec = streams[m].codec
    BY <2>1 DEF Choice, Picked, SinkCodec, PayloadMatches
  <2> QED BY <1>1, <2>1, <2>2 DEF Inv, TypeOK, DistinctPayloads, Entry
<1>3. \A q \in promised : q = streams
  BY DEF Inv, TypeOK
<1>4. ASSUME Announced("playback") = camera PROVE Cardinality(AppSinks(m)) = 1
  <2>1. PICK s \in sinks["playback"] : s.pad = p
    BY <1>4 DEF Announced
  <2>2. s.codec = p.encoding /\ s.codec = streams[m].codec
    BY <1>1, <2>1 DEF Choice, Picked, SinkCodec, PayloadMatches, Entry
  <2>3. streams[m].codec # NULL
    BY DEF Choice, Picked, Queried, Inv, Turns
  <2>4. s \in AppSinks(m)
    BY <1>1, <2>1, <2>2, <2>3 DEF AppSinks
  <2>5. \A u \in AppSinks(m) : u = s
    BY <1>2, <2>1, <2>2 DEF AppSinks, Inv, SinksOK, Pipelines
  <2>6. AppSinks(m) = {s}
    BY <2>4, <2>5
  <2> QED BY <2>6, FS_Singleton
<1> QED BY <1>2, <1>3, <1>4

(* While the camera keeps its streams and tells those of a medium apart, an  *)
(* app sink gets the stream of the codec every viewer was promised, and each *)
(* medium has one app sink, in whatever order the pads come.                 *)
THEOREM SinksMatch ==
  ASSUME DistinctPayloads, "camera" \notin Faults PROVE Spec => []SinkMatches
<1>1. Inv /\ Choice /\ [Next]_vars => Choice'
  BY RecordedStep, PickedStep DEF Choice
<1>2. Inv /\ Choice => SinkMatches
  BY ChoiceMatches
<1> QED BY <1>1, <1>2, ChoiceInit, InvAlways, PTL DEF Spec
=============================================================================
