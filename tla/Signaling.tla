----------------------------- MODULE Signaling -----------------------------
(***************************************************************************)
(* The signaling client: AppSignaling.c, and its callers in AppCommon.c.   *)
(* The main thread creates and connects the client (runApp) and then, in   *)
(* pollApp, re-creates it when an error was reported and reconnects it.    *)
(* Two kinds of threads send messages through it: signaling handlers, that *)
(* hold appConfigurationObjLock as pollApp does, and the peer connections' *)
(* threads (onIceCandidateHandler), that do not.  An offer is answered by  *)
(* its handler when the viewer trickles candidates, and by the thread of   *)
(* its peer connection, once that has gathered them all, when not.         *)
(*                                                                         *)
(* The client itself is the SDK's: it is created, must be fetched to       *)
(* process messages, and is then ready to connect.                         *)
(***************************************************************************)
EXTENDS Naturals, FiniteSets

CONSTANTS
  Clients,      (* the addresses of signaling clients                         *)
  Handlers,     (* the threads a client delivers messages on                  *)
  IceThreads,   (* the threads peer connections report candidates on; bound:
                   the sessions there are at a time                           *)
  MaxTurnUris,  (* bound: the URIs of the TURN server                         *)
  Faults,       (* the calls that may fail, see AllFaults                     *)
  NULL

AllFaults ==
  { "create",    (* createSignalingClientSync                                 *)
    "fetch",     (* signalingClientFetchSync                                  *)
    "connect",   (* signalingClientConnectSync                                *)
    "free",      (* freeSignalingClient                                       *)
    "state",     (* signalingClientGetCurrentState                            *)
    "query",     (* signalingClientGetIceConfigInfoCount and ...Info          *)
    "offer",     (* a call of handleOffer before the answer is made           *)
    "send" }     (* createAnswer, or signalingClientSendMessageSync           *)

Senders == Handlers \cup IceThreads

SessionStates ==   (* see NewSession *)
  [trickles : BOOLEAN, remoteCanTrickleIce : BOOLEAN, gathering : {"no", "yes", "done"},
   answers : 0 .. 2, failed : BOOLEAN]

ASSUME SignalingAssumption ==
  /\ MaxTurnUris \in Nat
  /\ Faults \subseteq AllFaults
  /\ Handlers \cap IceThreads = {}
  /\ NULL \notin Clients /\ NULL \notin SessionStates
  /\ {NULL, "main"} \cap Senders = {} /\ NULL # "main"

VARIABLES
  signalingClientHandle,      (* NULL for an invalid handle                   *)
  client,                     (* the state of each client                     *)
  failing,                    (* the clients that have reported an error      *)
  restartSignalingClient,     (* the flag of the same name                    *)
  iceServers, iceUriCount,    (* what the last query returned, and the count
                                 kept of it                                   *)
  objLock, sendLock,          (* who holds appConfigurationObjLock and
                                 signalingSendMessageLock                     *)
  main,                       (* control state of runApp and pollApp          *)
  sender,                     (* control state of each sending thread, the
                                 client it is sending on, the session of the
                                 message, and whether that is an answer       *)
  session                     (* the session of each peer connection's thread,
                                 or NULL                                      *)

clients == <<signalingClientHandle, client, failing>>
counts  == <<iceServers, iceUriCount>>
locks   == <<objLock, sendLock>>
vars    == <<clients, restartSignalingClient, counts, locks, main, sender, session>>

Live  == {c \in Clients : client[c] \in {"created", "ready", "connected"}}
Ready == {c \in Clients : client[c] = "ready"}

MainStep(from, to) == main = from /\ main' = to

-----------------------------------------------------------------------------
(* What main calls of the SDK.                                               *)

Create ==
  \E c \in Clients \ Live :
    /\ signalingClientHandle' = c
    /\ client' = [client EXCEPT ![c] = "created"]
    /\ failing' = failing \ {c}

SetState(state) ==
  /\ client' = [client EXCEPT ![signalingClientHandle] = state]
  /\ UNCHANGED <<signalingClientHandle, failing>>

(* connectAppSignaling: create, fetch, connect; a failure ends it, and main  *)
(* goes on with pollApp all the same.                                        *)
RunCreate ==
  /\ \/ MainStep("create", "fetch") /\ Create
     \/ "create" \in Faults /\ MainStep("create", "wait") /\ UNCHANGED clients
  /\ UNCHANGED <<restartSignalingClient, counts, locks, sender, session>>

RunFetch ==
  /\ \/ MainStep("fetch", "connect") /\ SetState("ready")
     \/ "fetch" \in Faults /\ MainStep("fetch", "wait") /\ UNCHANGED clients
  /\ UNCHANGED <<restartSignalingClient, counts, locks, sender, session>>

RunConnect ==
  /\ MainStep("connect", "wait")
  /\ \/ SetState("connected")
     \/ "connect" \in Faults /\ UNCHANGED clients
  /\ UNCHANGED <<restartSignalingClient, counts, locks, sender, session>>

-----------------------------------------------------------------------------
(* A pass of pollApp, under the object lock until its end.                   *)

ObjLockIgnored == UNCHANGED objLock   (* mutant: the pass does not take the lock *)
TakeObjLock == objLock = NULL /\ objLock' = "main"

(* A thread leaves the object lock, if it holds it.                          *)
Unlock(t) == objLock' = IF objLock = t THEN NULL ELSE objLock

PollLock ==
  /\ MainStep("wait", IF restartSignalingClient THEN "restart" ELSE "check")
  /\ TakeObjLock
  /\ UNCHANGED <<clients, restartSignalingClient, counts, sendLock, sender, session>>

(* restartAppSignaling: without a free there is no create.                   *)
FreeKeepsError ==   (* mutant: the error of the client outlives it *)
  /\ signalingClientHandle' = NULL
  /\ client' = [client EXCEPT ![signalingClientHandle] = "freed"]
  /\ UNCHANGED failing
Free ==
  /\ signalingClientHandle' = NULL
  /\ client' = [client EXCEPT ![signalingClientHandle] = "freed"]
  /\ failing' = failing \ {signalingClientHandle}
NotTested == "recreate"   (* mutant: the status of freeSignalingClient is not tested *)
ResetAnyway == "reset"    (* mutant: the flag is cleared whether or not the restart worked *)
AfterFailedFree == "check"

PollFreeClient ==
  /\ MainStep("restart", "recreate")
  /\ Free
  /\ UNCHANGED <<restartSignalingClient, counts, locks, sender, session>>

PollFreeFails ==
  /\ "free" \in Faults
  /\ MainStep("restart", AfterFailedFree)
  /\ UNCHANGED <<clients, restartSignalingClient, counts, locks, sender, session>>

PollRecreate ==
  /\ \/ MainStep("recreate", "reset") /\ Create
     \/ "create" \in Faults /\ MainStep("recreate", "check") /\ UNCHANGED clients
  /\ UNCHANGED <<restartSignalingClient, counts, locks, sender, session>>

PollReset ==
  /\ MainStep("reset", "check")
  /\ restartSignalingClient' = FALSE
  /\ UNCHANGED <<clients, counts, locks, sender, session>>

(* checkAppSignaling: a client that is ready is connected.                   *)
PollCheck ==
  /\ MainStep("check", "wait")
  /\ signalingClientHandle # NULL
  /\ IF signalingClientHandle \in Ready THEN SetState("connected") ELSE UNCHANGED clients
  /\ Unlock("main")
  /\ UNCHANGED <<restartSignalingClient, counts, sendLock, sender, session>>

(* An error of it, or an invalid handle, ends pollApp.                       *)
PollCheckFails ==
  /\ MainStep("check", "exit")
  /\ \/ signalingClientHandle = NULL
     \/ "state" \in Faults
     \/ "connect" \in Faults /\ signalingClientHandle \in Ready
  /\ Unlock("main")
  /\ UNCHANGED <<clients, restartSignalingClient, counts, sendLock, sender, session>>

-----------------------------------------------------------------------------
(* The threads that send.                                                    *)

At(t, pc) == sender[t].pc = pc
SenderStates ==
  [pc : {"idle", "query", "write", "gather", "answer", "check", "lock", "send"},
   client : Clients \cup {NULL}, session : IceThreads \cup {NULL}, answer : BOOLEAN]
Idle == [pc |-> "idle", client |-> NULL, session |-> NULL, answer |-> FALSE]
Step(t, from, to) ==
  /\ At(t, from)
  /\ sender' = [sender EXCEPT ![t] = IF to = "idle" THEN Idle ELSE [@ EXCEPT !.pc = to]]

(* onSignalingMessageReceived with an offer of a peer without a session.     *)
Receive(h) ==
  /\ Step(h, "idle", "query")
  /\ \E c \in Live : client[c] = "connected"
  /\ \E i \in IceThreads : session[i] = NULL
  /\ objLock = NULL /\ objLock' = h
  /\ UNCHANGED <<clients, restartSignalingClient, counts, sendLock, main, session>>

(* The steps of handleOffer.                                                 *)
GatherFirst == [first |-> "gather", gather |-> "write", write |-> "answer"]   (* mutant *)
Then == [first |-> "write", write |-> "gather", gather |-> "answer"]

NewSession(trickles) ==
  [trickles |-> trickles,               (* what the offer says                *)
   remoteCanTrickleIce |-> FALSE,
   gathering |-> "no",
   answers |-> 0,                       (* history: the answers sent          *)
   failed |-> FALSE]                    (* history: a call failed             *)

(* queryAppSignalingServer counts the STUN server and the URIs of one TURN   *)
(* server; initializePeerConnection keeps the count, plus one.               *)
Query(h) ==
  /\ At(h, "query")
  /\ \E uriCount \in 0 .. MaxTurnUris :
       /\ iceServers' = uriCount + 1
       /\ iceUriCount' = iceServers' + 1
  /\ \E i \in IceThreads, trickles \in BOOLEAN :
       /\ session[i] = NULL
       /\ session' = [session EXCEPT ![i] = NewSession(trickles)]
       /\ sender' = [sender EXCEPT ![h] = [@ EXCEPT !.pc = Then.first, !.session = i, !.answer = TRUE]]
  /\ UNCHANGED <<clients, restartSignalingClient, locks, main>>

QueryFails(h) ==
  /\ "query" \in Faults
  /\ Step(h, "query", "idle")
  /\ Unlock(h)
  /\ UNCHANGED <<clients, restartSignalingClient, counts, sendLock, main, session>>

Own(t) == sender[t].session

(* setRemoteDescription, and what it found.                                  *)
WriteTrickle(h) ==
  /\ Step(h, "write", Then.write)
  /\ session' = [session EXCEPT ![Own(h)].remoteCanTrickleIce = session[Own(h)].trickles]
  /\ UNCHANGED <<clients, restartSignalingClient, counts, locks, main>>

(* setLocalDescription lets the peer connection gather its candidates.       *)
StartGathering(h) ==
  /\ Step(h, "gather", Then.gather)
  /\ session' = [session EXCEPT ![Own(h)].gathering = "yes"]
  /\ UNCHANGED <<clients, restartSignalingClient, counts, locks, main>>

(* The session stays in the array.                                           *)
OfferFails(h) ==
  /\ "offer" \in Faults
  /\ Step(h, "write", "idle") \/ Step(h, "gather", "idle")
  /\ session' = [session EXCEPT ![Own(h)].failed = TRUE]
  /\ Unlock(h)
  /\ UNCHANGED <<clients, restartSignalingClient, counts, sendLock, main>>

AnswerNow(h) ==
  /\ Step(h, "answer", "check")
  /\ session[Own(h)].remoteCanTrickleIce
  /\ UNCHANGED <<clients, restartSignalingClient, counts, locks, main, session>>

AnswerLater(h) ==
  /\ Step(h, "answer", "idle")
  /\ ~session[Own(h)].remoteCanTrickleIce
  /\ Unlock(h)
  /\ UNCHANGED <<clients, restartSignalingClient, counts, sendLock, main, session>>

(* onIceCandidateHandler takes no lock.  It sends a candidate to a viewer    *)
(* that trickles, and the answer, after the last one, to a viewer that does  *)
(* not.                                                                      *)
Gathering(t) == session[t] # NULL /\ session[t].gathering = "yes"

SendsNoAnswer(t) == FALSE   (* mutant *)
SendsAnswer(t) == ~session[t].remoteCanTrickleIce

Report(t, answer) ==
  /\ At(t, "idle")
  /\ Gathering(t)
  /\ sender' = [sender EXCEPT ![t] = [pc |-> "check", client |-> NULL, session |-> t, answer |-> answer]]

Gathered(t) ==
  /\ Report(t, FALSE)
  /\ session[t].remoteCanTrickleIce
  /\ UNCHANGED <<clients, restartSignalingClient, counts, locks, main, session>>

GatheringDone(t) ==
  /\ At(t, "idle")
  /\ Gathering(t)
  /\ session' = [session EXCEPT ![t].gathering = "done"]
  /\ IF SendsAnswer(t) THEN Report(t, TRUE) ELSE UNCHANGED sender
  /\ UNCHANGED <<clients, restartSignalingClient, counts, locks, main>>

(* pollApp frees a terminated session, and joins its thread.                 *)
SessionEnds(t) ==
  /\ session[t] # NULL
  /\ main = "wait" /\ objLock = NULL
  /\ At(t, "idle")
  /\ session' = [session EXCEPT ![t] = NULL]
  /\ UNCHANGED <<clients, restartSignalingClient, counts, locks, main, sender>>

(* The message of t is not sent; only that of an answer matters.             *)
Unsent(t) ==
  session' = [session EXCEPT ![Own(t)].failed = @ \/ sender[t].answer]

(* sendAppSignalingMessage tests the handle, takes its lock, and reads the   *)
(* handle again for the call.                                                *)
SendCheck(t) ==
  /\ Step(t, "check", "lock")
  /\ signalingClientHandle # NULL
  /\ UNCHANGED <<clients, restartSignalingClient, counts, locks, main, session>>

SendRefused(t) ==
  /\ Step(t, "check", "idle")
  /\ signalingClientHandle = NULL \/ "send" \in Faults
  /\ Unsent(t)
  /\ Unlock(t)
  /\ UNCHANGED <<clients, restartSignalingClient, counts, sendLock, main>>

SendBegin(t) ==
  /\ At(t, "lock")
  /\ sendLock = NULL /\ sendLock' = t
  /\ sender' = [sender EXCEPT ![t] = [@ EXCEPT !.pc = "send", !.client = signalingClientHandle]]
  /\ UNCHANGED <<clients, restartSignalingClient, counts, objLock, main, session>>

(* On a client that was freed before the call returns anything may happen.   *)
SendEnd(t) ==
  /\ Step(t, "send", "idle")
  /\ \/ /\ sender[t].client # NULL
        /\ session' = IF sender[t].answer
                      THEN [session EXCEPT ![Own(t)].answers = @ + 1] ELSE session
     \/ /\ sender[t].client \notin Live \/ "send" \in Faults
        /\ Unsent(t)
  /\ sendLock' = NULL
  /\ Unlock(t)
  /\ UNCHANGED <<clients, restartSignalingClient, counts, main>>

-----------------------------------------------------------------------------
(* The signaling client's own thread.                                        *)

(* onSignalingClientError, for the two errors that ask for a new client.     *)
ReportError(c) ==
  /\ c \in Live
  /\ failing' = failing \cup {c}
  /\ restartSignalingClient' = TRUE
  /\ UNCHANGED <<signalingClientHandle, client, counts, locks, main, sender, session>>

Disconnect(c) ==
  /\ client[c] = "connected"
  /\ client' = [client EXCEPT ![c] = "ready"]
  /\ UNCHANGED <<signalingClientHandle, failing, restartSignalingClient, counts,
                 locks, main, sender, session>>

-----------------------------------------------------------------------------
Init ==
  /\ signalingClientHandle = NULL
  /\ client = [c \in Clients |-> "none"]
  /\ failing = {}
  /\ restartSignalingClient = FALSE
  /\ iceServers = 0 /\ iceUriCount = 0
  /\ objLock = NULL /\ sendLock = NULL
  /\ main = "create"
  /\ sender = [t \in Senders |-> Idle]
  /\ session = [i \in IceThreads |-> NULL]

Run  == RunCreate \/ RunFetch \/ RunConnect
Poll == PollFreeClient \/ PollFreeFails \/ PollRecreate \/ PollReset \/ PollCheck \/ PollCheckFails
HandleOffer(h) ==
  \/ Query(h) \/ QueryFails(h) \/ WriteTrickle(h) \/ StartGathering(h) \/ OfferFails(h)
  \/ AnswerNow(h) \/ AnswerLater(h)
Send(t) == SendCheck(t) \/ SendRefused(t) \/ SendBegin(t) \/ SendEnd(t)

Next ==
  \/ Run \/ PollLock \/ Poll
  \/ \E h \in Handlers : Receive(h) \/ HandleOffer(h)
  \/ \E t \in IceThreads : Gathered(t) \/ GatheringDone(t) \/ SessionEnds(t)
  \/ \E t \in Senders : Send(t)
  \/ \E c \in Clients : ReportError(c) \/ Disconnect(c)

Spec == Init /\ [][Next]_vars

(* Threads run, a mutex is granted to a thread that keeps asking for it,     *)
(* freeSignalingClient does not fail every time it is tried again, and a     *)
(* peer connection does not report candidates for ever.                      *)
FairSpec ==
  /\ Spec
  /\ WF_vars(Run) /\ WF_vars(Poll) /\ SF_vars(PollLock) /\ SF_vars(PollFreeClient)
  /\ \A h \in Handlers : WF_vars(HandleOffer(h))
  /\ \A t \in IceThreads : SF_vars(GatheringDone(t))
  /\ \A t \in Senders :
       WF_vars(SendCheck(t) \/ SendRefused(t) \/ SendEnd(t)) /\ SF_vars(SendBegin(t))

-----------------------------------------------------------------------------
(* Properties                                                                *)

TypeOK ==
  /\ signalingClientHandle \in Clients \cup {NULL}
  /\ client \in [Clients -> {"none", "created", "ready", "connected", "freed"}]
  /\ failing \subseteq Live
  /\ restartSignalingClient \in BOOLEAN
  /\ iceServers \in 0 .. MaxTurnUris + 1
  /\ iceUriCount \in 0 .. MaxTurnUris + 2
  /\ objLock \in {NULL, "main"} \cup Handlers
  /\ sendLock \in {NULL} \cup Senders
  /\ main \in {"create", "fetch", "connect", "wait", "restart", "recreate", "reset",
               "check", "exit"}
  /\ sender \in [Senders -> SenderStates]
  /\ session \in [IceThreads -> {NULL} \cup SessionStates]

(* There is never a second client, and none is lost: whatever calls of a     *)
(* restart fail, the handle leads to the only client there is.               *)
OneClient == Live = {signalingClientHandle} \ {NULL}

(* An answer is sent on a client that is not freed before the call returns,  *)
(* although restarts take no send lock.                                      *)
AnswerOnLiveClient ==
  \A h \in Handlers : At(h, "send") => sender[h].client \in Live

(* A restart that a client's error asked for is made: another client, or    *)
(* the same address anew, replaces it, in a later pass if freeing it fails,  *)
(* or pollApp has ended.  Only the request of a client just created, which   *)
(* pollApp's reset of the flag wipes out, is not among them (SignalingLost). *)
RestartServed ==
  \A c \in Clients :
    c \in failing /\ restartSignalingClient /\ main # "reset" ~>
      main = "exit" \/ (c \notin failing /\ signalingClientHandle \in Live)

(* "If remote support trickle ice, send answer now. Otherwise answer will be *)
(* sent once ice candidate gathering is complete": never two answers, and    *)
(* none to a viewer that does not trickle before all candidates are in it,   *)
(* although the peer connection's thread reads the flag without a lock.      *)
AnswerOnce ==
  \A i \in IceThreads : session[i] # NULL =>
    /\ session[i].answers <= 1
    /\ session[i].answers = 1 /\ ~session[i].trickles => session[i].gathering = "done"

(* An offer is answered, whichever thread has to do it, unless a call fails  *)
(* or the session ends before.                                               *)
Answered ==
  \A i \in IceThreads :
    session[i] # NULL ~> session[i] = NULL \/ session[i].answers = 1 \/ session[i].failed

(* "We will force re-create the signaling client on the following errors": a *)
(* client that reports one does not stay, unless pollApp ends.               *)
FailingReplaced == \A c \in Clients : c \in failing ~> c \notin failing \/ main = "exit"

(* "Enable the processing of the messages": the client pollApp leaves in     *)
(* place has been fetched.                                                   *)
MessagesEnabled ==
  main = "wait" /\ signalingClientHandle # NULL => client[signalingClientHandle] # "created"

(* "the number of ice server including stun and turn"                        *)
IceUriCountExact == iceUriCount # 0 => iceUriCount = iceServers
=============================================================================
