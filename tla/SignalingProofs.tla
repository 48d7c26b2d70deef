-------------------------- MODULE SignalingProofs --------------------------
(***************************************************************************)
(* The signaling client and the answers of offers, for any number of       *)
(* clients, handlers and peer connections and any set of failing calls.    *)
(* Locked says what the object lock covers, Handles what the handle leads  *)
(* to, and Answers who may still answer an offer; Inv is inductive.  Each  *)
(* step lemma shows that a group of steps leads from Inv to one part.      *)
(***************************************************************************)
EXTENDS Signaling, TLAPS

(* A handler that is busy and a pass of pollApp hold the object lock.        *)
Locked ==
  /\ \A h \in Handlers : ~At(h, "idle") => objLock = h
  /\ main \in {"restart", "recreate", "reset", "check"} => objLock = "main"

(* The handle leads to the only client, it is invalid before a creation, and *)
(* it does not change under a handler between its test and its use.          *)
Handles ==
  /\ OneClient
  /\ main \in {"create", "recreate"} => signalingClientHandle = NULL
  /\ \A h \in Handlers :
       /\ sender[h].pc \in {"lock", "send"} => signalingClientHandle # NULL
       /\ At(h, "send") => sender[h].client = signalingClientHandle

(* A handler in handleOffer has its session; it has started no gathering     *)
(* before the flag is stored, and answers only a viewer that trickles.       *)
Sending == {"check", "lock", "send"}
MayAnswer(a, s) ==
  /\ a.answer
  /\ s # NULL
  /\ a.pc \in {"write", "gather"} => s.gathering = "no"
  /\ a.pc # "write" => s.remoteCanTrickleIce = s.trickles
  /\ a.pc \in Sending => s.trickles
  /\ a.pc \in {"write", "gather"} \/ s.trickles => s.answers = 0
HandlerAnswers ==
  \A h \in Handlers : sender[h].pc \notin {"idle", "query"} =>
    Own(h) \in IceThreads /\ MayAnswer(sender[h], session[Own(h)])

(* A peer connection's thread works on its session, after gathering has      *)
(* started, and answers only a viewer that does not trickle, at the end.     *)
Reports(a, i, s) ==
  /\ a.pc \in Sending /\ a.session = i
  /\ s # NULL
  /\ s.gathering # "no"
  /\ a.answer => s.gathering = "done" /\ ~s.trickles /\ s.answers = 0
ThreadAnswers ==
  \A i \in IceThreads : ~At(i, "idle") => Reports(sender[i], i, session[i])

(* Gathering starts after the flag is stored, and no viewer gets a second    *)
(* answer or one without all the candidates it waits for.                    *)
Stored(s) == s.gathering # "no" => s.remoteCanTrickleIce = s.trickles
Once(s) == s.answers <= 1 /\ (s.answers = 1 /\ ~s.trickles => s.gathering = "done")
FlagStored == \A i \in IceThreads : session[i] # NULL => Stored(session[i])

Answers == HandlerAnswers /\ ThreadAnswers /\ FlagStored /\ AnswerOnce

Inv == TypeOK /\ Locked /\ Handles /\ Answers

-----------------------------------------------------------------------------
(* A step of a thread within its functions changes its own state only.       *)
LEMMA StepWrites ==
  ASSUME TypeOK, NEW t \in Senders, NEW from,
         NEW to \in {"idle", "query", "write", "gather", "answer", "check", "lock", "send"},
         Step(t, from, to)
  PROVE  /\ sender[t].pc = from
         /\ sender' \in [Senders -> SenderStates]
         /\ \A u \in Senders \ {t} : sender'[u] = sender[u]
         /\ sender'[t].pc = to
         /\ to # "idle" => /\ sender'[t].client = sender[t].client
                           /\ sender'[t].session = sender[t].session
                           /\ sender'[t].answer = sender[t].answer
BY DEF TypeOK, Step, At, Idle, SenderStates

LEMMA InvInit == Init => Inv
<1> SUFFICES ASSUME Init PROVE Inv
  OBVIOUS
<1> USE SignalingAssumption DEF Init, At, Idle, Senders
<1>1. TypeOK
  <2>1. Idle \in SenderStates
    BY DEF SenderStates
  <2>2. iceServers \in 0 .. MaxTurnUris + 1 /\ iceUriCount \in 0 .. MaxTurnUris + 2
    OBVIOUS
  <2> HIDE DEF Idle
  <2> QED BY <2>1, <2>2 DEF TypeOK, Live
<1>2. Locked
  BY DEF Locked
<1>3. Handles
  BY DEF Handles, OneClient, Live
<1>4. Answers
  BY DEF Answers, HandlerAnswers, ThreadAnswers, FlagStored, AnswerOnce
<1> QED BY <1>1, <1>2, <1>3, <1>4 DEF Inv

-----------------------------------------------------------------------------
(* The steps of main and of the client: nothing of the sessions changes.     *)

(* The types of what main writes.                                            *)
LEMMA MainTypes ==
  ASSUME Inv, Run \/ PollLock \/ Poll PROVE TypeOK'
<1> USE SignalingAssumption
    DEF Inv, TypeOK, Handles, OneClient, Live, Ready, MainStep, clients, counts, locks, Unlock
<1>1. CASE Run
  BY <1>1 DEF Run, RunCreate, RunFetch, RunConnect, Create, SetState
<1>2. CASE PollLock
  BY <1>2 DEF PollLock, TakeObjLock
<1>3. CASE PollFreeClient \/ PollFreeFails
  BY <1>3 DEF PollFreeClient, PollFreeFails, Free, AfterFailedFree
<1>4. CASE PollRecreate \/ PollReset
  BY <1>4 DEF PollRecreate, PollReset, Create
<1>5. CASE PollCheck \/ PollCheckFails
  BY <1>5 DEF PollCheck, PollCheckFails, SetState
<1> QED BY <1>1, <1>2, <1>3, <1>4, <1>5 DEF Poll

(* main keeps the lock in a pass, and the only client.                       *)
LEMMA MainHandles ==
  ASSUME Inv, Run \/ PollLock \/ Poll PROVE Locked' /\ Handles'
<1> USE SignalingAssumption
    DEF Inv, TypeOK, Locked, Handles, OneClient, Live, Ready, At, Senders, MainStep,
        clients, counts, locks, Unlock
<1>1. CASE Run
  BY <1>1 DEF Run, RunCreate, RunFetch, RunConnect, Create, SetState
<1>2. CASE PollLock
  BY <1>2 DEF PollLock, TakeObjLock
<1>3. CASE PollFreeClient \/ PollFreeFails
  BY <1>3 DEF PollFreeClient, PollFreeFails, Free, AfterFailedFree
<1>4. CASE PollRecreate \/ PollReset
  BY <1>4 DEF PollRecreate, PollReset, Create
<1>5. CASE PollCheck \/ PollCheckFails
  BY <1>5 DEF PollCheck, PollCheckFails, SetState
<1> QED BY <1>1, <1>2, <1>3, <1>4, <1>5 DEF Poll

LEMMA MainStepKeeps ==
  ASSUME Inv, Run \/ PollLock \/ Poll PROVE Inv'
<1>1. UNCHANGED <<sender, session>>
  BY DEF Run, Poll, RunCreate, RunFetch, RunConnect, PollLock, PollFreeClient, PollFreeFails,
     PollRecreate, PollReset, PollCheck, PollCheckFails
<1>2. Answers'
  BY <1>1 DEF Inv, Answers, HandlerAnswers, MayAnswer, ThreadAnswers, Reports, FlagStored, Stored, AnswerOnce, At, Own
<1> QED BY <1>2, MainTypes, MainHandles DEF Inv

LEMMA ClientStepKeeps ==
  ASSUME Inv, NEW c \in Clients, ReportError(c) \/ Disconnect(c) PROVE Inv'
<1> USE DEF ReportError, Disconnect, counts, locks
<1>1. TypeOK'
  BY DEF Inv, TypeOK, Live
<1>2. Locked' /\ Handles'
  BY DEF Inv, TypeOK, Locked, Handles, OneClient, Live, At
<1>3. Answers'
  BY DEF Inv, Answers, HandlerAnswers, MayAnswer, ThreadAnswers, Reports, FlagStored, Stored, AnswerOnce, At, Own
<1> QED BY <1>1, <1>2, <1>3 DEF Inv

-----------------------------------------------------------------------------
(* The steps of a handler.                                                   *)

HandlerStep(h) == Receive(h) \/ HandleOffer(h) \/ Send(h)

(* What the steps write of the threads' states.                              *)
LEMMA HandlerWrites ==
  ASSUME Inv, NEW h \in Handlers, HandlerStep(h)
  PROVE  /\ h \in Senders /\ h \notin IceThreads /\ h # NULL /\ h # "main"
         /\ sender' \in [Senders -> SenderStates]
         /\ \A u \in Senders \ {h} : sender'[u] = sender[u]
<1> USE DEF Inv, Then
<1>1. h \in Senders /\ h \notin IceThreads /\ h # NULL /\ h # "main"
  BY SignalingAssumption DEF Senders
<1>2. CASE Receive(h)
  BY <1>1, <1>2, StepWrites DEF Receive
<1>3. CASE Query(h)
  <2>1. PICK i \in IceThreads :
          sender' = [sender EXCEPT ![h] = [@ EXCEPT !.pc = "write", !.session = i, !.answer = TRUE]]
    BY <1>3 DEF Query
  <2>2. sender[h] \in SenderStates
    BY <1>1 DEF TypeOK
  <2>3. [sender[h] EXCEPT !.pc = "write", !.session = i, !.answer = TRUE] \in SenderStates
    BY <2>2 DEF SenderStates
  <2> QED BY <1>1, <2>1, <2>3 DEF TypeOK
<1>4. CASE QueryFails(h) \/ AnswerNow(h) \/ AnswerLater(h)
  BY <1>1, <1>4, StepWrites DEF QueryFails, AnswerNow, AnswerLater
<1>5. CASE WriteTrickle(h) \/ StartGathering(h)
  BY <1>1, <1>5, StepWrites DEF WriteTrickle, StartGathering
<1>6. CASE OfferFails(h)
  BY <1>1, <1>6, StepWrites DEF OfferFails
<1>7. CASE SendCheck(h) \/ SendRefused(h) \/ SendEnd(h)
  BY <1>1, <1>7, StepWrites DEF SendCheck, SendRefused, SendEnd
<1>8. CASE SendBegin(h)
  <2>1. sender[h] \in SenderStates /\ signalingClientHandle \in Clients \cup {NULL}
    BY <1>1 DEF TypeOK
  <2>2. [sender[h] EXCEPT !.pc = "send", !.client = signalingClientHandle] \in SenderStates
    BY <2>1 DEF SenderStates
  <2> QED BY <1>1, <1>8, <2>2 DEF SendBegin, TypeOK
<1> QED BY <1>1, <1>2, <1>3, <1>4, <1>5, <1>6, <1>7, <1>8 DEF HandlerStep, HandleOffer, Send

(* A handler acts alone: main is not in a pass, and other handlers are idle. *)
LEMMA HandlerAlone ==
  ASSUME Inv, NEW h \in Handlers, HandlerStep(h)
  PROVE  /\ UNCHANGED <<clients, restartSignalingClient, main>>
         /\ main \notin {"restart", "recreate", "reset", "check"}
         /\ \A g \in Handlers \ {h} : At(g, "idle")
         /\ objLock' \in {NULL, h} /\ (sender'[h].pc # "idle" => objLock' = h)
<1>1. h \in Senders /\ h # NULL /\ h # "main" /\ TypeOK
  BY HandlerWrites DEF Inv
<1>2. objLock \in {NULL, h}
  <2>1. CASE Receive(h)
    BY <2>1 DEF Receive
  <2>2. CASE ~At(h, "idle")
    BY <2>2 DEF Inv, Locked
  <2> QED
    BY <2>1, <2>2 DEF HandlerStep, HandleOffer, Send, Query, QueryFails, WriteTrickle,
       StartGathering, OfferFails, AnswerNow, AnswerLater, SendCheck, SendRefused, SendBegin,
       SendEnd, Step, At
<1>3. At(h, "idle") \/ objLock = h
  BY DEF Inv, Locked
<1>4. main \notin {"restart", "recreate", "reset", "check"} /\ \A g \in Handlers \ {h} : At(g, "idle")
  BY <1>1, <1>2, SignalingAssumption DEF Inv, Locked, Senders
<1>5. UNCHANGED <<clients, restartSignalingClient, main>>
  BY DEF HandlerStep, Receive, HandleOffer, Send, Query, QueryFails, WriteTrickle,
     StartGathering, OfferFails, AnswerNow, AnswerLater, SendCheck, SendRefused, SendBegin, SendEnd
<1>6. objLock' \in {NULL, h} /\ (sender'[h].pc # "idle" => objLock' = h)
  <2>1. CASE Receive(h)
    BY <2>1 DEF Receive
  <2>2. CASE QueryFails(h) \/ AnswerLater(h)
    BY <1>1, <1>2, <2>2, StepWrites DEF QueryFails, AnswerLater, Unlock
  <2>3. CASE OfferFails(h)
    BY <1>1, <1>2, <2>3, StepWrites DEF OfferFails, Unlock
  <2>4. CASE SendRefused(h) \/ SendEnd(h)
    BY <1>1, <1>2, <2>4, StepWrites DEF SendRefused, SendEnd, Unlock
  <2>5. CASE Query(h) \/ WriteTrickle(h) \/ StartGathering(h) \/ AnswerNow(h)
    BY <1>2, <1>3, <2>5 DEF Query, WriteTrickle, StartGathering, AnswerNow, Step, At, locks
  <2>6. CASE SendCheck(h) \/ SendBegin(h)
    BY <1>2, <1>3, <2>6 DEF SendCheck, SendBegin, Step, At, locks
  <2> QED BY <2>1, <2>2, <2>3, <2>4, <2>5, <2>6 DEF HandlerStep, HandleOffer, Send
<1> QED BY <1>4, <1>5, <1>6

LEMMA HandlerHandles ==
  ASSUME Inv, NEW h \in Handlers, HandlerStep(h) PROVE Locked' /\ Handles'
<1>1. h \in Senders /\ h # NULL /\ h # "main" /\ TypeOK /\ Handlers \subseteq Senders
  BY HandlerWrites DEF Inv, Senders
<1>2. Locked'
  BY <1>1, HandlerWrites, HandlerAlone DEF Inv, Locked, At
<1>3. \A g \in Handlers \ {h} : sender'[g].pc = "idle"
  BY <1>1, HandlerWrites, HandlerAlone DEF At
<1>4. /\ sender'[h].pc \in {"lock", "send"} => signalingClientHandle # NULL
      /\ sender'[h].pc = "send" => sender'[h].client = signalingClientHandle
  <2>1. CASE SendBegin(h)
    BY <1>1, <2>1 DEF SendBegin, Inv, Handles, TypeOK, At
  <2>2. CASE SendCheck(h)
    BY <1>1, <2>2, StepWrites DEF SendCheck
  <2>3. CASE SendRefused(h) \/ SendEnd(h) \/ Receive(h)
    BY <1>1, <2>3, StepWrites DEF SendRefused, SendEnd, Receive
  <2>4. CASE WriteTrickle(h) \/ StartGathering(h) \/ OfferFails(h)
    BY <1>1, <2>4, StepWrites DEF WriteTrickle, StartGathering, OfferFails, Then
  <2>5. CASE QueryFails(h) \/ AnswerNow(h) \/ AnswerLater(h)
    BY <1>1, <2>5, StepWrites DEF QueryFails, AnswerNow, AnswerLater
  <2>6. CASE Query(h)
    BY <1>1, <2>6 DEF Query, Then, TypeOK, SenderStates
  <2> QED BY <2>1, <2>2, <2>3, <2>4, <2>5, <2>6 DEF HandlerStep, HandleOffer, Send
<1>5. Handles'
  BY <1>3, <1>4, HandlerAlone DEF Inv, Handles, OneClient, Live, At, clients
<1> QED BY <1>2, <1>5

(* What a handler does to the session of i while the thread of i works on it *)
(* leaves alone what that thread relies on.                                  *)
Follows(s, r) ==
  /\ s.gathering = r.gathering \/ r.gathering = "no"
  /\ s.trickles = r.trickles
  /\ s.trickles \/ s.answers = r.answers

(* A handler in handleOffer writes its own session; all other sessions and   *)
(* all threads stay as they are.                                             *)
LEMMA OwnSession ==
  ASSUME Inv, NEW h \in Handlers, HandlerStep(h), NEW i \in IceThreads,
         NEW s \in SessionStates, session' = [session EXCEPT ![i] = s],
         sender'[h].pc \notin {"idle", "query"} => sender'[h].session = i /\ MayAnswer(sender'[h], s),
         Stored(s), Once(s),
         ~At(i, "idle") => Follows(s, session[i])
  PROVE  session' \in [IceThreads -> {NULL} \cup SessionStates] /\ Answers'
<1>1. h \in Senders /\ TypeOK /\ Handlers \subseteq Senders /\ IceThreads \subseteq Senders
  BY HandlerWrites DEF Inv, Senders
<1>2. session' \in [IceThreads -> {NULL} \cup SessionStates]
  BY <1>1 DEF TypeOK
<1>3. session'[i] = s /\ (\A j \in IceThreads \ {i} : session'[j] = session[j]) /\ s # NULL
  BY <1>1, SignalingAssumption DEF TypeOK
<1>4. \A j \in IceThreads : sender'[j] = sender[j]
  BY <1>1, HandlerWrites
<1>5. \A g \in Handlers \ {h} : sender'[g].pc = "idle"
  BY <1>1, HandlerWrites, HandlerAlone DEF At
<1>6. HandlerAnswers'
  BY <1>3, <1>5 DEF HandlerAnswers, Own
<1>7. ThreadAnswers'
  <2> SUFFICES ASSUME NEW j \in IceThreads, sender[j].pc # "idle"
               PROVE  Reports(sender[j], j, session'[j])
    BY <1>4 DEF ThreadAnswers, At
  <2>1. Reports(sender[j], j, session[j])
    BY DEF Inv, Answers, ThreadAnswers, At
  <2>2. CASE j = i
    <3>1. Follows(s, session[i])
      BY <2>2 DEF At
    <3>2. sender[i].answer => s.gathering = "done" /\ ~s.trickles /\ s.answers = 0
      <4> SUFFICES ASSUME sender[i].answer PROVE s.gathering = "done" /\ ~s.trickles /\ s.answers = 0
        OBVIOUS
      <4>1. session[i].gathering = "done" /\ ~session[i].trickles /\ session[i].answers = 0
        BY <2>1, <2>2 DEF Reports
      <4>2. ~s.trickles
        BY <3>1, <4>1 DEF Follows
      <4> QED BY <3>1, <4>1, <4>2 DEF Follows
    <3>3. sender[i].pc \in Sending /\ sender[i].session = i /\ s.gathering # "no"
      BY <2>1, <2>2, <3>1 DEF Follows, Reports
    <3> QED BY <1>3, <2>2, <3>2, <3>3 DEF Reports
  <2>3. CASE j # i
    BY <1>3, <2>1, <2>3
  <2> QED BY <2>2, <2>3
<1>8. FlagStored'
  BY <1>3 DEF Inv, Answers, FlagStored, Stored
<1>9. AnswerOnce'
  BY <1>3 DEF Inv, Answers, AnswerOnce, Once
<1> QED BY <1>2, <1>6, <1>7, <1>8, <1>9 DEF Answers

(* Without a change of a session only the handler's own part matters.        *)
LEMMA SameSessions ==
  ASSUME Inv, NEW h \in Handlers, HandlerStep(h), UNCHANGED session,
         sender'[h].pc \notin {"idle", "query"} =>
           /\ sender[h].pc \notin {"idle", "query", "write", "gather"}
           /\ sender'[h].session = Own(h) /\ sender'[h].answer = sender[h].answer
           /\ sender'[h].pc \in Sending \cup {"answer"}
           /\ sender'[h].pc \in Sending /\ sender[h].pc \notin Sending => session[Own(h)].trickles
  PROVE  session' \in [IceThreads -> {NULL} \cup SessionStates] /\ Answers'
<1>1. h \in Senders /\ TypeOK /\ Handlers \subseteq Senders /\ IceThreads \subseteq Senders
  BY HandlerWrites DEF Inv, Senders
<1>2. \A j \in IceThreads : sender'[j] = sender[j]
  BY <1>1, HandlerWrites
<1>3. \A g \in Handlers \ {h} : sender'[g].pc = "idle"
  BY <1>1, HandlerWrites, HandlerAlone DEF At
<1>4. HandlerAnswers'
  BY <1>3 DEF Inv, Answers, HandlerAnswers, MayAnswer, Own, Sending
<1>5. ThreadAnswers' /\ FlagStored' /\ AnswerOnce'
  BY <1>2 DEF Inv, Answers, ThreadAnswers, Reports, FlagStored, Stored, AnswerOnce, At, Own
<1> QED BY <1>1, <1>4, <1>5 DEF Answers, TypeOK

LEMMA HandlerSessions ==
  ASSUME Inv, NEW h \in Handlers, HandlerStep(h)
  PROVE  session' \in [IceThreads -> {NULL} \cup SessionStates] /\ Answers'
<1>1. h \in Senders /\ TypeOK /\ Answers
  BY HandlerWrites DEF Inv
<1>2. CASE Receive(h) \/ QueryFails(h) \/ AnswerLater(h)
  BY <1>1, <1>2, StepWrites, SameSessions DEF Receive, QueryFails, AnswerLater
<1>3. CASE AnswerNow(h)
  BY <1>1, <1>3, StepWrites, SameSessions DEF AnswerNow, Answers, HandlerAnswers, MayAnswer, Own, Sending
<1>4. CASE SendCheck(h)
  BY <1>1, <1>4, StepWrites, SameSessions DEF SendCheck, Own, Sending
<1>5. CASE SendBegin(h)
  <2>1. /\ sender[h].pc = "lock" /\ sender'[h].pc = "send"
        /\ sender'[h].session = Own(h) /\ sender'[h].answer = sender[h].answer
    BY <1>1, <1>5 DEF SendBegin, At, Own, TypeOK, SenderStates
  <2> QED BY <1>5, <2>1, SameSessions DEF SendBegin, Sending
<1>6. CASE Query(h)
  <2>1. PICK i \in IceThreads, trickles \in BOOLEAN :
          /\ session[i] = NULL
          /\ session' = [session EXCEPT ![i] = NewSession(trickles)]
          /\ sender' = [sender EXCEPT ![h] = [@ EXCEPT !.pc = Then.first, !.session = i, !.answer = TRUE]]
    BY <1>6 DEF Query
  <2>2. sender'[h].pc = "write" /\ sender'[h].session = i /\ sender'[h].answer
    BY <1>1, <2>1 DEF TypeOK, SenderStates, Then
  <2>3. At(i, "idle")
    BY <1>1, <2>1 DEF Answers, ThreadAnswers, Reports
  <2>4. NewSession(trickles) \in SessionStates
    BY DEF NewSession, SessionStates
  <2>5. MayAnswer(sender'[h], NewSession(trickles)) /\ Stored(NewSession(trickles)) /\ Once(NewSession(trickles))
    <3>1. /\ NewSession(trickles) # NULL
          /\ NewSession(trickles).gathering = "no" /\ NewSession(trickles).answers = 0
      BY <2>4, SignalingAssumption DEF NewSession
    <3> QED BY <2>2, <3>1 DEF MayAnswer, Stored, Once, Sending
  <2> QED BY <2>1, <2>2, <2>3, <2>4, <2>5, OwnSession
<1>7. ASSUME sender[h].pc \in {"write", "gather"} \cup Sending,
             WriteTrickle(h) \/ StartGathering(h) \/ OfferFails(h) \/ SendRefused(h) \/ SendEnd(h)
      PROVE  session' \in [IceThreads -> {NULL} \cup SessionStates] /\ Answers'
  <2> DEFINE i == Own(h)
  <2>1. /\ i \in IceThreads /\ session[i] \in SessionStates /\ sender[h].answer
        /\ sender[h].pc \in {"write", "gather"} => session[i].gathering = "no"
        /\ sender[h].pc # "write" => session[i].remoteCanTrickleIce = session[i].trickles
        /\ sender[h].pc \in Sending => session[i].trickles
        /\ session[i].answers = 0
    BY <1>1, <1>7 DEF Answers, HandlerAnswers, MayAnswer, TypeOK, Sending
  <2>2. session[i].gathering = "no" => At(i, "idle")
    BY <1>1, <2>1 DEF Answers, ThreadAnswers, Reports
  <2> HIDE DEF i
  <2>3. CASE WriteTrickle(h)
    <3> DEFINE s == [session[i] EXCEPT !.remoteCanTrickleIce = session[i].trickles]
    <3>1. sender[h].pc = "write" /\ sender'[h].pc = "gather" /\ sender'[h].session = i /\ sender'[h].answer
      BY <1>1, <2>1, <2>3, StepWrites DEF WriteTrickle, Then, Own, i
    <3>2. session' = [session EXCEPT ![i] = s]
      BY <1>1, <2>1, <2>3 DEF WriteTrickle, TypeOK, i
    <3>3. /\ s \in SessionStates /\ s.gathering = session[i].gathering /\ s.answers = 0
          /\ s.remoteCanTrickleIce = s.trickles
      BY <2>1 DEF SessionStates
    <3> HIDE DEF s
    <3>4. MayAnswer(sender'[h], s) /\ Stored(s) /\ Once(s)
      BY <2>1, <3>1, <3>3, SignalingAssumption DEF MayAnswer, Stored, Once, Sending
    <3> QED BY <2>1, <2>2, <3>1, <3>2, <3>3, <3>4, OwnSession
  <2>4. CASE StartGathering(h)
    <3> DEFINE s == [session[i] EXCEPT !.gathering = "yes"]
    <3>1. sender[h].pc = "gather" /\ sender'[h].pc = "answer" /\ sender'[h].session = i /\ sender'[h].answer
      BY <1>1, <2>1, <2>4, StepWrites DEF StartGathering, Then, Own, i
    <3>2. session' = [session EXCEPT ![i] = s]
      BY <1>1, <2>1, <2>4 DEF StartGathering, TypeOK, i
    <3>3. s \in SessionStates /\ s.answers = 0 /\ s.remoteCanTrickleIce = s.trickles
      BY <2>1, <3>1 DEF SessionStates
    <3> HIDE DEF s
    <3>4. MayAnswer(sender'[h], s) /\ Stored(s) /\ Once(s)
      BY <2>1, <3>1, <3>3, SignalingAssumption DEF MayAnswer, Stored, Once, Sending
    <3> QED BY <2>1, <2>2, <3>1, <3>2, <3>3, <3>4, OwnSession
  <2>5. CASE OfferFails(h) \/ SendRefused(h) \/ (SendEnd(h) /\ Unsent(h))
    <3>1. PICK b \in BOOLEAN : session' = [session EXCEPT ![i].failed = b]
      BY <2>1, <2>5 DEF OfferFails, SendRefused, Unsent, SessionStates, i
    <3> DEFINE s == [session[i] EXCEPT !.failed = b]
    <3>2. sender'[h].pc = "idle"
      BY <1>1, <2>5, StepWrites DEF OfferFails, SendRefused, SendEnd
    <3>3. session' = [session EXCEPT ![i] = s]
      BY <1>1, <2>1, <3>1 DEF TypeOK
    <3>4. /\ s \in SessionStates /\ s.gathering = session[i].gathering /\ s.answers = 0
          /\ s.remoteCanTrickleIce = session[i].remoteCanTrickleIce /\ s.trickles = session[i].trickles
      BY <2>1 DEF SessionStates
    <3>5. s.gathering # "no" => s.remoteCanTrickleIce = s.trickles
      BY <1>7, <2>1, <3>4
    <3> HIDE DEF s
    <3>6. Stored(s) /\ Once(s) /\ Follows(s, session[i])
      BY <2>1, <3>4, <3>5 DEF Stored, Once, Follows
    <3> QED BY <2>1, <3>2, <3>3, <3>4, <3>6, OwnSession
  <2>6. CASE SendEnd(h) /\ ~Unsent(h)
    <3> DEFINE s == [session[i] EXCEPT !.answers = @ + 1]
    <3>1. sender[h].pc = "send" /\ sender'[h].pc = "idle"
      BY <1>1, <2>6, StepWrites DEF SendEnd
    <3>2. session' = [session EXCEPT ![i] = s]
      BY <1>1, <2>1, <2>6 DEF SendEnd, TypeOK, i
    <3>3. /\ s \in SessionStates /\ s.gathering = session[i].gathering /\ s.answers = 1
          /\ s.remoteCanTrickleIce = s.trickles /\ s.trickles = session[i].trickles /\ s.trickles
      BY <2>1, <3>1 DEF SessionStates, Sending
    <3> HIDE DEF s
    <3>4. Stored(s) /\ Once(s) /\ Follows(s, session[i])
      <4>1. Stored(s)
        BY <3>3 DEF Stored
      <4>2. Once(s)
        BY <3>3 DEF Once
      <4>3. Follows(s, session[i])
        BY <3>3 DEF Follows
      <4> QED BY <4>1, <4>2, <4>3
    <3> QED BY <2>1, <3>1, <3>2, <3>3, <3>4, OwnSession
  <2> QED BY <1>7, <2>3, <2>4, <2>5, <2>6
<1>8. WriteTrickle(h) \/ StartGathering(h) \/ OfferFails(h) \/ SendRefused(h) \/ SendEnd(h)
        => sender[h].pc \in {"write", "gather"} \cup Sending
  BY DEF WriteTrickle, StartGathering, OfferFails, SendRefused, SendEnd, Step, At, Sending
<1> QED
  BY <1>2, <1>3, <1>4, <1>5, <1>6, <1>7, <1>8 DEF HandlerStep, HandleOffer, Send

LEMMA HandlerStepKeeps ==
  ASSUME Inv, NEW h \in Handlers, HandlerStep(h) PROVE Inv'
<1>1. sendLock' \in {NULL} \cup Senders
  BY HandlerWrites DEF Inv, TypeOK, HandlerStep, Receive, HandleOffer, Send, Query, QueryFails,
     WriteTrickle, StartGathering, OfferFails, AnswerNow, AnswerLater, SendCheck, SendRefused,
     SendBegin, SendEnd, locks
<1>2. iceServers' \in 0 .. MaxTurnUris + 1 /\ iceUriCount' \in 0 .. MaxTurnUris + 2
  <2>1. CASE Query(h)
    BY <2>1, SignalingAssumption DEF Query
  <2>2. UNCHANGED counts \/ Query(h)
    BY DEF HandlerStep, Receive, HandleOffer, Send, QueryFails, WriteTrickle, StartGathering,
       OfferFails, AnswerNow, AnswerLater, SendCheck, SendRefused, SendBegin, SendEnd
  <2> QED BY <2>1, <2>2 DEF Inv, TypeOK, counts
<1>3. TypeOK'
  BY <1>1, <1>2, HandlerWrites, HandlerAlone, HandlerSessions DEF Inv, TypeOK, Live, clients
<1> QED BY <1>3, HandlerHandles, HandlerSessions DEF Inv

-----------------------------------------------------------------------------
(* The steps of a peer connection's thread.                                  *)

ThreadStep(i) == Gathered(i) \/ GatheringDone(i) \/ SessionEnds(i) \/ Send(i)

(* A thread writes its own state, and its session at most; it takes no lock  *)
(* but the send lock.                                                        *)
LEMMA ThreadWrites ==
  ASSUME Inv, NEW i \in IceThreads, ThreadStep(i)
  PROVE  /\ i \in Senders /\ i \notin Handlers
         /\ sender' \in [Senders -> SenderStates]
         /\ \A u \in Senders \ {i} : sender'[u] = sender[u]
         /\ sendLock' \in {NULL} \cup Senders
         /\ UNCHANGED <<clients, restartSignalingClient, counts, objLock, main>>
<1> USE DEF locks
<1>1. i \in Senders /\ i \notin Handlers /\ objLock # i /\ TypeOK
  BY SignalingAssumption DEF Senders, Inv, TypeOK
<1>2. CASE Gathered(i) \/ GatheringDone(i)
  <2>1. \A answer \in BOOLEAN :
          [pc |-> "check", client |-> NULL, session |-> i, answer |-> answer] \in SenderStates
    BY DEF SenderStates
  <2>2. \A answer \in BOOLEAN : Report(i, answer) =>
          /\ sender' \in [Senders -> SenderStates]
          /\ \A u \in Senders \ {i} : sender'[u] = sender[u]
    BY <1>1, <2>1 DEF Report, TypeOK
  <2> QED BY <1>1, <1>2, <2>2 DEF Gathered, GatheringDone, TypeOK
<1>3. CASE SessionEnds(i)
  BY <1>1, <1>3 DEF SessionEnds, TypeOK
<1>4. CASE SendCheck(i) \/ SendRefused(i) \/ SendEnd(i)
  BY <1>1, <1>4, StepWrites DEF SendCheck, SendRefused, SendEnd, Unlock, TypeOK
<1>5. CASE SendBegin(i)
  <2>1. sender[i] \in SenderStates /\ signalingClientHandle \in Clients \cup {NULL}
    BY <1>1 DEF TypeOK
  <2>2. [sender[i] EXCEPT !.pc = "send", !.client = signalingClientHandle] \in SenderStates
    BY <2>1 DEF SenderStates
  <2> QED BY <1>1, <1>5, <2>2 DEF SendBegin, TypeOK
<1> QED BY <1>1, <1>2, <1>3, <1>4, <1>5 DEF ThreadStep, Send

(* What a thread does to its own session once gathering has started leaves   *)
(* alone what the handler of the offer relies on.                            *)
LEMMA OwnReport ==
  ASSUME Inv, NEW i \in IceThreads, ThreadStep(i),
         session[i] # NULL, session[i].gathering # "no",
         NEW s \in SessionStates, session' = [session EXCEPT ![i] = s],
         s.trickles = session[i].trickles,
         s.remoteCanTrickleIce = session[i].remoteCanTrickleIce,
         s.gathering # "no",
         s.trickles => s.answers = session[i].answers,
         Once(s),
         sender'[i].pc # "idle" => Reports(sender'[i], i, s)
  PROVE  session' \in [IceThreads -> {NULL} \cup SessionStates] /\ Answers'
<1>1. i \in Senders /\ i \notin Handlers /\ TypeOK
      /\ Handlers \subseteq Senders /\ IceThreads \subseteq Senders
  BY ThreadWrites DEF Inv, Senders
<1>2. session' \in [IceThreads -> {NULL} \cup SessionStates]
  BY <1>1 DEF TypeOK
<1>3. session'[i] = s /\ (\A j \in IceThreads \ {i} : session'[j] = session[j]) /\ s # NULL
  BY <1>1, SignalingAssumption DEF TypeOK
<1>4. \A u \in Senders \ {i} : sender'[u] = sender[u]
  BY ThreadWrites
<1>5. HandlerAnswers'
  <2> SUFFICES ASSUME NEW h \in Handlers, sender[h].pc \notin {"idle", "query"}
               PROVE  sender[h].session \in IceThreads
                      /\ MayAnswer(sender[h], session'[sender[h].session])
    BY <1>1, <1>4 DEF HandlerAnswers, Own
  <2>1. sender[h].session \in IceThreads /\ MayAnswer(sender[h], session[sender[h].session])
    BY DEF Inv, Answers, HandlerAnswers, Own
  <2>2. CASE sender[h].session = i
    <3>1. MayAnswer(sender[h], session[i])
      BY <2>1, <2>2
    <3>2. sender[h].pc \notin {"write", "gather"}
      BY <3>1 DEF MayAnswer
    <3>3. s.remoteCanTrickleIce = s.trickles
      BY <3>1, <3>2 DEF MayAnswer
    <3>4. sender[h].pc \in Sending => s.trickles
      BY <3>1 DEF MayAnswer
    <3>5. s.trickles => s.answers = 0
      BY <3>1 DEF MayAnswer
    <3>6. sender[h].answer
      BY <3>1 DEF MayAnswer
    <3>7. MayAnswer(sender[h], s)
      BY <1>3, <3>2, <3>3, <3>4, <3>5, <3>6 DEF MayAnswer
    <3> QED BY <1>3, <2>1, <2>2, <3>7
  <2>3. CASE sender[h].session # i
    BY <1>3, <2>1, <2>3
  <2> QED BY <2>2, <2>3
<1>6. ThreadAnswers'
  BY <1>1, <1>3, <1>4 DEF Inv, Answers, ThreadAnswers, At
<1>7. FlagStored'
  <2>1. Stored(s)
    BY DEF Inv, Answers, FlagStored, Stored
  <2> QED BY <1>3, <2>1 DEF Inv, Answers, FlagStored
<1>8. AnswerOnce'
  BY <1>3 DEF Inv, Answers, AnswerOnce, Once
<1> QED BY <1>2, <1>5, <1>6, <1>7, <1>8 DEF Answers

(* The three kinds of steps: with its session as it is, of which only the    *)
(* history of failures may change, the end of gathering and the answer, and  *)
(* the end of the session.                                                   *)
LEMMA ThreadReports ==
  ASSUME Inv, NEW i \in IceThreads, Gathered(i) \/ Send(i)
  PROVE  session' \in [IceThreads -> {NULL} \cup SessionStates] /\ Answers'
<1>1. i \in Senders /\ i \notin Handlers /\ TypeOK /\ Answers /\ ThreadStep(i)
  BY ThreadWrites DEF Inv, ThreadStep
<1>2. sender[i].pc # "idle" => Reports(sender[i], i, session[i])
  BY <1>1 DEF Answers, ThreadAnswers, At
<1>3. session[i] # NULL /\ session[i].gathering # "no"
  <2>1. CASE Gathered(i)
    BY <2>1 DEF Gathered, Report, Gathering
  <2>2. CASE Send(i)
    BY <1>2, <2>2 DEF Send, SendCheck, SendRefused, SendBegin, SendEnd, Step, At, Reports
  <2> QED BY <2>1, <2>2
<1>4. session[i] \in SessionStates /\ Once(session[i])
  BY <1>1, <1>3 DEF TypeOK, Answers, AnswerOnce, Once
<1>5. session' = session => session' = [session EXCEPT ![i] = session[i]]
  BY <1>1 DEF TypeOK
<1>6. CASE Gathered(i)
  <2>1. sender'[i] = [pc |-> "check", client |-> NULL, session |-> i, answer |-> FALSE]
    BY <1>1, <1>6 DEF Gathered, Report, TypeOK
  <2>2. Reports(sender'[i], i, session[i])
    BY <1>3, <2>1 DEF Reports, Sending
  <2> QED BY <1>1, <1>3, <1>4, <1>5, <1>6, <2>2, OwnReport DEF Gathered
<1>7. CASE SendCheck(i) \/ SendBegin(i)
  <2>1. /\ sender[i].pc \in Sending /\ sender'[i].pc \in Sending
        /\ sender'[i].session = sender[i].session /\ sender'[i].answer = sender[i].answer
    <3>1. CASE SendCheck(i)
      BY <1>1, <3>1, StepWrites DEF SendCheck, Sending
    <3>2. CASE SendBegin(i)
      BY <1>1, <3>2 DEF SendBegin, At, TypeOK, SenderStates, Sending
    <3> QED BY <1>7, <3>1, <3>2
  <2>2. Reports(sender[i], i, session[i])
    BY <1>2, <2>1 DEF Sending
  <2>3. Reports(sender'[i], i, session[i])
    BY <2>1, <2>2 DEF Reports
  <2>4. session' = session
    BY <1>7 DEF SendCheck, SendBegin
  <2> QED BY <1>1, <1>3, <1>4, <1>5, <2>3, <2>4, OwnReport
<1>8. ASSUME SendRefused(i) \/ SendEnd(i)
      PROVE  session' \in [IceThreads -> {NULL} \cup SessionStates] /\ Answers'
  <2>1. sender[i].pc # "idle" /\ sender'[i].pc = "idle"
    BY <1>1, <1>8, StepWrites DEF SendRefused, SendEnd
  <2>2. Own(i) = i
    BY <1>2, <2>1 DEF Reports, Own
  <2>3. CASE Unsent(i)
    <3>1. PICK b \in BOOLEAN : session' = [session EXCEPT ![i].failed = b]
      BY <1>1, <1>4, <2>2, <2>3 DEF Unsent, SessionStates, TypeOK, SenderStates
    <3> DEFINE s == [session[i] EXCEPT !.failed = b]
    <3>2. session' = [session EXCEPT ![i] = s]
      BY <1>1, <3>1 DEF TypeOK
    <3>3. /\ s \in SessionStates /\ s.gathering = session[i].gathering
          /\ s.answers = session[i].answers /\ s.trickles = session[i].trickles
          /\ s.remoteCanTrickleIce = session[i].remoteCanTrickleIce
      BY <1>4 DEF SessionStates
    <3> HIDE DEF s
    <3>4. Once(s)
      BY <1>4, <3>3 DEF Once
    <3> QED BY <1>1, <1>3, <2>1, <3>2, <3>3, <3>4, OwnReport
  <2>4. CASE ~Unsent(i) /\ ~sender[i].answer
    <3>1. session' = session
      BY <1>8, <2>4 DEF SendRefused, SendEnd
    <3> QED BY <1>1, <1>3, <1>4, <1>5, <2>1, <3>1, OwnReport
  <2>5. CASE ~Unsent(i) /\ sender[i].answer
    <3> DEFINE s == [session[i] EXCEPT !.answers = @ + 1]
    <3>1. session' = [session EXCEPT ![i] = s]
      BY <1>1, <1>8, <2>2, <2>5 DEF SendRefused, SendEnd, TypeOK
    <3>2. session[i].gathering = "done" /\ ~session[i].trickles /\ session[i].answers = 0
      BY <1>2, <2>1, <2>5 DEF Reports
    <3>3. /\ s \in SessionStates /\ s.gathering = "done" /\ s.answers = 1
          /\ s.trickles = session[i].trickles
          /\ s.remoteCanTrickleIce = session[i].remoteCanTrickleIce
      BY <1>4, <3>2 DEF SessionStates
    <3> HIDE DEF s
    <3>4. Once(s)
      BY <3>3 DEF Once
    <3>5. ~s.trickles
      BY <3>2, <3>3
    <3>6. s.gathering # "no"
      BY <3>3
    <3> QED BY <1>1, <1>3, <2>1, <3>1, <3>3, <3>4, <3>5, <3>6, OwnReport
  <2> QED BY <2>3, <2>4, <2>5
<1> QED BY <1>6, <1>7, <1>8 DEF Send

LEMMA ThreadDone ==
  ASSUME Inv, NEW i \in IceThreads, GatheringDone(i)
  PROVE  session' \in [IceThreads -> {NULL} \cup SessionStates] /\ Answers'
<1>1. i \in Senders /\ i \notin Handlers /\ TypeOK /\ Answers /\ ThreadStep(i)
  BY ThreadWrites DEF Inv, ThreadStep
<1>2. session[i] # NULL /\ session[i].gathering = "yes" /\ sender[i].pc = "idle"
  BY DEF GatheringDone, Gathering, At
<1>3. session[i] \in SessionStates /\ Once(session[i]) /\ Stored(session[i])
  BY <1>1, <1>2 DEF TypeOK, Answers, AnswerOnce, FlagStored, Once
<1> DEFINE s == [session[i] EXCEPT !.gathering = "done"]
<1>4. session' = [session EXCEPT ![i] = s]
  BY <1>1 DEF GatheringDone, TypeOK
<1>5. /\ s \in SessionStates /\ s # NULL /\ s.gathering = "done" /\ s.answers = session[i].answers
      /\ s.trickles = session[i].trickles
      /\ s.remoteCanTrickleIce = session[i].remoteCanTrickleIce
  BY <1>3, SignalingAssumption DEF SessionStates
<1> HIDE DEF s
<1>6. Once(s)
  BY <1>3, <1>5 DEF Once
<1>7. sender'[i].pc # "idle" => Reports(sender'[i], i, s)
  <2>1. CASE SendsAnswer(i)
    <3>1. sender'[i] = [pc |-> "check", client |-> NULL, session |-> i, answer |-> TRUE]
      BY <1>1, <2>1 DEF GatheringDone, Report, TypeOK
    <3>2. ~session[i].trickles
      BY <1>2, <1>3, <2>1 DEF SendsAnswer, Stored
    <3>3. session[i].answers = 0
      BY <1>2, <1>3, <3>2 DEF Once, SessionStates
    <3>4. ~s.trickles
      BY <1>5, <3>2
    <3> QED BY <1>5, <3>1, <3>3, <3>4 DEF Reports, Sending
  <2>2. CASE ~SendsAnswer(i)
    BY <1>2, <2>2 DEF GatheringDone
  <2> QED BY <2>1, <2>2
<1>8. s.gathering # "no" /\ session[i].gathering # "no"
  BY <1>2, <1>5
<1> QED BY <1>1, <1>2, <1>4, <1>5, <1>6, <1>7, <1>8, OwnReport

LEMMA ThreadEnds ==
  ASSUME Inv, NEW i \in IceThreads, SessionEnds(i)
  PROVE  session' \in [IceThreads -> {NULL} \cup SessionStates] /\ Answers'
<1>1. TypeOK /\ Answers /\ sender' = sender /\ sender[i].pc = "idle"
  BY DEF Inv, SessionEnds, At
<1>2. \A h \in Handlers : sender[h].pc = "idle"
  BY SignalingAssumption DEF Inv, Locked, SessionEnds, At, Senders
<1>3. session'[i] = NULL /\ \A j \in IceThreads \ {i} : session'[j] = session[j]
  BY <1>1 DEF SessionEnds, TypeOK
<1>4. session' \in [IceThreads -> {NULL} \cup SessionStates]
  BY <1>1 DEF SessionEnds, TypeOK
<1>5. HandlerAnswers' /\ ThreadAnswers'
  BY <1>1, <1>2, <1>3 DEF Answers, HandlerAnswers, ThreadAnswers, At
<1>6. FlagStored' /\ AnswerOnce'
  BY <1>1, <1>3 DEF Answers, FlagStored, AnswerOnce
<1> QED BY <1>4, <1>5, <1>6 DEF Answers

LEMMA ThreadStepKeeps ==
  ASSUME Inv, NEW i \in IceThreads, ThreadStep(i) PROVE Inv'
<1>1. session' \in [IceThreads -> {NULL} \cup SessionStates] /\ Answers'
  BY ThreadReports, ThreadDone, ThreadEnds DEF ThreadStep
<1>2. TypeOK'
  BY <1>1, ThreadWrites DEF Inv, TypeOK, Live, clients, counts
<1>3. \A h \in Handlers : sender'[h] = sender[h]
  BY ThreadWrites DEF Senders
<1>4. Locked'
  BY <1>3, ThreadWrites DEF Inv, Locked, At
<1>5. Handles'
  BY <1>3, ThreadWrites DEF Inv, Handles, OneClient, Live, At, clients
<1> QED BY <1>1, <1>2, <1>4, <1>5 DEF Inv

-----------------------------------------------------------------------------
LEMMA InvStep == Inv /\ [Next]_vars => Inv'
<1> SUFFICES ASSUME Inv, [Next]_vars PROVE Inv'
  OBVIOUS
<1>1. CASE Run \/ PollLock \/ Poll
  BY <1>1, MainStepKeeps
<1>2. ASSUME NEW h \in Handlers, Receive(h) \/ HandleOffer(h) \/ Send(h) PROVE Inv'
  BY <1>2, HandlerStepKeeps DEF HandlerStep
<1>3. ASSUME NEW i \in IceThreads, Gathered(i) \/ GatheringDone(i) \/ SessionEnds(i) \/ Send(i)
      PROVE  Inv'
  BY <1>3, ThreadStepKeeps DEF ThreadStep
<1>4. ASSUME NEW c \in Clients, ReportError(c) \/ Disconnect(c) PROVE Inv'
  BY <1>4, ClientStepKeeps
<1>5. CASE UNCHANGED vars
  BY <1>5 DEF vars, clients, counts, locks, Inv, TypeOK, Live, Locked, Handles, OneClient, Answers,
     HandlerAnswers, MayAnswer, ThreadAnswers, Reports, FlagStored, Stored, AnswerOnce, At, Own
<1> QED BY <1>1, <1>2, <1>3, <1>4, <1>5 DEF Next, Senders

(* What the object lock covers, what the handle leads to and who may answer  *)
(* an offer holds whatever calls fail and whenever threads run.              *)
THEOREM InvAlways == Spec => []Inv
  BY InvInit, InvStep, PTL DEF Spec

(* Every variable keeps its type, and only a client there is reports errors: *)
(* freeSignalingClient ends what was reported of its client.                 *)
THEOREM SignalingTyped == Spec => []TypeOK
  BY InvAlways, PTL DEF Inv

(* createSignalingClientSync is only called while there is no client, and    *)
(* freeSignalingClient is the only end of one: no restart loses a client,    *)
(* whatever calls of it fail.                                                *)
THEOREM OnlyClient == Spec => []OneClient
<1>1. Inv => OneClient
  BY DEF Inv, Handles
<1> QED BY <1>1, InvAlways, PTL

(* A handler sends an answer on a client that outlives the call, although    *)
(* restartAppSignaling does not take signalingSendMessageLock: the object    *)
(* lock is held from the test of the handle to the end of the call.          *)
THEOREM AnswersOnLive == Spec => []AnswerOnLiveClient
<1>1. Inv => AnswerOnLiveClient
  <2> SUFFICES ASSUME Inv, NEW h \in Handlers, At(h, "send") PROVE sender[h].client \in Live
    BY DEF AnswerOnLiveClient
  <2>1. sender[h].client = signalingClientHandle /\ signalingClientHandle # NULL
    BY DEF Inv, Handles, At
  <2> QED BY <2>1 DEF Inv, Handles, OneClient
<1> QED BY <1>1, InvAlways, PTL

(* However many handlers and peer connections there are, no offer is         *)
(* answered twice, by its handler and by onIceCandidateHandler, and a viewer *)
(* that does not trickle gets its answer with all candidates in it.          *)
THEOREM AnsweredOnce == Spec => []AnswerOnce
<1>1. Inv => AnswerOnce
  BY DEF Inv, Answers
<1> QED BY <1>1, InvAlways, PTL
=============================================================================
