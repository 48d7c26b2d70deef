---------------------------- MODULE PendingMsgQ ----------------------------
(***************************************************************************)
(* AppMessageQueue.c as AppCommon.c uses it: ICE candidates that arrive    *)
(* before the offer of their peer wait in a queue of that peer; the queues *)
(* are linked in one connection queue and expire.  Every use is under      *)
(* appConfigurationObjLock, so each operation is one step.                 *)
(*                                                                         *)
(* Peers are their CRC32 keys.  Where the code would dereference a queue   *)
(* that has been freed its behaviour is undefined, and the model stops.    *)
(***************************************************************************)
EXTENDS Naturals, Sequences, FiniteSets

CONSTANTS
  Keys,         (* the CRC32 keys of the remote peers                         *)
  QueueIds,     (* the addresses of pending message queues                    *)
  Interval,     (* APP_PENDING_MESSAGE_CLEANUP_DURATION                       *)
  MaxSent,      (* bound: candidates one peer sends                           *)
  Faults,       (* the calls that may fail, see AllFaults                     *)
  NULL

AllFaults ==
  { "create",   (* createPendingMsgQ: out of memory, or the queue refuses     *)
    "push",     (* pushMsqIntoPendingMsgQ: likewise                           *)
    "hook",     (* handleRemoteCandidate of a queued candidate                *)
    "full" }    (* the session array is full                                  *)

ASSUME PendingMsgQAssumption ==
  /\ Interval \in Nat /\ MaxSent \in Nat
  /\ Faults \subseteq AllFaults
  /\ NULL \notin QueueIds

VARIABLES
  pMsqQueue,            (* the connection queue: the linked queues, in order  *)
  open,                 (* the connection queue has not been freed            *)
  allocated,            (* the queues not freed                               *)
  hashValue, age, messages,   (* fields of a queue; age is now - createTime   *)
  routed,               (* the peers in pRemoteRtcPeerConnections             *)
  sent,                 (* how many candidates each peer has sent             *)
  delivered,            (* the candidates added to each peer's last session   *)
  forgotten             (* history: the queues unlinked by a refused offer    *)

queues  == <<pMsqQueue, open, allocated, hashValue, age, messages>>
vars    == <<queues, routed, sent, delivered, forgotten>>

Linked   == {pMsqQueue[i] : i \in DOMAIN pMsqQueue}
Usable   == open /\ Linked \subseteq allocated

-----------------------------------------------------------------------------
Matches(k) == {q \in Linked : hashValue[q] = k}

(* getPendingMsgQByHashVal returns its iteration variable: the matching      *)
(* queue, or the last one visited when none matches.                         *)
LookupNone(k) == NULL   (* mutant: no queue is ever found *)
Lookup(k) ==
  IF Matches(k) # {} THEN CHOOSE q \in Matches(k) : TRUE
  ELSE IF pMsqQueue # <<>> THEN pMsqQueue[Len(pMsqQueue)]
  ELSE NULL

(* The queues of s that are in T, in the same order.  (SelectSeq as a        *)
(* recursive function, which proofs can unfold.)                             *)
Keep(s, T) ==
  LET kept[n \in 0 .. Len(s)] ==
        IF n = 0 THEN <<>>
        ELSE IF s[n] \in T THEN Append(kept[n - 1], s[n]) ELSE kept[n - 1]
  IN  kept[Len(s)]

(* With remove, a matching queue is unlinked; it is not freed.               *)
RemoveNone(k) == UNCHANGED pMsqQueue   (* mutant: remove is ignored *)
RemoveMatch(k) == pMsqQueue' = Keep(pMsqQueue, Linked \ Matches(k))

(* The candidates handlePendingMsgQ submits: in order, up to a failing one.  *)
Submitted(q) ==
  {messages[q]} \cup
  (IF "hook" \in Faults THEN {SubSeq(messages[q], 1, n) : n \in 0 .. Len(messages[q])} ELSE {})

(* An offer of a peer without a session starts one and submits the queue     *)
(* found to it, which frees the queue.                                       *)
Offer(k) ==
  /\ k \notin routed
  /\ Usable
  /\ routed' = routed \cup {k}
  /\ RemoveMatch(k)
  /\ LET q == Lookup(k) IN
       IF q = NULL
       THEN delivered' = [delivered EXCEPT ![k] = <<>>] /\ UNCHANGED allocated
       ELSE /\ \E submitted \in Submitted(q) : delivered' = [delivered EXCEPT ![k] = submitted]
            /\ allocated' = allocated \ {q}
  /\ UNCHANGED <<open, hashValue, age, messages, sent, forgotten>>

(* When the array is full the peer's queue is unlinked and forgotten.        *)
OfferRefused(k) ==
  /\ "full" \in Faults
  /\ k \notin routed
  /\ Usable
  /\ RemoveMatch(k)
  /\ forgotten' = forgotten \cup (Linked \ Linked')
  /\ UNCHANGED <<open, allocated, hashValue, age, messages, routed, sent, delivered>>

Candidate(k) == [from |-> k, n |-> sent[k] + 1]

Send(k) ==
  /\ sent[k] < MaxSent
  /\ sent' = [sent EXCEPT ![k] = @ + 1]

(* A candidate of a peer with a session is added to it, or lost.             *)
CandidateRouted(k) ==
  /\ k \in routed
  /\ Send(k)
  /\ \/ delivered' = [delivered EXCEPT ![k] = Append(@, Candidate(k))]
     \/ "hook" \in Faults /\ UNCHANGED delivered
  /\ UNCHANGED <<queues, routed, forgotten>>

KeepKey(q, k) == UNCHANGED hashValue   (* mutant: the new queue has no key *)
SetKey(q, k) == hashValue' = [hashValue EXCEPT ![q] = k]

(* createPendingMsgQ, for a peer without a queue, then the first push.       *)
CandidateCreates(k) ==
  /\ k \notin routed
  /\ Usable
  /\ Lookup(k) = NULL
  /\ Send(k)
  /\ \E q \in QueueIds \ allocated :
       /\ pMsqQueue' = Append(pMsqQueue, q)
       /\ allocated' = allocated \cup {q}
       /\ SetKey(q, k)
       /\ age' = [age EXCEPT ![q] = 0]
       /\ \/ messages' = [messages EXCEPT ![q] = <<Candidate(k)>>]
          \/ "push" \in Faults /\ messages' = [messages EXCEPT ![q] = <<>>]
  /\ UNCHANGED <<open, routed, delivered, forgotten>>

AddFirst(s, m) == <<m>> \o s   (* mutant: a candidate overtakes those waiting *)
AddLast(s, m) == Append(s, m)

CandidatePushed(k) ==
  /\ k \notin routed
  /\ Usable
  /\ Lookup(k) # NULL
  /\ Send(k)
  /\ messages' = [messages EXCEPT ![Lookup(k)] = AddLast(@, Candidate(k))]
  /\ UNCHANGED <<open, pMsqQueue, allocated, hashValue, age, routed, delivered, forgotten>>

(* The candidate is lost: no queue could be made, or none could take it.     *)
CandidateLost(k) ==
  /\ k \notin routed
  /\ Usable
  /\ \/ Lookup(k) = NULL /\ ("create" \in Faults \/ allocated = QueueIds)
     \/ Lookup(k) # NULL /\ "push" \in Faults
  /\ Send(k)
  /\ UNCHANGED <<queues, routed, delivered, forgotten>>

(* pollApp ends a session.                                                   *)
SessionEnds(k) ==
  /\ k \in routed
  /\ routed' = routed \ {k}
  /\ UNCHANGED <<queues, sent, delivered, forgotten>>

ExpiredNever(q) == FALSE   (* mutant *)
Expired(q) == age[q] > Interval

(* removeExpiredPendingMsgQ, on every pass of pollApp.                       *)
RemoveExpired ==
  /\ Usable
  /\ \E q \in Linked : Expired(q)
  /\ pMsqQueue' = Keep(pMsqQueue, {q \in Linked : ~Expired(q)})
  /\ allocated' = {q \in allocated : q \in Linked => ~Expired(q)}
  /\ UNCHANGED <<open, hashValue, age, messages, routed, sent, delivered, forgotten>>

(* Time passes; an age beyond the interval makes no difference.              *)
Tick ==
  /\ \E q \in Linked : age[q] <= Interval
  /\ age' = [q \in QueueIds |-> IF q \in Linked /\ age[q] <= Interval THEN age[q] + 1 ELSE age[q]]
  /\ UNCHANGED <<open, pMsqQueue, allocated, hashValue, messages, routed, sent, delivered, forgotten>>

(* freeConnectionMsgQ, when the application ends and no message comes any    *)
(* more.                                                                     *)
FreeConnectionMsgQ ==
  /\ Usable
  /\ open' = FALSE
  /\ pMsqQueue' = <<>>
  /\ allocated' = allocated \ Linked
  /\ UNCHANGED <<hashValue, age, messages, routed, sent, delivered, forgotten>>

-----------------------------------------------------------------------------
Init ==
  /\ pMsqQueue = <<>>
  /\ open = TRUE
  /\ allocated = {}
  /\ hashValue = [q \in QueueIds |-> NULL]
  /\ age = [q \in QueueIds |-> 0]
  /\ messages = [q \in QueueIds |-> <<>>]
  /\ routed = {}
  /\ sent = [k \in Keys |-> 0]
  /\ delivered = [k \in Keys |-> <<>>]
  /\ forgotten = {}

Next ==
  \/ \E k \in Keys :
       \/ Offer(k) \/ OfferRefused(k) \/ SessionEnds(k)
       \/ CandidateRouted(k) \/ CandidateCreates(k) \/ CandidatePushed(k) \/ CandidateLost(k)
  \/ RemoveExpired \/ FreeConnectionMsgQ
  \/ Tick

Spec == Init /\ [][Next]_vars

(* Time passes and pollApp makes its passes.                                 *)
FairSpec == Spec /\ WF_vars(Tick) /\ WF_vars(RemoveExpired)

-----------------------------------------------------------------------------
(* Properties                                                                *)

Messages == [from : Keys, n : 1 .. MaxSent]

TypeOK ==
  /\ pMsqQueue \in Seq(QueueIds) /\ open \in BOOLEAN
  /\ allocated \in SUBSET QueueIds
  /\ hashValue \in [QueueIds -> Keys \cup {NULL}]
  /\ \A q \in Linked : hashValue[q] \in Keys
  /\ age \in [QueueIds -> 0 .. Interval + 1]
  /\ messages \in [QueueIds -> Seq(Messages)]
  /\ routed \in SUBSET Keys
  /\ sent \in [Keys -> 0 .. MaxSent]
  /\ delivered \in [Keys -> Seq(Messages)]
  /\ forgotten \in SUBSET QueueIds

(* "get the target pending message queue according to the clientHash": the   *)
(* candidates added to a session are those of its own peer.                  *)
OwnCandidatesOnly ==
  \A k \in Keys : \A i \in DOMAIN delivered[k] : delivered[k][i].from = k

(* Candidates reach a session in the order they arrived, and none twice,     *)
(* whether they waited or came after the offer.                              *)
InOrder ==
  \A k \in Keys : \A i, j \in DOMAIN delivered[k] :
    i < j /\ delivered[k][i].from = delivered[k][j].from => delivered[k][i].n < delivered[k][j].n

(* A queue in the connection queue has not been freed.                       *)
LinkedAllocated == Linked \subseteq allocated

(* A queue that is no longer linked has been freed, whichever call failed    *)
(* before; the only ones leaked are those an offer unlinked and then found   *)
(* the session array full.                                                   *)
NoQueueLeak == allocated \subseteq Linked \cup forgotten

(* Not even those.                                                           *)
NeverForgotten == allocated \subseteq Linked

(* All the candidates a peer sent since its queue was made are added to its  *)
(* session by the very offer that starts it.                                 *)
OfferDrains ==
  [][\A k \in routed' \ routed :
       \A q \in Linked : hashValue[q] = k =>
         \A i \in DOMAIN messages[q] :
           \E j \in DOMAIN delivered'[k] : delivered'[k][j] = messages[q][i]]_vars

(* Every linked queue is gone in the end: submitted or expired.              *)
QueueEnds == \A q \in QueueIds : q \in Linked ~> q \notin Linked
=============================================================================
