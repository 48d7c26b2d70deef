------------------------- MODULE PendingMsgQProofs -------------------------
(***************************************************************************)
(* Why the queues of early candidates are sound, for every number of peers *)
(* and queues.  The argument rests on one fact the source does not state:  *)
(* the connection queue never links more than one queue, as a queue is     *)
(* created only when the lookup finds none, and a lookup in a queue that   *)
(* is not empty always finds one.                                          *)
(*                                                                         *)
(* Keep is a recursive function.  What it computes is shown by induction   *)
(* on its index, in the form of a least counterexample (WFMin), which has  *)
(* no operator for a parameter.                                            *)
(***************************************************************************)
EXTENDS PendingMsgQ, WellFoundedInduction, TLAPS

-----------------------------------------------------------------------------
(* Induction                                                                 *)

(* A set of numbers has a least one.                                         *)
LEMMA Least ==
  ASSUME NEW S, S \subseteq Nat, S # {}
  PROVE  \E n \in S : \A m \in S : ~(m < n)
<1> DEFINE R == OpToRel(<, Nat)
<1>1. IsWellFoundedOn(R, Nat)
  BY NatLessThanWellFounded
<1>2. \A m, n \in Nat : m < n => <<m, n>> \in R
  BY DEF OpToRel
<1> HIDE DEF R
<1>3. PICK n \in S : \A m \in S : ~(<<m, n>> \in R)
  BY <1>1, WFMin
<1> QED BY <1>2, <1>3

(* Induction up to a number.                                                 *)
LEMMA UpTo ==
  ASSUME NEW N \in Nat, NEW S, 0 \in S, \A n \in 0 .. N - 1 : n \in S => n + 1 \in S
  PROVE  N \in S
<1> DEFINE T == {n \in 0 .. N : n \notin S}
<1> SUFFICES ASSUME T # {} PROVE FALSE
  OBVIOUS
<1>1. T \subseteq Nat
  OBVIOUS
<1>2. PICK n \in T : \A m \in T : ~(m < n)
  <2> HIDE DEF T
  <2> QED BY <1>1, Least
<1>3. n # 0 /\ n - 1 \in 0 .. N - 1 /\ n - 1 \notin T
  BY <1>2
<1> QED BY <1>2, <1>3

-----------------------------------------------------------------------------
(* What Keep computes                                                        *)

Kept(f, s, T, n) ==
  IF n = 0 THEN <<>> ELSE IF s[n] \in T THEN Append(f[n - 1], s[n]) ELSE f[n - 1]

IsKept(f, s, T, N) == f = [n \in 0 .. N |-> Kept(f, s, T, n)]

(* The recursion is defined up to every length.                              *)
LEMMA KeptExists ==
  ASSUME NEW s, NEW T, NEW L \in Nat
  PROVE  \E f : IsKept(f, s, T, L)
<1> DEFINE S == {N \in Nat : \E f : IsKept(f, s, T, N)}
<1>1. 0 \in S
  <2>1. IsKept([n \in {0} |-> <<>>], s, T, 0)
    BY DEF IsKept, Kept
  <2> QED BY <2>1
<1>2. ASSUME NEW N \in Nat, N \in S PROVE N + 1 \in S
  <2>1. PICK f : IsKept(f, s, T, N)
    BY <1>2
  <2> DEFINE v == Kept(f, s, T, N + 1)
             g == [n \in 0 .. N + 1 |-> IF n = N + 1 THEN v ELSE f[n]]
  <2>2. \A n \in 0 .. N : f[n] = Kept(f, s, T, n)
    BY <2>1 DEF IsKept
  <2>3. \A n \in 0 .. N + 1 : g[n] = Kept(g, s, T, n)
    <3> HIDE DEF v
    <3>1. (\A n \in 0 .. N : g[n] = f[n]) /\ g[N + 1] = v
      OBVIOUS
    <3> HIDE DEF g
    <3>2. ASSUME NEW n \in 0 .. N + 1 PROVE Kept(g, s, T, n) = Kept(f, s, T, n)
      <4>1. n # 0 => n - 1 \in 0 .. N
        OBVIOUS
      <4> QED BY <3>1, <4>1 DEF Kept
    <3> QED BY <2>2, <3>1, <3>2 DEF v
  <2>4. IsKept(g, s, T, N + 1)
    <3> HIDE DEF v
    <3>1. g = [n \in 0 .. N + 1 |-> g[n]]
      OBVIOUS
    <3> HIDE DEF g
    <3> QED BY <2>3, <3>1 DEF IsKept
  <2> HIDE DEF g
  <2> QED BY <2>4
<1> HIDE DEF S
<1>3. L \in S
  BY <1>1, <1>2, UpTo
<1> QED BY <1>3 DEF S

Members(s) == {s[i] : i \in DOMAIN s}

LEMMA AppendMembers ==
  ASSUME NEW Q, NEW s \in Seq(Q), NEW x \in Q
  PROVE  Members(Append(s, x)) = Members(s) \cup {x}
<1> DEFINE t == Append(s, x)
<1>1. /\ DOMAIN t = 1 .. Len(s) + 1 /\ DOMAIN s = 1 .. Len(s) /\ Len(s) \in Nat
      /\ t[Len(s) + 1] = x
      /\ \A i \in 1 .. Len(s) : t[i] = s[i]
  OBVIOUS
<1> HIDE DEF t
<1>2. ASSUME NEW i \in DOMAIN t PROVE t[i] \in Members(s) \cup {x}
  BY <1>1 DEF Members
<1>3. ASSUME NEW i \in DOMAIN s PROVE s[i] \in Members(t)
  BY <1>1 DEF Members
<1>4. x \in Members(t)
  BY <1>1 DEF Members
<1> QED BY <1>2, <1>3, <1>4 DEF Members, t

(* Keep leaves the members of s that are in T, and makes nothing longer.     *)
LEMMA KeepsMembers ==
  ASSUME NEW Q, NEW s \in Seq(Q), NEW T
  PROVE  /\ Keep(s, T) \in Seq(Q)
         /\ Members(Keep(s, T)) = Members(s) \cap T
         /\ Len(Keep(s, T)) <= Len(s)
<1> DEFINE kept == CHOOSE f : IsKept(f, s, T, Len(s))
<1>1. IsKept(kept, s, T, Len(s))
  BY KeptExists
<1>2. Keep(s, T) = kept[Len(s)]
  BY DEF Keep, IsKept, Kept
<1> HIDE DEF kept
<1>3. \A n \in 0 .. Len(s) : kept[n] = Kept(kept, s, T, n)
  BY <1>1 DEF IsKept
<1> DEFINE Upto(n) == {s[i] : i \in 1 .. n}
           S == {n \in 0 .. Len(s) : /\ kept[n] \in Seq(Q)
                                     /\ Members(kept[n]) = Upto(n) \cap T
                                     /\ Len(kept[n]) <= n}
<1>4. 0 \in S
  <2>1. kept[0] = <<>>
    BY <1>3 DEF Kept
  <2>2. Members(<<>>) = {} /\ Upto(0) = {}
    BY DEF Members
  <2>3. <<>> \in Seq(Q) /\ Len(<<>>) = 0 /\ 0 \in 0 .. Len(s)
    OBVIOUS
  <2> HIDE DEF Upto
  <2>4. kept[0] \in Seq(Q)
    BY <2>1, <2>3
  <2>5. Members(kept[0]) = Upto(0) \cap T
    BY <2>1, <2>2
  <2>6. Len(kept[0]) <= 0
    BY <2>1, <2>3
  <2> QED BY <2>3, <2>4, <2>5, <2>6
<1>5. ASSUME NEW n \in 0 .. Len(s) - 1, n \in S PROVE n + 1 \in S
  <2>1. /\ kept[n] \in Seq(Q) /\ Members(kept[n]) = Upto(n) \cap T /\ Len(kept[n]) <= n
        /\ s[n + 1] \in Q /\ n + 1 \in 0 .. Len(s)
    BY <1>5
  <2>2. kept[n + 1] = IF s[n + 1] \in T THEN Append(kept[n], s[n + 1]) ELSE kept[n]
    BY <1>3, <2>1 DEF Kept
  <2>3. Upto(n + 1) = Upto(n) \cup {s[n + 1]}
    BY <2>1
  <2>4. Members(Append(kept[n], s[n + 1])) = Members(kept[n]) \cup {s[n + 1]}
    BY <2>1, AppendMembers
  <2> HIDE DEF Upto
  <2>5. /\ kept[n + 1] \in Seq(Q)
        /\ Members(kept[n + 1]) = Upto(n + 1) \cap T
        /\ Len(kept[n + 1]) <= n + 1
    BY <2>1, <2>2, <2>3, <2>4
  <2> QED BY <2>1, <2>5
<1> HIDE DEF S
<1>6. Len(s) \in S
  BY <1>4, <1>5, UpTo
<1> QED BY <1>2, <1>6 DEF S, Members

-----------------------------------------------------------------------------
(* The connection queue                                                      *)

(* Never more than one queue is linked.                                      *)
OneQueue == Len(pMsqQueue) <= 1

(* Keep on the connection queue, in terms of Linked.                         *)
LEMMA KeptLinked ==
  ASSUME TypeOK, NEW T, pMsqQueue' = Keep(pMsqQueue, T)
  PROVE  /\ pMsqQueue' \in Seq(QueueIds)
         /\ Linked' = Linked \cap T
         /\ OneQueue => OneQueue'
<1>1. /\ pMsqQueue' \in Seq(QueueIds)
      /\ Members(pMsqQueue') = Members(pMsqQueue) \cap T
      /\ Len(pMsqQueue') <= Len(pMsqQueue)
  BY KeepsMembers DEF TypeOK
<1>2. Linked = Members(pMsqQueue) /\ Linked' = Members(pMsqQueue')
  BY DEF Linked, Members
<1>3. Len(pMsqQueue) \in Nat /\ Len(pMsqQueue') \in Nat
  BY <1>1 DEF TypeOK
<1> QED BY <1>1, <1>2, <1>3 DEF OneQueue

LEMMA MatchRemoved ==
  ASSUME TypeOK, NEW k, RemoveMatch(k)
  PROVE  /\ pMsqQueue' \in Seq(QueueIds)
         /\ Linked' = Linked \ Matches(k)
         /\ OneQueue => OneQueue'
BY KeptLinked DEF RemoveMatch

LEMMA ExpiredRemoved ==
  ASSUME TypeOK, RemoveExpired
  PROVE  /\ pMsqQueue' \in Seq(QueueIds)
         /\ Linked' = {q \in Linked : ~Expired(q)}
         /\ OneQueue => OneQueue'
<1> DEFINE T == {q \in Linked : ~Expired(q)}
<1>1. pMsqQueue' = Keep(pMsqQueue, T)
  BY DEF RemoveExpired
<1>2. Linked \cap T = T
  OBVIOUS
<1> HIDE DEF T
<1>3. pMsqQueue' \in Seq(QueueIds) /\ Linked' = T /\ (OneQueue => OneQueue')
  BY <1>1, <1>2, KeptLinked
<1> QED BY <1>3 DEF T

(* A lookup finds a matching queue if there is one, and if there is none it  *)
(* still finds a queue unless the connection queue is empty.                 *)
LEMMA LookupFinds ==
  ASSUME TypeOK, NEW k
  PROVE  /\ Linked \subseteq QueueIds
         /\ Lookup(k) \in Linked \/ (Lookup(k) = NULL /\ pMsqQueue = <<>> /\ Linked = {})
         /\ Matches(k) # {} => Lookup(k) \in Matches(k)
         /\ Lookup(k) = NULL <=> pMsqQueue = <<>>
<1>1. pMsqQueue \in Seq(QueueIds) /\ NULL \notin QueueIds
  BY PendingMsgQAssumption DEF TypeOK
<1>2. Linked \subseteq QueueIds
  BY <1>1 DEF Linked
<1>3. CASE Matches(k) # {}
  <2>1. Lookup(k) \in Matches(k)
    BY <1>3 DEF Lookup
  <2>2. Lookup(k) \in Linked /\ Lookup(k) # NULL
    BY <1>1, <1>2, <2>1 DEF Matches
  <2>3. pMsqQueue # <<>>
    BY <2>2 DEF Linked
  <2> QED BY <1>2, <2>1, <2>2, <2>3
<1>4. CASE Matches(k) = {} /\ pMsqQueue # <<>>
  <2>1. Lookup(k) = pMsqQueue[Len(pMsqQueue)]
    BY <1>4 DEF Lookup
  <2>2. Len(pMsqQueue) \in DOMAIN pMsqQueue
    BY <1>1, <1>4
  <2>3. Lookup(k) \in Linked
    BY <2>1, <2>2 DEF Linked
  <2> QED BY <1>1, <1>2, <1>4, <2>3
<1>5. CASE Matches(k) = {} /\ pMsqQueue = <<>>
  BY <1>2, <1>5 DEF Lookup, Linked
<1> QED BY <1>3, <1>4, <1>5

LEMMA OneLinked ==
  ASSUME TypeOK, OneQueue, NEW p \in Linked, NEW q \in Linked
  PROVE  p = q
<1>1. \A i \in DOMAIN pMsqQueue : i = 1
  BY DEF TypeOK, OneQueue
<1> QED BY <1>1 DEF Linked

(* The only step that links a queue links it into an empty connection queue. *)
LEMMA OneQueueStep == ASSUME TypeOK, OneQueue, Next PROVE OneQueue'
<1>1. ASSUME NEW k \in Keys, Offer(k) \/ OfferRefused(k) PROVE OneQueue'
  BY <1>1, MatchRemoved DEF Offer, OfferRefused
<1>2. ASSUME NEW k \in Keys, CandidateCreates(k) PROVE OneQueue'
  <2>1. pMsqQueue = <<>>
    BY <1>2, LookupFinds DEF CandidateCreates
  <2> QED BY <1>2, <2>1 DEF CandidateCreates, OneQueue
<1>3. CASE RemoveExpired
  BY <1>3, ExpiredRemoved
<1>4. CASE FreeConnectionMsgQ
  BY <1>4 DEF FreeConnectionMsgQ, OneQueue
<1>5. CASE UNCHANGED pMsqQueue
  BY <1>5 DEF OneQueue
<1> QED BY <1>1, <1>2, <1>3, <1>4, <1>5 DEF Next, SessionEnds, CandidateRouted,
       CandidatePushed, CandidateLost, Tick, queues

-----------------------------------------------------------------------------
(* Types                                                                     *)

LEMMA NewCandidate ==
  ASSUME TypeOK, NEW k \in Keys, Send(k)
  PROVE  Candidate(k) \in Messages /\ sent' \in [Keys -> 0 .. MaxSent]
BY PendingMsgQAssumption DEF TypeOK, Send, Candidate, Messages

LEMMA TypeStep == ASSUME TypeOK, Next PROVE TypeOK'
<1> USE PendingMsgQAssumption
<1>1. ASSUME NEW k \in Keys, Offer(k) PROVE TypeOK'
  <2>1. pMsqQueue' \in Seq(QueueIds) /\ Linked' \subseteq Linked
    BY <1>1, MatchRemoved DEF Offer
  <2>2. delivered' \in [Keys -> Seq(Messages)] /\ allocated' \in SUBSET QueueIds
    <3>1. CASE Lookup(k) = NULL
      <4>1. delivered' = [delivered EXCEPT ![k] = <<>>] /\ UNCHANGED allocated
        BY <1>1, <3>1 DEF Offer
      <4>2. <<>> \in Seq(Messages)
        OBVIOUS
      <4> QED BY <4>1, <4>2 DEF TypeOK
    <3>2. CASE Lookup(k) # NULL
      <4>1. Lookup(k) \in QueueIds
        BY <3>2, LookupFinds
      <4>2. ASSUME NEW submitted \in Submitted(Lookup(k)) PROVE submitted \in Seq(Messages)
        <5> DEFINE s == messages[Lookup(k)]
        <5>1. s \in Seq(Messages)
          BY <4>1 DEF TypeOK
        <5>2. \A n \in 0 .. Len(s) : SubSeq(s, 1, n) \in Seq(Messages)
          BY <5>1
        <5> QED BY <4>2, <5>1, <5>2 DEF Submitted
      <4> QED BY <1>1, <3>2, <4>2 DEF Offer, TypeOK
    <3> QED BY <3>1, <3>2
  <2> QED BY <1>1, <2>1, <2>2 DEF Offer, TypeOK
<1>2. ASSUME NEW k \in Keys, OfferRefused(k) PROVE TypeOK'
  <2>1. pMsqQueue' \in Seq(QueueIds) /\ Linked' \subseteq Linked /\ Linked \subseteq QueueIds
    BY <1>2, MatchRemoved, LookupFinds DEF OfferRefused
  <2> QED BY <1>2, <2>1 DEF OfferRefused, TypeOK
<1>3. ASSUME NEW k \in Keys, CandidateRouted(k) PROVE TypeOK'
  <2>1. Candidate(k) \in Messages /\ sent' \in [Keys -> 0 .. MaxSent]
    BY <1>3, NewCandidate DEF CandidateRouted
  <2>2. Linked' = Linked
    BY <1>3 DEF CandidateRouted, queues, Linked
  <2>3. delivered' \in [Keys -> Seq(Messages)]
    <3>1. Append(delivered[k], Candidate(k)) \in Seq(Messages)
      BY <2>1 DEF TypeOK
    <3>2. CASE delivered' = [delivered EXCEPT ![k] = Append(@, Candidate(k))]
      BY <3>1, <3>2 DEF TypeOK
    <3>3. CASE UNCHANGED delivered
      BY <3>3 DEF TypeOK
    <3> QED BY <1>3, <3>2, <3>3 DEF CandidateRouted
  <2> HIDE DEF TypeOK
  <2> QED BY <1>3, <2>1, <2>2, <2>3 DEF CandidateRouted, queues, TypeOK
<1>4. ASSUME NEW k \in Keys, CandidateCreates(k) PROVE TypeOK'
  <2>1. Candidate(k) \in Messages /\ sent' \in [Keys -> 0 .. MaxSent]
    BY <1>4, NewCandidate DEF CandidateCreates
  <2>2. PICK q \in QueueIds \ allocated :
          /\ pMsqQueue' = Append(pMsqQueue, q) /\ allocated' = allocated \cup {q}
          /\ hashValue' = [hashValue EXCEPT ![q] = k] /\ age' = [age EXCEPT ![q] = 0]
          /\ messages' \in {[messages EXCEPT ![q] = <<Candidate(k)>>], [messages EXCEPT ![q] = <<>>]}
    BY <1>4 DEF CandidateCreates, SetKey
  <2>3. pMsqQueue' \in Seq(QueueIds) /\ Linked' = {q}
    <3>1. pMsqQueue = <<>>
      BY <1>4, LookupFinds DEF CandidateCreates
    <3>2. pMsqQueue' = <<q>>
      BY <2>2, <3>1
    <3> QED BY <3>2 DEF Linked
  <2>4. messages' \in [QueueIds -> Seq(Messages)]
    <3>1. <<Candidate(k)>> \in Seq(Messages) /\ <<>> \in Seq(Messages)
      BY <2>1
    <3> QED BY <2>2, <3>1 DEF TypeOK
  <2>5. hashValue' \in [QueueIds -> Keys \cup {NULL}] /\ \A r \in Linked' : hashValue'[r] \in Keys
    BY <2>2, <2>3 DEF TypeOK
  <2>6. age' \in [QueueIds -> 0 .. Interval + 1]
    BY <2>2 DEF TypeOK
  <2> QED BY <1>4, <2>1, <2>2, <2>3, <2>4, <2>5, <2>6 DEF CandidateCreates, TypeOK
<1>5. ASSUME NEW k \in Keys, CandidatePushed(k) PROVE TypeOK'
  <2>1. Candidate(k) \in Messages /\ sent' \in [Keys -> 0 .. MaxSent]
    BY <1>5, NewCandidate DEF CandidatePushed
  <2>2. Linked' = Linked
    BY <1>5 DEF CandidatePushed, Linked
  <2>3. messages' \in [QueueIds -> Seq(Messages)]
    <3>1. messages' = [messages EXCEPT ![Lookup(k)] = Append(@, Candidate(k))]
      BY <1>5 DEF CandidatePushed, AddLast
    <3>2. ASSUME NEW q \in QueueIds PROVE Append(messages[q], Candidate(k)) \in Seq(Messages)
      BY <2>1 DEF TypeOK
    <3> QED BY <3>1, <3>2 DEF TypeOK
  <2> QED BY <1>5, <2>1, <2>2, <2>3 DEF CandidatePushed, TypeOK
<1>6. ASSUME NEW k \in Keys, CandidateLost(k) \/ SessionEnds(k) PROVE TypeOK'
  <2>1. sent' \in [Keys -> 0 .. MaxSent] /\ Linked' = Linked
    BY <1>6, NewCandidate DEF CandidateLost, SessionEnds, queues, Linked, TypeOK
  <2> QED BY <1>6, <2>1 DEF CandidateLost, SessionEnds, queues, TypeOK
<1>7. CASE RemoveExpired
  <2>1. pMsqQueue' \in Seq(QueueIds) /\ Linked' \subseteq Linked
    BY <1>7, ExpiredRemoved
  <2> QED BY <1>7, <2>1 DEF RemoveExpired, TypeOK
<1>8. CASE FreeConnectionMsgQ
  <2>1. pMsqQueue' \in Seq(QueueIds) /\ Linked' = {}
    BY <1>8 DEF FreeConnectionMsgQ, Linked
  <2> QED BY <1>8, <2>1 DEF FreeConnectionMsgQ, TypeOK
<1>9. CASE Tick
  <2>1. Linked' = Linked
    BY <1>9 DEF Tick, Linked
  <2> QED BY <1>9, <2>1 DEF Tick, TypeOK
<1> QED BY <1>1, <1>2, <1>3, <1>4, <1>5, <1>6, <1>7, <1>8, <1>9 DEF Next

LEMMA StutterTypes == ASSUME TypeOK, UNCHANGED vars PROVE TypeOK' /\ Linked' = Linked
BY DEF TypeOK, vars, queues, Linked

(* The queues' fields, the candidates sent and those delivered have their    *)
(* types in every reachable state, and the connection queue links no more    *)
(* than one queue.                                                           *)
LEMMA ShapeAlways == Spec => [](TypeOK /\ OneQueue)
<1>1. Init => TypeOK /\ OneQueue
  BY PendingMsgQAssumption DEF Init, TypeOK, OneQueue, Linked
<1>2. TypeOK /\ OneQueue /\ [Next]_vars => TypeOK' /\ OneQueue'
  <2>1. ASSUME OneQueue, UNCHANGED vars PROVE OneQueue'
    BY <2>1 DEF OneQueue, vars, queues
  <2> QED BY <2>1, StutterTypes, TypeStep, OneQueueStep
<1> QED BY <1>1, <1>2, PTL DEF Spec

(* Every operation on the queues, with any of its calls failing, leaves      *)
(* every field of every queue in its type, whatever the peers send.          *)
THEOREM TypeCorrect == Spec => []TypeOK
BY ShapeAlways, PTL

-----------------------------------------------------------------------------
(* Memory                                                                    *)

LEMMA Created ==
  ASSUME TypeOK, NEW k \in Keys, CandidateCreates(k)
  PROVE  \E q \in QueueIds :
           allocated' = allocated \cup {q} /\ Linked = {} /\ Linked' = {q}
<1>1. PICK q \in QueueIds \ allocated :
        /\ pMsqQueue' = Append(pMsqQueue, q) /\ allocated' = allocated \cup {q}
        /\ SetKey(q, k) /\ age' = [age EXCEPT ![q] = 0]
        /\ \/ messages' = [messages EXCEPT ![q] = <<Candidate(k)>>]
           \/ "push" \in Faults /\ messages' = [messages EXCEPT ![q] = <<>>]
  BY Zenon DEF CandidateCreates
<1>2. pMsqQueue = <<>>
  BY LookupFinds DEF CandidateCreates
<1>3. pMsqQueue' = <<q>>
  BY <1>1, <1>2
<1>4. Linked = {} /\ Linked' = {q}
  BY <1>2, <1>3 DEF Linked
<1> QED BY <1>1, <1>4

LEMMA LeakStep == ASSUME TypeOK, OneQueue, NoQueueLeak, Next PROVE NoQueueLeak'
<1>1. ASSUME NEW k \in Keys, Offer(k) PROVE NoQueueLeak'
  <2>1. Linked' = Linked \ Matches(k) /\ UNCHANGED forgotten
    BY <1>1, MatchRemoved DEF Offer
  <2>2. allocated' \subseteq allocated
    BY <1>1 DEF Offer
  <2>3. ASSUME NEW q \in Matches(k) PROVE q \notin allocated'
    <3>1. Lookup(k) \in Matches(k) /\ Lookup(k) # NULL
      BY <2>3, LookupFinds, PendingMsgQAssumption DEF Matches
    <3>2. Lookup(k) = q
      BY <2>3, <3>1, OneLinked DEF Matches
    <3> QED BY <1>1, <3>1, <3>2 DEF Offer
  <2> QED BY <2>1, <2>2, <2>3 DEF NoQueueLeak
<1>2. ASSUME NEW k \in Keys, OfferRefused(k) PROVE NoQueueLeak'
  BY <1>2, MatchRemoved DEF OfferRefused, NoQueueLeak
<1>3. ASSUME NEW k \in Keys, CandidateCreates(k) PROVE NoQueueLeak'
  <2>1. PICK q \in QueueIds : allocated' = allocated \cup {q} /\ Linked = {} /\ Linked' = {q}
    BY <1>3, Created
  <2> QED BY <1>3, <2>1 DEF CandidateCreates, NoQueueLeak
<1>4. CASE RemoveExpired
  <2>1. Linked' = {q \in Linked : ~Expired(q)}
    BY <1>4, ExpiredRemoved
  <2> QED BY <1>4, <2>1 DEF RemoveExpired, NoQueueLeak
<1>5. CASE FreeConnectionMsgQ
  <2>1. allocated' = allocated \ Linked /\ UNCHANGED forgotten
    BY <1>5 DEF FreeConnectionMsgQ
  <2> QED BY <2>1 DEF NoQueueLeak
<1>6. CASE UNCHANGED <<pMsqQueue, allocated, forgotten>>
  BY <1>6 DEF NoQueueLeak, Linked
<1> QED BY <1>1, <1>2, <1>3, <1>4, <1>5, <1>6 DEF Next, SessionEnds, CandidateRouted,
       CandidatePushed, CandidateLost, Tick, queues

(* A queue that has left the connection queue has been freed: by the offer   *)
(* that submitted it, by its expiry or at the end, whichever candidates and  *)
(* queues failed to be made or taken; all but those a refused offer forgets. *)
THEOREM QueuesFreed == Spec => []NoQueueLeak
<1>1. Init => NoQueueLeak
  BY DEF Init, NoQueueLeak
<1>2. TypeOK /\ OneQueue /\ NoQueueLeak /\ [Next]_vars => NoQueueLeak'
  <2>1. ASSUME NoQueueLeak, UNCHANGED vars PROVE NoQueueLeak'
    BY <2>1 DEF NoQueueLeak, Linked, vars, queues
  <2> QED BY <2>1, LeakStep
<1> QED BY <1>1, <1>2, ShapeAlways, PTL DEF Spec

LEMMA AllocatedStep ==
  ASSUME \A k1, k2 \in Keys : k1 = k2, TypeOK, LinkedAllocated, Next
  PROVE  LinkedAllocated'
<1>1. ASSUME NEW k \in Keys, Offer(k) PROVE LinkedAllocated'
  <2>1. Linked' = Linked \ Matches(k)
    BY <1>1, MatchRemoved DEF Offer
  <2>2. Matches(k) = Linked
    BY DEF Matches, TypeOK
  <2> QED BY <2>1, <2>2 DEF LinkedAllocated
<1>2. ASSUME NEW k \in Keys, OfferRefused(k) PROVE LinkedAllocated'
  BY <1>2, MatchRemoved DEF OfferRefused, LinkedAllocated
<1>3. ASSUME NEW k \in Keys, CandidateCreates(k) PROVE LinkedAllocated'
  <2>1. PICK q \in QueueIds : allocated' = allocated \cup {q} /\ Linked = {} /\ Linked' = {q}
    BY <1>3, Created
  <2> QED BY <2>1 DEF LinkedAllocated
<1>4. CASE RemoveExpired
  <2>1. Linked' = {q \in Linked : ~Expired(q)}
    BY <1>4, ExpiredRemoved
  <2> QED BY <1>4, <2>1 DEF RemoveExpired, LinkedAllocated
<1>5. CASE FreeConnectionMsgQ
  <2>1. Linked' = {}
    BY <1>5 DEF FreeConnectionMsgQ, Linked
  <2> QED BY <2>1 DEF LinkedAllocated
<1>6. CASE UNCHANGED <<pMsqQueue, allocated>>
  BY <1>6 DEF LinkedAllocated, Linked
<1> QED BY <1>1, <1>2, <1>3, <1>4, <1>5, <1>6 DEF Next, SessionEnds, CandidateRouted,
       CandidatePushed, CandidateLost, Tick, queues

(* Nothing links a freed queue as long as candidates of one peer wait; that  *)
(* is all that holds, as the offer of a second peer frees the first one's    *)
(* queue where it is linked.                                                 *)
THEOREM NoneDangles ==
  ASSUME \A k1, k2 \in Keys : k1 = k2
  PROVE  Spec => []LinkedAllocated
<1>1. Init => LinkedAllocated
  BY DEF Init, LinkedAllocated, Linked
<1>2. TypeOK /\ LinkedAllocated /\ [Next]_vars => LinkedAllocated'
  <2>1. ASSUME LinkedAllocated, UNCHANGED vars PROVE LinkedAllocated'
    BY <2>1 DEF LinkedAllocated, Linked, vars, queues
  <2> QED BY <2>1, AllocatedStep
<1> QED BY <1>1, <1>2, ShapeAlways, PTL DEF Spec

-----------------------------------------------------------------------------
(* Order                                                                     *)

(* The candidates of s are among those counted, each peer's in order.        *)
Sequenced(s, count) ==
  \A i \in DOMAIN s :
    /\ s[i].n <= count[s[i].from]
    /\ \A j \in DOMAIN s : i < j /\ s[i].from = s[j].from => s[i].n < s[j].n

(* This holds of the waiting candidates, too, and of those in freed queues.  *)
Ordered ==
  /\ \A q \in QueueIds : Sequenced(messages[q], sent)
  /\ \A k \in Keys : Sequenced(delivered[k], sent)

(* The next candidate of a peer may follow all that were counted.            *)
LEMMA NextSequenced ==
  ASSUME NEW count \in [Keys -> Nat], NEW k \in Keys,
         NEW more \in [Keys -> Nat], more = [count EXCEPT ![k] = @ + 1],
         NEW c, c.from = k, c.n = count[k] + 1,
         NEW s \in Seq(Messages), Sequenced(s, count)
  PROVE  /\ Sequenced(s, more)
         /\ Sequenced(Append(s, c), more)
         /\ Sequenced(<<c>>, more)
<1> DEFINE t == Append(s, c)
<1>1. (\A p \in Keys : count[p] <= more[p]) /\ c.n = more[k] /\ c.n \in Nat
  <2>1. more[k] = count[k] + 1 /\ \A p \in Keys \ {k} : more[p] = count[p]
    OBVIOUS
  <2>2. ASSUME NEW p \in Keys PROVE count[p] <= more[p]
    <3>1. count[p] \in Nat
      OBVIOUS
    <3> QED BY <2>1, <3>1
  <2>3. c.n = more[k] /\ c.n \in Nat
    BY <2>1
  <2> QED BY <2>2, <2>3
<1>2. ASSUME NEW i \in DOMAIN s PROVE s[i].from \in Keys /\ s[i].n \in Nat
  <2>1. s[i] \in Messages
    OBVIOUS
  <2> QED BY <2>1 DEF Messages
<1>3. ASSUME NEW i \in DOMAIN s
      PROVE  s[i].n <= count[s[i].from] /\ s[i].n <= more[s[i].from]
  <2> DEFINE p == s[i].from
             x == s[i].n
  <2>1. p \in Keys /\ x \in Nat /\ x <= count[p]
    BY <1>2 DEF Sequenced
  <2> HIDE DEF p, x
  <2>2. count[p] \in Nat /\ more[p] \in Nat /\ count[p] <= more[p]
    BY <1>1, <2>1
  <2>3. x <= count[p] /\ x <= more[p]
    BY <2>1, <2>2
  <2> QED BY <2>3 DEF p, x
<1>4. /\ DOMAIN t = 1 .. Len(s) + 1 /\ DOMAIN s = 1 .. Len(s) /\ Len(s) \in Nat
      /\ t[Len(s) + 1] = c /\ \A i \in 1 .. Len(s) : t[i] = s[i]
  OBVIOUS
<1> HIDE DEF t
<1>5. Sequenced(s, more)
  BY <1>3 DEF Sequenced
<1>6. ASSUME NEW i \in DOMAIN t
      PROVE  /\ t[i].n <= more[t[i].from]
             /\ \A j \in DOMAIN t : i < j /\ t[i].from = t[j].from => t[i].n < t[j].n
  <2>1. CASE i = Len(s) + 1
    BY <1>1, <1>4, <2>1
  <2>2. CASE i \in DOMAIN s
    <3>1. t[i] = s[i] /\ s[i].n <= count[s[i].from] /\ s[i].from \in Keys /\ s[i].n \in Nat
      BY <1>2, <1>3, <1>4, <2>2
    <3>2. ASSUME NEW j \in DOMAIN t, i < j, t[i].from = t[j].from PROVE t[i].n < t[j].n
      <4>1. CASE j = Len(s) + 1
        <5>1. t[j] = c /\ s[i].from = k
          BY <1>4, <3>1, <3>2, <4>1
        <5> QED BY <3>1, <5>1
      <4>2. CASE j \in DOMAIN s
        BY <1>4, <2>2, <3>1, <3>2, <4>2 DEF Sequenced
      <4> QED BY <1>4, <4>1, <4>2
    <3> QED BY <1>3, <2>2, <3>1, <3>2
  <2> QED BY <1>4, <2>1, <2>2
<1>7. Sequenced(t, more)
  BY <1>6 DEF Sequenced
<1>8. Sequenced(<<c>>, more)
  BY <1>1 DEF Sequenced
<1> QED BY <1>5, <1>7, <1>8 DEF t

LEMMA PrefixSequenced ==
  ASSUME NEW count, NEW s \in Seq(Messages), Sequenced(s, count), NEW n \in 0 .. Len(s)
  PROVE  Sequenced(SubSeq(s, 1, n), count)
<1> DEFINE t == SubSeq(s, 1, n)
<1>1. DOMAIN t = 1 .. n /\ (\A i \in 1 .. n : t[i] = s[i]) /\ 1 .. n \subseteq DOMAIN s
  OBVIOUS
<1> HIDE DEF t
<1>2. Sequenced(t, count)
  BY <1>1 DEF Sequenced
<1> QED BY <1>2 DEF t

(* A step that sends: the sequences stay so, and may take the candidate.     *)
LEMMA SendStep ==
  ASSUME TypeOK, Ordered, NEW k \in Keys, Send(k)
  PROVE  /\ \A q \in QueueIds : /\ Sequenced(messages[q], sent')
                                /\ Sequenced(Append(messages[q], Candidate(k)), sent')
         /\ \A p \in Keys : /\ Sequenced(delivered[p], sent')
                            /\ Sequenced(Append(delivered[p], Candidate(k)), sent')
         /\ Sequenced(<<Candidate(k)>>, sent')
<1> DEFINE c == Candidate(k)
<1>1. /\ sent \in [Keys -> Nat] /\ sent' \in [Keys -> Nat] /\ sent' = [sent EXCEPT ![k] = @ + 1]
      /\ c.from = k /\ c.n = sent[k] + 1
  BY PendingMsgQAssumption DEF TypeOK, Send, Candidate
<1> HIDE DEF c
<1>2. ASSUME NEW s \in Seq(Messages), Sequenced(s, sent)
      PROVE  Sequenced(s, sent') /\ Sequenced(Append(s, c), sent') /\ Sequenced(<<c>>, sent')
  BY <1>1, <1>2, NextSequenced
<1>3. Sequenced(delivered[k], sent) /\ delivered[k] \in Seq(Messages)
  BY DEF Ordered, TypeOK
<1> QED BY <1>2, <1>3 DEF Ordered, TypeOK, c

LEMMA OrderStep == ASSUME TypeOK, Ordered, Next PROVE Ordered'
<1>1. ASSUME NEW k \in Keys, Offer(k) PROVE Ordered'
  <2>1. PICK s : Sequenced(s, sent) /\ delivered' = [delivered EXCEPT ![k] = s]
    <3>1. CASE Lookup(k) = NULL
      <4>1. Sequenced(<<>>, sent)
        BY DEF Sequenced
      <4> QED BY <1>1, <3>1, <4>1 DEF Offer
    <3>2. CASE Lookup(k) # NULL
      <4>1. Lookup(k) \in QueueIds
        BY <3>2, LookupFinds
      <4>2. messages[Lookup(k)] \in Seq(Messages) /\ Sequenced(messages[Lookup(k)], sent)
        BY <4>1 DEF TypeOK, Ordered
      <4>3. \A submitted \in Submitted(Lookup(k)) : Sequenced(submitted, sent)
        BY <4>2, PrefixSequenced DEF Submitted
      <4> QED BY <1>1, <3>2, <4>3 DEF Offer
    <3> QED BY <3>1, <3>2
  <2>2. UNCHANGED <<messages, sent>>
    BY <1>1 DEF Offer
  <2> QED BY <2>1, <2>2 DEF Ordered, TypeOK
<1>2. ASSUME NEW k \in Keys, CandidateRouted(k) PROVE Ordered'
  <2>1. /\ \A q \in QueueIds : Sequenced(messages[q], sent')
        /\ \A p \in Keys : /\ Sequenced(delivered[p], sent')
                           /\ Sequenced(Append(delivered[p], Candidate(k)), sent')
    BY <1>2, SendStep DEF CandidateRouted
  <2>2. /\ delivered' = [delivered EXCEPT ![k] = Append(@, Candidate(k))] \/ UNCHANGED delivered
        /\ UNCHANGED messages
    BY <1>2 DEF CandidateRouted, queues
  <2> QED BY <2>1, <2>2 DEF Ordered, TypeOK
<1>3. ASSUME NEW k \in Keys, CandidateCreates(k) PROVE Ordered'
  <2>1. /\ \A q \in QueueIds : Sequenced(messages[q], sent')
        /\ \A p \in Keys : Sequenced(delivered[p], sent')
        /\ Sequenced(<<Candidate(k)>>, sent')
    BY <1>3, SendStep DEF CandidateCreates
  <2>2. Sequenced(<<>>, sent')
    BY DEF Sequenced
  <2>3. UNCHANGED delivered /\ \E q \in QueueIds :
          messages' \in {[messages EXCEPT ![q] = <<Candidate(k)>>], [messages EXCEPT ![q] = <<>>]}
    BY <1>3 DEF CandidateCreates, SetKey
  <2> QED BY <2>1, <2>2, <2>3 DEF Ordered, TypeOK
<1>4. ASSUME NEW k \in Keys, CandidatePushed(k) PROVE Ordered'
  <2>1. /\ \A q \in QueueIds : /\ Sequenced(messages[q], sent')
                               /\ Sequenced(Append(messages[q], Candidate(k)), sent')
        /\ \A p \in Keys : Sequenced(delivered[p], sent')
    BY <1>4, SendStep DEF CandidatePushed
  <2>2. /\ messages' = [messages EXCEPT ![Lookup(k)] = Append(@, Candidate(k))]
        /\ UNCHANGED delivered
    BY <1>4 DEF CandidatePushed, AddLast
  <2> QED BY <2>1, <2>2 DEF Ordered, TypeOK
<1>5. ASSUME NEW k \in Keys, CandidateLost(k) PROVE Ordered'
  <2>1. /\ \A q \in QueueIds : Sequenced(messages[q], sent')
        /\ \A p \in Keys : Sequenced(delivered[p], sent')
    BY <1>5, SendStep DEF CandidateLost
  <2> QED BY <1>5, <2>1 DEF CandidateLost, queues, Ordered
<1>6. CASE UNCHANGED <<messages, delivered, sent>>
  BY <1>6 DEF Ordered
<1> QED BY <1>1, <1>2, <1>3, <1>4, <1>5, <1>6 DEF Next, OfferRefused, SessionEnds,
       RemoveExpired, FreeConnectionMsgQ, Tick, queues

(* Candidates reach a session in the order they were sent, and none twice,   *)
(* with any number of peers: also those that the lookup puts into the queue  *)
(* of another peer, those that outlive several offers, and those that come   *)
(* after the offer.                                                          *)
THEOREM DeliveredInOrder == Spec => []InOrder
<1>1. Init => Ordered
  BY DEF Init, Ordered, Sequenced
<1>2. TypeOK /\ Ordered /\ [Next]_vars => Ordered'
  <2>1. ASSUME Ordered, UNCHANGED vars PROVE Ordered'
    BY <2>1 DEF Ordered, vars, queues
  <2> QED BY <2>1, OrderStep
<1>3. Ordered => InOrder
  BY DEF Ordered, Sequenced, InOrder
<1> QED BY <1>1, <1>2, <1>3, ShapeAlways, PTL DEF Spec

(* The offer that starts a peer's session submits every candidate that waits *)
(* in the peer's queue, provided none is refused on the way.                 *)
THEOREM OfferSubmitsAll ==
  ASSUME "hook" \notin Faults
  PROVE  Spec => OfferDrains
<1> DEFINE Drains ==
      \A k \in routed' \ routed :
        \A q \in Linked : hashValue[q] = k =>
          \A i \in DOMAIN messages[q] :
            \E j \in DOMAIN delivered'[k] : delivered'[k][j] = messages[q][i]
<1>1. ASSUME TypeOK, OneQueue, Next PROVE Drains
  <2>1. ASSUME NEW k \in Keys, Offer(k) PROVE Drains
    <3>1. routed' \ routed = {k}
      BY <1>1, <2>1 DEF Offer
    <3>2. ASSUME NEW q \in Linked, hashValue[q] = k PROVE delivered'[k] = messages[q]
      <4>1. Lookup(k) \in Matches(k) /\ q \in Matches(k)
        BY <1>1, <3>2, LookupFinds DEF Matches
      <4>2. Lookup(k) = q /\ q # NULL
        BY <1>1, <4>1, OneLinked, LookupFinds, PendingMsgQAssumption DEF Matches
      <4>3. Submitted(q) = {messages[q]}
        BY DEF Submitted
      <4> QED BY <1>1, <2>1, <4>2, <4>3 DEF Offer, TypeOK
    <3> QED BY <3>1, <3>2
  <2>2. CASE routed' \subseteq routed
    BY <2>2
  <2> QED BY <1>1, <2>1, <2>2 DEF Next, OfferRefused, SessionEnds, CandidateRouted,
       CandidateCreates, CandidatePushed, CandidateLost, RemoveExpired, FreeConnectionMsgQ, Tick
<1>2. TypeOK /\ OneQueue /\ [Next]_vars => [Drains]_vars
  BY <1>1
<1> QED BY <1>2, ShapeAlways, PTL DEF Spec, OfferDrains
=============================================================================
