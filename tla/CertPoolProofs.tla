--------------------------- MODULE CertPoolProofs ---------------------------
(***************************************************************************)
(* The pre-generated certificates, for any set of addresses, any maximum   *)
(* and any failing calls: TypeOK and NoReuse together are inductive.  The  *)
(* step lemmas say so of one step at a time, so that a module that uses    *)
(* the pool (Lifecycle) can cite them for the steps it takes of it.        *)
(***************************************************************************)
EXTENDS CertPool, TLAPS

Inv == TypeOK /\ NoReuse

-----------------------------------------------------------------------------
(* A queue that takes an address it does not hold, as appQueueEnqueue does,  *)
(* holds it last, once, and the others as before.                            *)
LEMMA Enqueued ==
  ASSUME NEW S, NEW q \in Seq(S), NEW c \in S, IsInjective(q), c \notin ToSet(q)
  PROVE  /\ Append(q, c) \in Seq(S)
         /\ Len(Append(q, c)) = Len(q) + 1
         /\ ToSet(Append(q, c)) = ToSet(q) \cup {c}
         /\ IsInjective(Append(q, c))
<1> DEFINE a == Append(q, c)
<1>1. /\ a \in Seq(S)
      /\ Len(a) = Len(q) + 1
      /\ Len(q) \in Nat
      /\ DOMAIN q = 1 .. Len(q)
      /\ DOMAIN a = 1 .. Len(q) + 1
      /\ a[Len(q) + 1] = c
      /\ \A i \in 1 .. Len(q) : a[i] = q[i]
  OBVIOUS
<1> HIDE DEF a
<1>2. ToSet(a) = ToSet(q) \cup {c}
  BY <1>1 DEF ToSet
<1>3. IsInjective(a)
  <2> SUFFICES ASSUME NEW i \in 1 .. Len(q) + 1, NEW j \in 1 .. Len(q) + 1, a[i] = a[j]
               PROVE  i = j
    BY <1>1 DEF IsInjective
  <2>1. \A k \in 1 .. Len(q) : q[k] # c
    BY <1>1 DEF ToSet
  <2> QED BY <1>1, <2>1 DEF IsInjective
<1> QED BY <1>1, <1>2, <1>3 DEF a

(* A queue that gives its first address away, as appQueueDequeue does, has   *)
(* the others left, and that one no more.                                    *)
LEMMA Dequeued ==
  ASSUME NEW S, NEW q \in Seq(S), q # <<>>, IsInjective(q)
  PROVE  /\ Tail(q) \in Seq(S)
         /\ Len(Tail(q)) = Len(q) - 1
         /\ Head(q) \in ToSet(q) /\ Head(q) \in S
         /\ ToSet(Tail(q)) = ToSet(q) \ {Head(q)}
         /\ IsInjective(Tail(q))
<1> DEFINE t == Tail(q)
<1>1. /\ t \in Seq(S)
      /\ Len(q) \in Nat \ {0}
      /\ Len(t) = Len(q) - 1
      /\ DOMAIN q = 1 .. Len(q)
      /\ DOMAIN t = 1 .. Len(q) - 1
      /\ Head(q) = q[1] /\ q[1] \in S
      /\ \A i \in 1 .. Len(q) - 1 : t[i] = q[i + 1]
  OBVIOUS
<1> HIDE DEF t
<1>2. Head(q) \in ToSet(q)
  BY <1>1 DEF ToSet
<1>3. ToSet(t) = ToSet(q) \ {Head(q)}
  <2>1. ASSUME NEW i \in 1 .. Len(q) - 1
        PROVE  t[i] \in ToSet(q) \ {Head(q)}
    BY <1>1 DEF ToSet, IsInjective
  <2>2. ASSUME NEW i \in 1 .. Len(q), q[i] # Head(q)
        PROVE  q[i] \in ToSet(t)
    <3>1. i - 1 \in 1 .. Len(q) - 1 /\ t[i - 1] = q[i]
      BY <1>1, <2>2
    <3> QED BY <1>1, <3>1 DEF ToSet
  <2> QED BY <1>1, <2>1, <2>2 DEF ToSet
<1>4. IsInjective(t)
  BY <1>1 DEF IsInjective
<1> QED BY <1>1, <1>2, <1>3, <1>4 DEF t

-----------------------------------------------------------------------------
(* generateCertRoutine takes an address malloc has not given out, so one     *)
(* that is not in the queue.                                                 *)
LEMMA Generated ==
  ASSUME MAX_RTCCONFIGURATION_CERTIFICATES \in Nat, Inv, GenerateCert
  PROVE  Inv'
<1>1. PICK c \in Certs \ allocated :
        /\ allocated' = allocated \cup {c}
        /\ configured' = configured \ {c}
        /\ generatedCertificates' = Append(generatedCertificates, c)
  BY DEF GenerateCert
<1>2. /\ generatedCertificates' \in Seq(Certs)
      /\ Len(generatedCertificates') = Len(generatedCertificates) + 1
      /\ Queued' = Queued \cup {c}
      /\ IsInjective(generatedCertificates')
  BY <1>1, Enqueued DEF Inv, TypeOK, NoReuse, Queued
<1>3. Len(generatedCertificates) \in Nat
  BY DEF Inv, TypeOK
<1>4. TypeOK'
  BY <1>1, <1>2, <1>3 DEF Inv, TypeOK, GenerateCert, NotEnough
<1>5. NoReuse'
  BY <1>1, <1>2 DEF Inv, NoReuse
<1> QED BY <1>4, <1>5 DEF Inv

(* initializePeerConnection configures a peer connection with a certificate  *)
(* that popGeneratedCert has taken out of the queue.                         *)
LEMMA Configured ==
  ASSUME MAX_RTCCONFIGURATION_CERTIFICATES \in Nat, Inv, ConfigurePeer
  PROVE  Inv'
<1> DEFINE c == Head(generatedCertificates)
<1>1. configured' \subseteq configured \cup {c} /\ UNCHANGED <<allocated, pc>>
  BY DEF ConfigurePeer
<1>2. /\ generatedCertificates' \in Seq(Certs)
      /\ Len(generatedCertificates') = Len(generatedCertificates) - 1
      /\ c \in Queued /\ c \in Certs
      /\ Queued' = Queued \ {c}
      /\ IsInjective(generatedCertificates')
  BY Dequeued DEF Inv, TypeOK, NoReuse, Queued, ConfigurePeer, PopCert
<1>3. Len(generatedCertificates) \in Nat
  BY DEF Inv, TypeOK
<1> HIDE DEF c
<1>4. TypeOK'
  BY <1>1, <1>2, <1>3 DEF Inv, TypeOK
<1>5. NoReuse'
  BY <1>1, <1>2 DEF Inv, NoReuse
<1> QED BY <1>4, <1>5 DEF Inv

(* An empty queue is what the pool starts and ends with.                     *)
LEMMA NoneQueued == ToSet(<<>>) = {} /\ IsInjective(<<>>) /\ <<>> \in Seq(Certs)
BY DEF ToSet, IsInjective

(* destroyCredential frees what is in the queue.                             *)
LEMMA Destroyed ==
  ASSUME MAX_RTCCONFIGURATION_CERTIFICATES \in Nat, Inv, Destroy
  PROVE  Inv'
BY NoneQueued DEF Inv, TypeOK, NoReuse, Queued, Destroy

LEMMA InvInit ==
  ASSUME MAX_RTCCONFIGURATION_CERTIFICATES \in Nat, Init
  PROVE  Inv
BY NoneQueued DEF Inv, TypeOK, NoReuse, Queued, Init

LEMMA Unchanged == Inv /\ UNCHANGED vars => Inv'
BY DEF Inv, TypeOK, NoReuse, Queued, vars

LEMMA InvNext ==
  ASSUME MAX_RTCCONFIGURATION_CERTIFICATES \in Nat, Inv, [Next]_vars
  PROVE  Inv'
BY Generated, Configured, Destroyed, Unchanged DEF Next, GenerateCertFails

-----------------------------------------------------------------------------
(* "Use the pre-generated cert and get rid of it to not reuse again": the    *)
(* queue never holds a certificate twice, one that a peer connection has,    *)
(* or one that is freed; and it holds one more than the maximum at most.     *)
THEOREM PoolSound ==
  ASSUME MAX_RTCCONFIGURATION_CERTIFICATES \in Nat
  PROVE  Spec => [](TypeOK /\ NoReuse)
<1>1. Init => Inv
  BY InvInit
<1>2. Inv /\ [Next]_vars => Inv'
  BY InvNext
<1>3. Inv => TypeOK /\ NoReuse
  BY DEF Inv
<1> QED BY <1>1, <1>2, <1>3, PTL DEF Spec
=============================================================================
