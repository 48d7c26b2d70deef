------------------------------ MODULE CertPool ------------------------------
(***************************************************************************)
(* The pre-generated certificates of AppCredential.c: a timer generates    *)
(* them ahead (generateCertRoutine), a new peer connection takes one       *)
(* (popGeneratedCert, called by initializePeerConnection), and the rest    *)
(* is freed with the application (destroyCredential).  Each of them runs   *)
(* under appConfigurationObjLock or alone, so each is one step.            *)
(***************************************************************************)
EXTENDS Naturals, Sequences, SequencesExt, FiniteSets

CONSTANTS
  Certs,                              (* the addresses of certificates        *)
  MAX_RTCCONFIGURATION_CERTIFICATES,
  Faults                              (* the calls that may fail              *)

AllFaults ==
  { "create",     (* createRtcCertificate                                     *)
    "enqueue",    (* appQueueEnqueue                                          *)
    "peer" }      (* createPeerConnection                                     *)

VARIABLES
  generatedCertificates,   (* the queue                                       *)
  allocated,               (* the certificates not freed                      *)
  configured,              (* those a peer connection was configured with     *)
  pc                       (* "run" or, once the application is freed, "end"  *)

vars == <<generatedCertificates, allocated, configured, pc>>

Queued == ToSet(generatedCertificates)

-----------------------------------------------------------------------------
NeverEnough == TRUE   (* mutant: the queue is not looked at *)
(* The guard generates one certificate more than the maximum.                *)
NotEnough == Len(generatedCertificates) <= MAX_RTCCONFIGURATION_CERTIFICATES

GenerateCert ==
  /\ pc = "run"
  /\ NotEnough
  /\ \E c \in Certs \ allocated :
       /\ allocated' = allocated \cup {c}
       /\ configured' = configured \ {c}
       /\ generatedCertificates' = Append(generatedCertificates, c)
  /\ UNCHANGED pc

(* A certificate that the queue refuses is freed again.                      *)
GenerateCertFails ==
  /\ pc = "run"
  /\ NotEnough
  /\ Faults \cap {"create", "enqueue"} # {}
  /\ UNCHANGED vars

PeekCert ==   (* mutant: the certificate is not taken off the queue *)
  UNCHANGED generatedCertificates
PopCert == generatedCertificates' = Tail(generatedCertificates)

(* initializePeerConnection copies the certificate into the configuration    *)
(* and forgets the pointer, so that the free at its end frees nothing.       *)
ConfigurePeer ==
  /\ pc = "run"
  /\ generatedCertificates # <<>>
  /\ PopCert
  /\ \/ configured' = configured \cup {Head(generatedCertificates)}
     \/ "peer" \in Faults /\ UNCHANGED configured
  /\ UNCHANGED <<allocated, pc>>

(* destroyCredential frees what is in the queue.                             *)
Destroy ==
  /\ pc = "run"
  /\ pc' = "end"
  /\ allocated' = allocated \ Queued
  /\ generatedCertificates' = <<>>
  /\ UNCHANGED configured

-----------------------------------------------------------------------------
Init ==
  /\ generatedCertificates = <<>>
  /\ allocated = {}
  /\ configured = {}
  /\ pc = "run"

Next == GenerateCert \/ GenerateCertFails \/ ConfigurePeer \/ Destroy

Spec == Init /\ [][Next]_vars

-----------------------------------------------------------------------------
(* Properties                                                                *)

(* The queue holds at most one certificate more than the maximum.            *)
TypeOK ==
  /\ generatedCertificates \in Seq(Certs)
  /\ Len(generatedCertificates) <= MAX_RTCCONFIGURATION_CERTIFICATES + 1
  /\ allocated \subseteq Certs
  /\ configured \subseteq Certs
  /\ pc \in {"run", "end"}

(* "Use the pre-generated cert and get rid of it to not reuse again": a      *)
(* certificate a peer connection has can never be popped for another one.    *)
NoReuse ==
  /\ Queued \cap configured = {}
  /\ IsInjective(generatedCertificates)
  /\ Queued \subseteq allocated

(* "Free the certificate which can be NULL as we no longer need it and won't *)
(* reuse": a certificate that is not in the queue is freed.                  *)
PoppedFreed == allocated \subseteq Queued
=============================================================================
