-------------------------- MODULE SessionRegistry --------------------------
(***************************************************************************)
(* What the session bookkeeping of AppCommon.c promises, without threads,  *)
(* locks, arrays or memory: a bounded set of member sessions, a session    *)
(* leaves only after it was doomed, and a route leads to a member.         *)
(***************************************************************************)
EXTENDS Naturals, FiniteSets

CONSTANTS Sessions, Keys, MaxSessions, NULL

VARIABLES
  members,    (* the sessions media frames are sent to            *)
  doomed,     (* the members that must go                         *)
  route       (* key -> the member that gets the key's messages   *)

rvars == <<members, doomed, route>>

RegistryInit ==
  /\ members = {}
  /\ doomed = {}
  /\ route = [k \in Keys |-> NULL]

(* A session may be doomed already when it joins: its peer is gone.          *)
Join(s) ==
  /\ s \notin members
  /\ Cardinality(members) < MaxSessions
  /\ members' = members \cup {s}
  /\ doomed' \in {doomed, doomed \cup {s}}
  /\ UNCHANGED route

Attach(k, s) ==
  /\ s \in members
  /\ route[k] = NULL
  /\ route' = [route EXCEPT ![k] = s]
  /\ UNCHANGED <<members, doomed>>

Doom(S) ==
  /\ S \subseteq members
  /\ doomed' = doomed \cup S
  /\ UNCHANGED <<members, route>>

(* The route under the leaving session's own key goes with it.               *)
Depart(k, s) ==
  /\ s \in doomed
  /\ \A k2 \in Keys \ {k} : route[k2] # s
  /\ members' = members \ {s}
  /\ doomed' = doomed \ {s}
  /\ route' = [route EXCEPT ![k] = NULL]

RegistryNext ==
  \/ \E s \in Sessions : Join(s) \/ \E k \in Keys : Attach(k, s) \/ Depart(k, s)
  \/ \E S \in SUBSET members : Doom(S)

RegistrySpec == RegistryInit /\ [][RegistryNext]_rvars

(* There is room for every member, only members are doomed, and a route      *)
(* leads to a member.                                                        *)
RegistrySound ==
  /\ IsFiniteSet(members)
  /\ Cardinality(members) <= MaxSessions
  /\ doomed \subseteq members
  /\ route \in [Keys -> members \cup {NULL}]
=============================================================================
