----------------------------- MODULE MCSessions -----------------------------
(* Instances of Sessions for TLC.                                            *)
EXTENDS Sessions, TLC

CONSTANTS p1, p2, p3, k1, k2

(* The CRC32 of the peer ids: p1 and p3, if there is a p3, collide.          *)
PeerKeys == [p \in Peers |-> IF p = p2 THEN k2 ELSE k1]

(* The addresses of sessions are interchangeable, and so are the timers.     *)
Symmetry == Permutations(SessionIds) \cup Permutations(TimerIds) \cup Permutations(Handlers)
=============================================================================
