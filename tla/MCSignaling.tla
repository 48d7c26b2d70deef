---------------------------- MODULE MCSignaling ----------------------------
(* Instances of Signaling for TLC.                                           *)
EXTENDS Signaling, TLC

(* The addresses of clients are interchangeable.                             *)
Symmetry == Permutations(Clients)
=============================================================================
