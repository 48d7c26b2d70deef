---------------------------- MODULE MCLifecycle ----------------------------
(* Instances of Lifecycle for TLC.                                           *)
EXTENDS Lifecycle, TLC

(* The addresses of certificates are interchangeable.                        *)
Symmetry == Permutations(Certs)
=============================================================================
