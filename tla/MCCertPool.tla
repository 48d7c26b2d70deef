----------------------------- MODULE MCCertPool -----------------------------
(* Instances of CertPool for TLC.                                            *)
EXTENDS CertPool, TLC

(* The addresses of certificates are interchangeable.                        *)
Symmetry == Permutations(Certs)
=============================================================================
