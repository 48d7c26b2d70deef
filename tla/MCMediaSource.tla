--------------------------- MODULE MCMediaSource ---------------------------
(* Instances of MediaSource for TLC.                                         *)
EXTENDS MediaSource, TLC

(* The viewers are interchangeable, and so are the streaming threads.        *)
Symmetry == Permutations(Viewers) \cup Permutations(Sinks)
=============================================================================
