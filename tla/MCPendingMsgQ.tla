--------------------------- MODULE MCPendingMsgQ ---------------------------
(* Instances of PendingMsgQ for TLC.                                         *)
EXTENDS PendingMsgQ, TLC

(* The addresses of queues are interchangeable.                              *)
Symmetry == Permutations(QueueIds)
=============================================================================
