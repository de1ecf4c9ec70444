--------------------------- MODULE MCSettleQueue ---------------------------
(* Model-checking instances of SettleQueue.  The settles are interchangeable, *)
(* but no symmetry is declared: the runs check liveness.                      *)
EXTENDS SettleQueue
=============================================================================
