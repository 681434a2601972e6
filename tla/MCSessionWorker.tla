--------------------------- MODULE MCSessionWorker ---------------------------
(* Instances of SessionWorker for TLC. *)
EXTENDS SessionWorker, TLC

MCTotals == {0, 7, 12, 20, 24, 30}
=============================================================================
