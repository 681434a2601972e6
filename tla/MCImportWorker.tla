---------------------------- MODULE MCImportWorker ----------------------------
(* Instances of ImportWorker for TLC. *)
EXTENDS ImportWorker, TLC

Symmetry == Permutations(Upload) \cup Permutations(Session)
===============================================================================
