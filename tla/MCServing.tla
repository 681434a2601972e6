----------------------------- MODULE MCServing -----------------------------
(* Instances of Serving for TLC. *)
EXTENDS Serving, TLC

MCSymmetry == Permutations(Page) \cup Permutations(Key)
=============================================================================
