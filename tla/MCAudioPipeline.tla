--------------------------- MODULE MCAudioPipeline ---------------------------
(* Instances of AudioPipeline for TLC. *)
EXTENDS AudioPipeline, TLC

Symmetry == Permutations(Producer)
=============================================================================
