--------------------------- MODULE MCQwenProvider ---------------------------
(* Instances of QwenProvider for TLC. *)
EXTENDS QwenProvider, TLC
=============================================================================
