----------------------------- MODULE MCLifecycle -----------------------------
(* Instances of Lifecycle for TLC. *)
EXTENDS Lifecycle, TLC

\* Uploads and sessions are interchangeable; assets are ordered by enrollment.
Symmetry == Permutations(Upload) \cup Permutations(Session) \cup Permutations(Consent)
==============================================================================
