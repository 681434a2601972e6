----------------------------- MODULE Resampler -----------------------------
(***************************************************************************)
(* How many samples RationalResampler has put out after `count` input      *)
(* samples: output j is computed around input j * from / to and waits for  *)
(* radius samples to the right of it, until the input is finished.         *)
(***************************************************************************)
EXTENDS Naturals, FiniteSets

\* valid_end_sample, rounded up: the outputs that lie before the end of the input.
Owed(count, from, to) == (count * to + from - 1) \div from

Centered(j, from, to) == (j * from) \div to

\* _emit(final=False)
Emitted(count, from, to, radius) ==
  Cardinality({j \in 0..(Owed(count, from, to) - 1) : Centered(j, from, to) + radius < count})
=============================================================================
