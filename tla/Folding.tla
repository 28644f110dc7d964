-------------------------------- MODULE Folding --------------------------------
(***************************************************************************)
(* A loop over a sequence, as a recursive function: the provers can reason *)
(* about one, which they cannot about a RECURSIVE operator.                *)
(***************************************************************************)
EXTENDS Integers, Sequences

\* The step from what was made so far with the next element, a function on pairs.
Taking(step, made, x) == step[<<made, x>>]

\* From left to right.
Fold(step, base, s) ==
  LET made[n \in 0..Len(s)] == IF n = 0 THEN base ELSE Taking(step, made[n - 1], s[n])
  IN  made[Len(s)]

\* One sequence after the other.
Flat(seqs) ==
  LET out[n \in 0..Len(seqs)] == IF n = 0 THEN <<>> ELSE out[n - 1] \o seqs[n]
  IN  out[Len(seqs)]
===============================================================================
