-------------------------------- MODULE Sums --------------------------------
(* The sum of a sequence of numbers, as the program adds them up: from the  *)
(* first to the last.                                                       *)
EXTENDS Integers, SequencesExt

Total(s) == FoldLeft(LAMBDA t, n : t + n, 0, s)
=============================================================================
