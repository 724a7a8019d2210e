-------------------------------- MODULE Sums --------------------------------
(***************************************************************************)
(* Sums of sequences of numbers, by a recursive function, about which      *)
(* NumberTheorems can reason.                                              *)
(***************************************************************************)
EXTENDS Integers, Sequences

\* The sums of the first 0, 1, ..., Len(s) numbers of s.
PartialSums(s) ==
  LET upTo[n \in 0..Len(s)] == IF n = 0 THEN 0 ELSE upTo[n - 1] + s[n] IN upTo

Total(s) == PartialSums(s)[Len(s)]
=============================================================================
