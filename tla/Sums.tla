-------------------------------- MODULE Sums --------------------------------
(* Sums of quantities and of money along a sequence.  The folds of the      *)
(* community modules take an operator and a choice function, which no       *)
(* prover can instantiate; a recursive function can be reasoned about.      *)
EXTENDS Integers

(* q[m] + ... + q[n], 0 for n = m - 1.                                      *)
Total(q, m, n) ==
  LET upTo[i \in (m - 1)..n] == IF i < m THEN 0 ELSE upTo[i - 1] + q[i]
  IN  upTo[n]
=============================================================================
