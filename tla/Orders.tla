------------------------------- MODULE Orders -------------------------------
(* The members of a finite set as a sequence.  SortSeq and SelectSeq take   *)
(* operators and have no definition a prover can expand; an order that is a *)
(* set of pairs can be reasoned about.                                      *)
EXTENDS Integers, FiniteSets, Sequences

(* before: the pairs of a strict total order of S.                          *)
PlaceOf(x, S, before) == 1 + Cardinality({y \in S : <<y, x>> \in before})

(* TLC takes the sequence once, because of the empty one in front of it,    *)
(* and the members once, because of the set of them.                        *)
Placed(S, before) ==
  LET placed == {<<PlaceOf(x, S, before), x>> : x \in S}
  IN  <<>> \o [k \in 1..Cardinality(S) |-> (CHOOSE p \in placed : p[1] = k)[2]]

Ordered(S, before) == Placed({x : x \in S}, before)

(* Numbers from the least to the greatest.                                  *)
Ascending(S) == Ordered(S, {p \in Nat \X Nat : p[1] < p[2]})
=============================================================================
